------------------------ MODULE DeployOutcomeProofs ------------------------
(***************************************************************************)
(* What logs say of outcomes is true: the whole inductive invariant; and   *)
(* entries only advance, the renter's never ahead of the provider's: four  *)
(* goroutines on two nodes write them, and each writes what is no earlier  *)
(* than anything the others have written.                                  *)
(***************************************************************************)
EXTENDS DeployProofs

-----------------------------------------------------------------------------
(* What was justified stays so. *)

\* Results are never taken back, and a request that has one keeps its key.
LEMMA ResultsStay ==
  ASSUME Flow, Next, NEW r \in Request, result[r] # {}
  PROVE  result'[r] = result[r] /\ requestedAt'[r] = requestedAt[r]
<1>1. TypeOK /\ Stamped(r) /\ ResultFlow(r)
  BY DEF Flow, Typed
<1>2. handler[r] \notin {"idle", "checking", "preparing", "starting", "running"}
  BY <1>1 DEF ResultFlow
<1>3. call[r] # "idle"
  BY <1>1, <1>2 DEF Stamped
<1>4. ASSUME NEW s \in Request, RenterStep(s), UNCHANGED providerVars
      PROVE  result'[r] = result[r] /\ requestedAt'[r] = requestedAt[r]
  <2>1. UNCHANGED result
    BY <1>4 DEF providerVars
  <2>2. requestedAt'[r] = requestedAt[r]
    BY <1>1, <1>3, <1>4 DEF RenterStep, CallStep, PollStep, SubmitFails, Submit, DialFails, Dial,
       WriteRequest, WriteFails, ReadAnswer, ReadFails, Abandon, RecordResult, SaveFails, PollAsk,
       PollStop, PollFails, PollApply, sharedVars, requestVars, TypeOK, SharedTypeOK
  <2> QED
    BY <2>1, <2>2
<1>5. ASSUME NEW s \in Request, ProviderStep(s), UNCHANGED renterVars
      PROVE  result'[r] = result[r] /\ requestedAt'[r] = requestedAt[r]
  <2>1. requestedAt'[r] = requestedAt[r]
    BY <1>5 DEF ProviderStep, HandlerStep, ChildStep, Receive, Reject, MakeDir, PrepareFails, Prepare,
       StartFails, Start, Finish, Respond, RespondOnly, RespondFails, Down, DownFails, RemoveDir,
       RemoveDirFails, ChildPrints, ChildExits, ReaderPush, AnswerStatus, Fail, sharedVars, requestVars
  <2>2. result'[r] = result[r]
    <3>1. CASE r # s
      BY <1>1, <1>5, <3>1, ProviderStepIsLocal
    <3>2. CASE r = s
      BY <1>2, <1>5, <3>2 DEF ProviderStep, HandlerStep, ChildStep, Receive, Reject, MakeDir,
         PrepareFails, Prepare, StartFails, Start, Finish, Respond, RespondOnly, RespondFails, Down,
         DownFails, RemoveDir, RemoveDirFails, ChildPrints, ChildExits, ReaderPush, AnswerStatus,
         Goto, providerVars
    <3> QED
      BY <3>1, <3>2
  <2> QED
    BY <2>1, <2>2
<1>6. CASE \/ \E s \in Request : StreamReset(s) \/ RequestLost(s)
           \/ \E n \in Node : Crash(n)
           \/ Tick
  BY <1>6 DEF StreamReset, RequestLost, Crash, Tick, requestVars, providerVars
<1> QED
  BY <1>4, <1>5, <1>6 DEF Next, Step

LEMMA JustifiedStays ==
  ASSUME Flow, Next, NEW event, Justified(event)
  PROVE  Justified(event)'
<1>1. CASE event.status \notin Terminal
  BY <1>1 DEF Justified
<1>2. CASE event.status \in Terminal
  <2>1. PICK r \in Request : /\ DeployEventKey(r) = event.key
                             /\ \E a \in result[r] : a.status = event.status /\ a.lines = event.lines
    BY <1>2 DEF Justified
  <2>2. result'[r] = result[r] /\ requestedAt'[r] = requestedAt[r]
    BY <2>1, ResultsStay
  <2>3. DeployEventKey(r)' = event.key
    BY <2>1, <2>2 DEF DeployEventKey
  <2> QED
    BY <2>1, <2>2, <2>3 DEF Justified
<1> QED
  BY <1>1, <1>2

\* An event about r that repeats its result is justified.
LEMMA RepeatsResult ==
  ASSUME NEW r \in Request, NEW a \in result[r], NEW files
  PROVE  Justified(EventOf(r, a.status, a.lines, files))
  BY DEF Justified, EventOf

\* Posting a justified event leaves only justified events in the logs.
LEMMA PostJustified ==
  ASSUME Flow, Next, EventsJustified, NEW n \in Node, NEW event, Post(n, event), Justified(event)'
  PROVE  \A m \in Node : \A e \in EventsOf(deploys'[m]) : Justified(e)'
<1> SUFFICES ASSUME NEW m \in Node, NEW e \in EventsOf(deploys'[m]) PROVE Justified(e)'
  OBVIOUS
<1>1. deploys \in [Node -> Seq(Event)]
  BY DEF Flow, Typed, TypeOK, SharedTypeOK
<1>2. CASE e \in EventsOf(deploys[m])
  BY <1>2, JustifiedStays DEF EventsJustified
<1>3. CASE e \notin EventsOf(deploys[m])
  <2>1. m = n /\ deploys'[m] = UpsertDeployEvent(deploys[n], event)
    BY <1>1, <1>3 DEF Post
  <2>2. PICK i \in DOMAIN UpsertDeployEvent(deploys[n], event) :
          e = UpsertDeployEvent(deploys[n], event)[i]
    BY <2>1 DEF EventsOf
  <2>3. e = event \/ \E j \in DOMAIN deploys[n] : e = deploys[n][j]
    BY <1>1, <2>2, UpsertAddsOnlyEvent
  <2>4. e = event
    BY <1>3, <2>1, <2>3 DEF EventsOf
  <2> QED
    BY <2>4
<1> QED
  BY <1>2, <1>3

-----------------------------------------------------------------------------
(* Every step leaves only justified events. *)

\* Logs that a step does not write to keep their justified events.
LEMMA OldEventsJustified ==
  ASSUME Flow, Next, EventsJustified, UNCHANGED deploys
  PROVE  \A m \in Node : \A e \in EventsOf(deploys'[m]) : Justified(e)'
  BY JustifiedStays DEF EventsJustified

\* An event that is still on its way belongs to its request, and stays
\* justified.
LEMMA OldRepliesJustified ==
  ASSUME Flow, Next, EventsJustified, NEW r \in Request, reply'[r] \subseteq reply[r]
  PROVE  \A e \in reply'[r] : e.key = DeployEventKey(r)' /\ Justified(e)'
<1> SUFFICES ASSUME NEW e \in reply[r] PROVE e.key = DeployEventKey(r)' /\ Justified(e)'
  OBVIOUS
<1>1. e.key = DeployEventKey(r) /\ Justified(e)
  BY DEF EventsJustified
<1>2. TypeOK /\ Stamped(r)
  BY DEF Flow, Typed
<1>3. call[r] # "idle"
  BY <1>2 DEF Stamped
<1>4. requestedAt'[r] = requestedAt[r]
  <2>1. ASSUME NEW s \in Request, RenterStep(s) PROVE requestedAt'[r] = requestedAt[r]
    BY <1>2, <1>3, <2>1 DEF RenterStep, CallStep, PollStep, SubmitFails, Submit, DialFails, Dial,
       WriteRequest, WriteFails, ReadAnswer, ReadFails, Abandon, RecordResult, SaveFails, PollAsk,
       PollStop, PollFails, PollApply, sharedVars, requestVars, TypeOK, SharedTypeOK
  <2>2. ASSUME NEW s \in Request, ProviderStep(s) PROVE requestedAt'[r] = requestedAt[r]
    BY <2>2 DEF ProviderStep, HandlerStep, ChildStep, Receive, Reject, MakeDir, PrepareFails, Prepare,
       StartFails, Start, Finish, Respond, RespondOnly, RespondFails, Down, DownFails, RemoveDir,
       RemoveDirFails, ChildPrints, ChildExits, ReaderPush, AnswerStatus, Fail, sharedVars, requestVars
  <2>3. CASE \/ \E s \in Request : StreamReset(s) \/ RequestLost(s)
             \/ \E n \in Node : Crash(n)
             \/ Tick
    BY <2>3 DEF StreamReset, RequestLost, Crash, Tick, requestVars
  <2> QED
    BY <2>1, <2>2, <2>3 DEF Next, Step
<1>5. DeployEventKey(r)' = DeployEventKey(r)
  BY <1>4 DEF DeployEventKey
<1> QED
  BY <1>1, <1>5, JustifiedStays

LEMMA RenterLogsJustified ==
  ASSUME Flow, Next, EventsJustified, NEW r \in Request, RenterStep(r), UNCHANGED providerVars
  PROVE  \A m \in Node : \A e \in EventsOf(deploys'[m]) : Justified(e)'
<1>s. Source[r] \in Node
  BY RequestAssumption
<1>1. CASE Submit(r)
  <2>1. PICK event : Post(Source[r], event) /\ event.status = "sent"
    BY <1>1 DEF Submit
  <2>2. Justified(event)'
    BY <2>1 DEF Justified, Terminal
  <2> QED
    BY <1>s, <2>1, <2>2, PostJustified
<1>2. CASE RecordResult(r)
  <2>1. PICK a \in answer[r] : Post(Source[r], RecordDeployResult(r, a))
    BY <1>2 DEF RecordResult
  <2>2. a \in result[r]
    BY <2>1 DEF Flow, ResultFlow
  <2>3. PICK event : event = RecordDeployResult(r, a)
    OBVIOUS
  <2>4. Justified(event)
    BY <2>2, <2>3, RepeatsResult DEF RecordDeployResult
  <2>5. Justified(event)' /\ Post(Source[r], event)
    BY <2>1, <2>3, <2>4, JustifiedStays
  <2> QED
    BY <1>s, <2>5, PostJustified
<1>3. CASE PollApply(r)
  <2>1. PICK old \in reply[r] : Post(Source[r], [old EXCEPT !.key = DeployEventKey(r)])
    BY <1>3 DEF PollApply
  <2>2. old.key = DeployEventKey(r) /\ Justified(old)
    BY <2>1 DEF EventsJustified
  <2>3. old \in Event
    BY <2>1 DEF Flow, Typed, TypeOK, SharedTypeOK
  <2>4. [old EXCEPT !.key = DeployEventKey(r)] = old
    BY <2>2, <2>3 DEF Event
  <2>5. Justified(old)' /\ Post(Source[r], old)
    BY <2>1, <2>2, <2>4, JustifiedStays
  <2> QED
    BY <1>s, <2>5, PostJustified
<1>4. CASE ~ (Submit(r) \/ RecordResult(r) \/ PollApply(r))
  <2>1. UNCHANGED deploys
    BY <1>4 DEF RenterStep, CallStep, PollStep, SubmitFails, DialFails, Dial,
       WriteRequest, WriteFails, ReadAnswer, ReadFails, Abandon, SaveFails, PollAsk,
       PollStop, PollFails, sharedVars
  <2> QED
    BY <2>1, OldEventsJustified
<1> QED
  BY <1>1, <1>2, <1>3, <1>4

LEMMA ProviderLogsJustified ==
  ASSUME Flow, Next, EventsJustified, NEW r \in Request, ProviderStep(r), UNCHANGED renterVars
  PROVE  \A m \in Node : \A e \in EventsOf(deploys'[m]) : Justified(e)'
<1>s. Target[r] \in Node
  BY RequestAssumption
<1>t. result \in [Request -> SUBSET Answer]
  BY DEF Flow, Typed, TypeOK, ProviderTypeOK
<1>1. CASE Receive(r) \/ Prepare(r) \/ ReaderPush(r)
  <2>1. PICK event : Post(Target[r], event) /\ event.status \in {"received", "running"}
    BY <1>1 DEF Receive, Prepare, ReaderPush, EventOf
  <2>2. Justified(event)'
    BY <2>1 DEF Justified, Terminal
  <2> QED
    BY <1>s, <2>1, <2>2, PostJustified
<1>2. CASE Reject(r) \/ PrepareFails(r)
  <2>1. Fail(r)
    BY <1>2 DEF Reject, PrepareFails
  <2>2. PICK event : event = EventOf(r, "failed", 0, FALSE)
    OBVIOUS
  <2>3. event.status = "failed" /\ event.lines = 0 /\ event.key = DeployEventKey(r)
    BY <2>2 DEF EventOf
  <2>4. requestedAt' = requestedAt
    BY <2>1 DEF Fail, requestVars
  <2>5. PICK a \in result'[r] : a.status = "failed" /\ a.lines = 0
    BY <1>t, <2>1 DEF Fail
  <2>6. DeployEventKey(r)' = event.key
    BY <2>3, <2>4 DEF DeployEventKey
  <2>7. Justified(event)'
    BY <2>3, <2>5, <2>6 DEF Justified
  <2>8. Post(Target[r], event)
    BY <2>1, <2>2 DEF Fail
  <2> QED
    BY <1>s, <2>7, <2>8, PostJustified
<1>3. CASE Finish(r)
  <2>1. PICK a \in Answer : PostOutcome(r, a) /\ result' = [result EXCEPT ![r] = {a}]
    BY <1>3 DEF Finish
  <2>2. PICK event : event = EventOf(r, a.status, a.lines, FALSE)
    OBVIOUS
  <2>3. event.status = a.status /\ event.lines = a.lines /\ event.key = DeployEventKey(r)
    BY <2>2 DEF EventOf
  <2>4. requestedAt' = requestedAt
    BY <1>3 DEF Finish, requestVars
  <2>5. a \in result'[r]
    BY <1>t, <2>1
  <2>6. DeployEventKey(r)' = event.key
    BY <2>3, <2>4 DEF DeployEventKey
  <2>7. Justified(event)'
    BY <2>3, <2>5, <2>6 DEF Justified
  <2>8. Post(Target[r], event)
    BY <2>1, <2>2 DEF PostOutcome
  <2> QED
    BY <1>s, <2>7, <2>8, PostJustified
<1>4. CASE ~ (Receive(r) \/ Prepare(r) \/ ReaderPush(r) \/ Reject(r) \/ PrepareFails(r) \/ Finish(r))
  <2>1. UNCHANGED deploys
    BY <1>4 DEF ProviderStep, HandlerStep, ChildStep, MakeDir, StartFails, Start, Respond,
       RespondOnly, RespondFails, Down, DownFails, RemoveDir, RemoveDirFails, ChildPrints,
       ChildExits, AnswerStatus, sharedVars
  <2> QED
    BY <2>1, OldEventsJustified
<1> QED
  BY <1>1, <1>2, <1>3, <1>4

LEMMA EnvironmentLogsJustified ==
  ASSUME Flow, Next, EventsJustified,
         \/ \E r \in Request : StreamReset(r) \/ RequestLost(r)
         \/ \E n \in Node : Crash(n)
         \/ Tick
  PROVE  \A m \in Node : \A e \in EventsOf(deploys'[m]) : Justified(e)'
<1>1. CASE UNCHANGED deploys
  BY <1>1, OldEventsJustified
<1>2. ASSUME NEW n \in Node, deploys' = [deploys EXCEPT ![n] = <<>>]
      PROVE  \A m \in Node : \A e \in EventsOf(deploys'[m]) : Justified(e)'
  <2>1. \A m \in Node : EventsOf(deploys'[m]) \subseteq EventsOf(deploys[m])
    BY <1>2, EmptyLog DEF Flow, Typed, TypeOK, SharedTypeOK
  <2> QED
    BY <2>1, JustifiedStays DEF EventsJustified
<1>3. UNCHANGED deploys \/ \E n \in Node : deploys' = [deploys EXCEPT ![n] = <<>>]
  BY DEF StreamReset, RequestLost, Crash, Tick
<1> QED
  BY <1>1, <1>2, <1>3

\* Only an answer to a status query puts an event on its way.
LEMMA OnlyAnswersReply ==
  ASSUME TypeOK, Next, NEW q \in Request
  PROVE  reply'[q] \subseteq reply[q] \/ AnswerStatus(q)
<1>t. reply \in [Request -> SUBSET Event]
  BY DEF TypeOK, SharedTypeOK
<1>1. ASSUME NEW r \in Request, RenterStep(r) PROVE reply'[q] \subseteq reply[q]
  BY <1>t, <1>1 DEF RenterStep, CallStep, PollStep, SubmitFails, Submit, DialFails, Dial,
     WriteRequest, WriteFails, ReadAnswer, ReadFails, Abandon, RecordResult, SaveFails, PollAsk,
     PollStop, PollFails, PollApply, sharedVars, statusStream
<1>2. ASSUME NEW r \in Request, ProviderStep(r) PROVE reply'[q] \subseteq reply[q] \/ AnswerStatus(q)
  <2>1. CASE AnswerStatus(r)
    BY <1>t, <2>1 DEF AnswerStatus
  <2>2. CASE ~AnswerStatus(r)
    BY <1>2, <2>2 DEF ProviderStep, HandlerStep, ChildStep, Receive, Reject, MakeDir, PrepareFails,
       Prepare, StartFails, Start, Finish, Respond, RespondOnly, RespondFails, Down, DownFails,
       RemoveDir, RemoveDirFails, ChildPrints, ChildExits, ReaderPush, Fail, sharedVars, statusStream
  <2> QED
    BY <2>1, <2>2
<1>3. CASE \/ \E r \in Request : StreamReset(r) \/ RequestLost(r)
           \/ \E n \in Node : Crash(n)
           \/ Tick
  BY <1>3 DEF StreamReset, RequestLost, Crash, Tick, statusStream
<1> QED
  BY <1>1, <1>2, <1>3 DEF Next, Step

LEMMA RepliesJustified ==
  ASSUME Flow, Next, EventsJustified, NEW q \in Request
  PROVE  \A e \in reply'[q] : e.key = DeployEventKey(q)' /\ Justified(e)'
<1>t. reply \in [Request -> SUBSET Event] /\ deploys \in [Node -> Seq(Event)]
  BY DEF Flow, Typed, TypeOK, SharedTypeOK
<1>1. CASE reply'[q] \subseteq reply[q]
  BY <1>1, OldRepliesJustified
<1>2. CASE AnswerStatus(q)
  <2>1. requestedAt' = requestedAt
    BY <1>2 DEF AnswerStatus, requestVars
  <2> SUFFICES ASSUME NEW e \in reply'[q] PROVE e.key = DeployEventKey(q)' /\ Justified(e)'
    OBVIOUS
  <2>2. e \in GetDeployEventByKey(deploys[Target[q]], DeployEventKey(q))
    BY <1>t, <1>2 DEF AnswerStatus
  <2>3. e.key = DeployEventKey(q) /\ e \in EventsOf(deploys[Target[q]])
    BY <2>2, LookupFinds DEF EventsOf
  <2>4. Justified(e)
    BY <2>3, RequestAssumption DEF EventsJustified
  <2>5. DeployEventKey(q)' = DeployEventKey(q)
    BY <2>1 DEF DeployEventKey
  <2> QED
    BY <2>3, <2>4, <2>5, JustifiedStays
<1>3. reply'[q] \subseteq reply[q] \/ AnswerStatus(q)
  BY OnlyAnswersReply DEF Flow, Typed
<1> QED
  BY <1>1, <1>2, <1>3

-----------------------------------------------------------------------------
LEMMA InitJustified == Init => EventsJustified
  BY EmptyLog DEF Init, SharedInit, EventsJustified

LEMMA NextJustified ==
  ASSUME Flow, Next, EventsJustified
  PROVE  EventsJustified'
<1>1. \A m \in Node : \A e \in EventsOf(deploys'[m]) : Justified(e)'
  BY RenterLogsJustified, ProviderLogsJustified, EnvironmentLogsJustified DEF Next, Step
<1>2. \A q \in Request : \A e \in reply'[q] : e.key = DeployEventKey(q)' /\ Justified(e)'
  BY RepliesJustified
<1> QED
  BY <1>1, <1>2 DEF EventsJustified

LEMMA StutterJustified ==
  ASSUME EventsJustified, UNCHANGED vars
  PROVE  EventsJustified'
  BY DEF EventsJustified, Justified, DeployEventKey, vars, sharedVars, requestVars, statusStream,
     providerVars

\* A log shows success or failed only for a deployment whose handler did
\* come to that result, whatever is copied from log to log, evicted, lost or
\* forgotten in crashes.
THEOREM OutcomesAreTrue == Spec => []TerminalIsTrue
<1>1. Init => Flow /\ EventsJustified
  BY InitFlow, InitJustified
<1>2. Flow /\ EventsJustified /\ [Next]_vars => (Flow /\ EventsJustified)'
  BY NextFlow, StutterFlow, NextJustified, StutterJustified
<1>3. EventsJustified => TerminalIsTrue
  BY DEF EventsJustified, TerminalIsTrue
<1> QED
  BY <1>1, <1>2, <1>3, PTL DEF Spec

\* Everything the proofs rest on, in one invariant that the runs check too.
THEOREM IInvHolds == Spec => []IInv
<1>1. Init => Flow /\ EventsJustified
  BY InitFlow, InitJustified
<1>2. Flow /\ EventsJustified /\ [Next]_vars => (Flow /\ EventsJustified)'
  BY NextFlow, StutterFlow, NextJustified, StutterJustified
<1>3. Flow /\ EventsJustified /\ OneEventPerKey => IInv
  BY DEF Flow, Typed, IInv
<1> QED
  BY <1>1, <1>2, <1>3, LogsStayWellFormed, PTL DEF Spec

-----------------------------------------------------------------------------
(* What was returned is recorded, and stays so. *)

\* Only a submission stamps a request.
LEMMA OnlySubmitsStamp ==
  ASSUME TypeOK, Next, NEW q \in Request
  PROVE  requestedAt'[q] = requestedAt[q] \/ Submit(q)
<1> USE DEF TypeOK, SharedTypeOK, requestVars, sharedVars
<1>1. ASSUME NEW s \in Request, RenterStep(s) PROVE requestedAt'[q] = requestedAt[q] \/ Submit(q)
  <2>1. CASE Submit(s)
    BY <2>1 DEF Submit
  <2>2. CASE ~Submit(s)
    BY <1>1, <2>2 DEF RenterStep, CallStep, PollStep, SubmitFails, DialFails, Dial,
       WriteRequest, WriteFails, ReadAnswer, ReadFails, Abandon, RecordResult, SaveFails, PollAsk,
       PollStop, PollFails, PollApply
  <2> QED
    BY <2>1, <2>2
<1>2. ASSUME NEW s \in Request, ProviderStep(s) PROVE requestedAt'[q] = requestedAt[q]
  BY <1>2 DEF ProviderStep, HandlerStep, ChildStep, Receive, Reject, MakeDir, PrepareFails, Prepare,
     StartFails, Start, Finish, Respond, RespondOnly, RespondFails, Down, DownFails, RemoveDir,
     RemoveDirFails, ChildPrints, ChildExits, ReaderPush, AnswerStatus, Fail
<1>3. CASE \/ \E s \in Request : StreamReset(s) \/ RequestLost(s)
           \/ \E n \in Node : Crash(n)
           \/ Tick
  BY <1>3 DEF StreamReset, RequestLost, Crash, Tick
<1> QED
  BY <1>1, <1>2, <1>3 DEF Next, Step

\* A key that only r has now, once r was stamped, only r had before.
LEMMA AloneBefore ==
  ASSUME TypeOK, \A s \in Request : Stamped(s), Next,
         NEW r \in Request, requestedAt[r] # 0, Alone(r)'
  PROVE  Alone(r) /\ requestedAt'[r] = requestedAt[r]
<1>1. ASSUME NEW s \in Request, Submit(s) PROVE requestedAt[s] = 0
  BY <1>1 DEF Submit, Stamped
<1>2. requestedAt'[r] = requestedAt[r]
  BY <1>1, OnlySubmitsStamp
<1>3. ASSUME NEW s \in Request \ {r} PROVE DeployEventKey(s) # DeployEventKey(r)
  <2>1. DeployEventKey(s)' # DeployEventKey(r)'
    BY DEF Alone
  <2>2. CASE requestedAt'[s] = requestedAt[s]
    BY <1>2, <2>1, <2>2 DEF DeployEventKey
  <2>3. CASE Submit(s)
    BY <1>1, <2>3 DEF DeployEventKey
  <2> QED
    BY <2>2, <2>3, OnlySubmitsStamp
<1> QED
  BY <1>2, <1>3 DEF Alone

\* Whoever writes to a log writes under the key of its own request.
ByRenter(s, n) == n = Source[s] /\ (Submit(s) \/ RecordResult(s) \/ PollApply(s))

ByProvider(s, n) ==
  /\ n = Target[s]
  /\ Receive(s) \/ Prepare(s) \/ ReaderPush(s) \/ Reject(s) \/ PrepareFails(s) \/ Finish(s)

\* What a step does to the log of node m: it loses entries, or a request's
\* entry is put in by one of its two sides.
WrittenByOwner(m) ==
  \/ EventsOf(deploys'[m]) \subseteq EventsOf(deploys[m])
  \/ \E s \in Request : \E event :
       /\ deploys'[m] = UpsertDeployEvent(deploys[m], event)
       /\ event.key = DeployEventKey(s)'
       /\ ByRenter(s, m) \/ ByProvider(s, m)

LEMMA WritersUseTheirKey ==
  ASSUME Flow, Next, NEW m \in Node
  PROVE  WrittenByOwner(m)
<1>t. /\ TypeOK
      /\ deploys \in [Node -> Seq(Event)]
      /\ requestedAt \in [Request -> 0 .. MaxSecond] /\ reply \in [Request -> SUBSET Event]
  BY DEF Flow, Typed, TypeOK, SharedTypeOK
<1>u. ASSUME UNCHANGED deploys PROVE WrittenByOwner(m)
  BY <1>u DEF WrittenByOwner
<1>p. ASSUME NEW s \in Request, NEW n \in Node, NEW event, Post(n, event),
             event.key = DeployEventKey(s)', ByRenter(s, n) \/ ByProvider(s, n)
      PROVE  WrittenByOwner(m)
  <2>1. CASE m # n
    <3>1. deploys'[m] = deploys[m]
      BY <1>t, <1>p, <2>1 DEF Post
    <3> QED
      BY <3>1 DEF WrittenByOwner
  <2>2. CASE m = n
    <3>1. deploys'[m] = UpsertDeployEvent(deploys[m], event)
      BY <1>t, <1>p, <2>2 DEF Post
    <3> QED
      BY <1>p, <2>2, <3>1 DEF WrittenByOwner
  <2> QED
    BY <2>1, <2>2
<1>1. ASSUME NEW s \in Request, RenterStep(s) PROVE WrittenByOwner(m)
  <2>s. Source[s] \in Node
    BY RequestAssumption
  <2>1. CASE Submit(s)
    <3>1. PICK event : Post(Source[s], event) /\ event.key = <<clock, Source[s], Bundle[s]>>
      BY <2>1 DEF Submit
    <3>2. event.key = DeployEventKey(s)'
      BY <1>t, <2>1, <3>1 DEF Submit, DeployEventKey
    <3> QED
      BY <1>p, <2>s, <2>1, <3>1, <3>2 DEF ByRenter
  <2>2. CASE RecordResult(s)
    <3>1. PICK event : Post(Source[s], event) /\ event.key = DeployEventKey(s)
      BY <2>2 DEF RecordResult, RecordDeployResult, EventOf
    <3>2. DeployEventKey(s)' = DeployEventKey(s)
      BY <2>2 DEF RecordResult, requestVars, DeployEventKey
    <3> QED
      BY <1>p, <2>s, <2>2, <3>1, <3>2 DEF ByRenter
  <2>3. CASE PollApply(s)
    <3>1. PICK old \in reply[s] : Post(Source[s], [old EXCEPT !.key = DeployEventKey(s)])
      BY <2>3 DEF PollApply
    <3>2. PICK event : event = [old EXCEPT !.key = DeployEventKey(s)]
      OBVIOUS
    <3>3. old \in Event
      BY <1>t
    <3>4. event.key = DeployEventKey(s)
      BY <3>2, <3>3 DEF Event
    <3>5. DeployEventKey(s)' = DeployEventKey(s)
      BY <2>3 DEF PollApply, requestVars, DeployEventKey
    <3> QED
      BY <1>p, <2>s, <2>3, <3>1, <3>2, <3>4, <3>5 DEF ByRenter
  <2>4. CASE ~ (Submit(s) \/ RecordResult(s) \/ PollApply(s))
    <3>1. UNCHANGED deploys
      BY <1>1, <2>4 DEF RenterStep, CallStep, PollStep, SubmitFails, DialFails, Dial,
         WriteRequest, WriteFails, ReadAnswer, ReadFails, Abandon, SaveFails, PollAsk,
         PollStop, PollFails, sharedVars
    <3> QED
      BY <1>u, <3>1
  <2> QED
    BY <2>1, <2>2, <2>3, <2>4
<1>2. ASSUME NEW s \in Request, ProviderStep(s) PROVE WrittenByOwner(m)
  <2>s. Target[s] \in Node
    BY RequestAssumption
  <2>1. CASE Receive(s) \/ Prepare(s) \/ ReaderPush(s) \/ Reject(s) \/ PrepareFails(s) \/ Finish(s)
    <3>1. PICK event : Post(Target[s], event) /\ event.key = DeployEventKey(s)
      <4>1. PICK status, lines : Post(Target[s], EventOf(s, status, lines, FALSE))
        <5>1. CASE Receive(s) \/ Prepare(s) \/ ReaderPush(s)
          BY <5>1 DEF Receive, Prepare, ReaderPush
        <5>2. CASE Reject(s) \/ PrepareFails(s)
          BY <5>2 DEF Reject, PrepareFails, Fail
        <5>3. CASE Finish(s)
          BY <5>3 DEF Finish, PostOutcome
        <5> QED
          BY <2>1, <5>1, <5>2, <5>3
      <4>2. EventOf(s, status, lines, FALSE).key = DeployEventKey(s)
        BY DEF EventOf
      <4> QED
        BY <4>1, <4>2
    <3>2. requestedAt' = requestedAt
      BY <2>1 DEF Receive, Prepare, ReaderPush, Reject, PrepareFails, Fail, Finish, requestVars
    <3>3. DeployEventKey(s)' = DeployEventKey(s)
      BY <3>2 DEF DeployEventKey
    <3> QED
      BY <1>p, <2>s, <2>1, <3>1, <3>3 DEF ByProvider
  <2>2. CASE ~ (Receive(s) \/ Prepare(s) \/ ReaderPush(s) \/ Reject(s) \/ PrepareFails(s) \/ Finish(s))
    <3>1. UNCHANGED deploys
      BY <1>2, <2>2 DEF ProviderStep, HandlerStep, ChildStep, MakeDir, StartFails, Start, Respond,
         RespondOnly, RespondFails, Down, DownFails, RemoveDir, RemoveDirFails, ChildPrints,
         ChildExits, AnswerStatus, sharedVars
    <3> QED
      BY <1>u, <3>1
  <2> QED
    BY <2>1, <2>2
<1>3. CASE \/ \E s \in Request : StreamReset(s) \/ RequestLost(s)
           \/ \E n \in Node : Crash(n)
           \/ Tick
  <2>1. UNCHANGED deploys \/ \E n \in Node : deploys' = [deploys EXCEPT ![n] = <<>>]
    BY <1>3 DEF StreamReset, RequestLost, Crash, Tick
  <2>2. EventsOf(deploys'[m]) \subseteq EventsOf(deploys[m])
    BY <1>t, <2>1, EmptyLog
  <2> QED
    BY <2>2 DEF WrittenByOwner
<1> QED
  BY <1>1, <1>2, <1>3 DEF Next, Step

\* A request that has its key to itself sees nobody else write under it.
LEMMA OthersKeepOut ==
  ASSUME Flow, Next, NEW q \in Request, requestedAt[q] # 0, Alone(q)',
         NEW n \in Node, ~ByRenter(q, n), ~ByProvider(q, n)
  PROVE  View(n, q)' \subseteq View(n, q)
<1>1. TypeOK /\ \A s \in Request : Stamped(s)
  BY DEF Flow, Typed
<1>2. DeployEventKey(q)' = DeployEventKey(q)
  BY <1>1, AloneBefore DEF DeployEventKey
<1> SUFFICES ASSUME NEW e \in EventsOf(deploys'[n]), e.key = DeployEventKey(q)
             PROVE  e \in EventsOf(deploys[n])
  BY <1>2 DEF View, EntriesFor
<1>3. CASE EventsOf(deploys'[n]) \subseteq EventsOf(deploys[n])
  BY <1>3
<1>4. ASSUME NEW s \in Request, NEW event,
             deploys'[n] = UpsertDeployEvent(deploys[n], event),
             event.key = DeployEventKey(s)',
             ByRenter(s, n) \/ ByProvider(s, n)
      PROVE  e \in EventsOf(deploys[n])
  <2>1. event.key # e.key
    BY <1>2, <1>4 DEF Alone
  <2>2. PICK i \in DOMAIN UpsertDeployEvent(deploys[n], event) :
          e = UpsertDeployEvent(deploys[n], event)[i]
    BY <1>4 DEF EventsOf
  <2>3. deploys[n] \in Seq(Event)
    BY <1>1 DEF TypeOK, SharedTypeOK
  <2>4. \E j \in DOMAIN deploys[n] : e = deploys[n][j]
    BY <2>1, <2>2, <2>3, UpsertAddsOnlyEvent
  <2> QED
    BY <2>4 DEF EventsOf
<1> QED
  BY <1>3, <1>4, WritersUseTheirKey DEF WrittenByOwner

\* What is posted under a key is then all the log shows for it.
LEMMA PostShowsAlone ==
  ASSUME TypeOK, OneEventPerKey, NEW q \in Request, NEW n \in Node, NEW event,
         Post(n, event), event.key = DeployEventKey(q)'
  PROVE  \A e \in View(n, q)' : e = event
<1> SUFFICES ASSUME NEW e \in View(n, q)' PROVE e = event
  OBVIOUS
<1>1. deploys \in [Node -> Seq(Event)] /\ WellFormed(deploys[n])
  BY DEF TypeOK, SharedTypeOK, OneEventPerKey
<1>2. deploys'[n] = UpsertDeployEvent(deploys[n], event)
  BY <1>1 DEF Post
<1>3. PICK i \in DOMAIN UpsertDeployEvent(deploys[n], event) :
        e = UpsertDeployEvent(deploys[n], event)[i] /\ e.key = event.key
  BY <1>2 DEF View, EntriesFor, EventsOf
<1> QED
  BY <1>1, <1>3, UpsertWellFormed

\* Only a call that is still going on has a poller.
PollerBelongs(r) == poller[r] = "polling" => call[r] \in Calling \ {"dialing"}

\* Of an outcome that was returned, the renter's log shows nothing else.
ShowsOutcome(r) ==
  Alone(r) /\ verdict[r] \in Terminal =>
    \A event \in View(Source[r], r) :
      event.status = verdict[r] /\ \E a \in answer[r] : event.files = a.files

LEMMA NextPollerBelongs ==
  ASSUME Typed, Next, NEW q \in Request, PollerBelongs(q)
  PROVE  PollerBelongs(q)'
<1> USE DEF Typed, TypeOK, RenterTypeOK, PollerBelongs, Calling
<1>1. ASSUME NEW r \in Request, RenterStep(r) PROVE PollerBelongs(q)'
  <2>1. CASE SubmitFails(r) \/ Submit(r)
    BY <2>1 DEF SubmitFails, Submit, Return, Stamped
  <2>2. CASE DialFails(r) \/ Dial(r)
    BY <2>2 DEF DialFails, Dial, Return
  <2>3. CASE WriteRequest(r) \/ WriteFails(r) \/ ReadAnswer(r) \/ ReadFails(r)
    BY <2>3 DEF WriteRequest, WriteFails, ReadAnswer, ReadFails
  <2>4. CASE Abandon(r) \/ RecordResult(r) \/ SaveFails(r)
    BY <2>4 DEF Abandon, RecordResult, SaveFails, Return, PollerIsDone
  <2>5. CASE PollStep(r)
    BY <2>5 DEF PollStep, PollAsk, PollStop, PollFails, PollApply, renterVars
  <2> QED
    BY <1>1, <2>1, <2>2, <2>3, <2>4, <2>5 DEF RenterStep, CallStep
<1>2. ASSUME UNCHANGED renterVars PROVE PollerBelongs(q)'
  BY <1>2 DEF renterVars
<1>3. CASE \/ \E r \in Request : StreamReset(r) \/ RequestLost(r)
           \/ \E n \in Node : Crash(n)
           \/ Tick
  BY <1>3 DEF StreamReset, RequestLost, Crash, Tick, renterVars
<1> QED
  BY <1>1, <1>2, <1>3 DEF Next, Step

\* Answers are written once.
LEMMA AnswersStay ==
  ASSUME Flow, Next, NEW q \in Request, answer[q] # {}
  PROVE  answer'[q] = answer[q]
<1>f. TypeOK /\ ResultFlow(q)
  BY DEF Flow, Typed
<1>1. handler[q] \in {"down", "removing", "done", "crashed"}
  BY <1>f DEF ResultFlow
<1>2. ASSUME NEW r \in Request, RenterStep(r) PROVE answer'[q] = answer[q]
  BY <1>f, <1>2, RenterStepIsLocal
<1>3. ASSUME NEW r \in Request, ProviderStep(r) PROVE answer'[q] = answer[q]
  <2>1. CASE q # r
    BY <1>f, <1>3, <2>1, ProviderStepIsLocal
  <2>2. CASE q = r
    BY <1>1, <1>3, <2>2 DEF ProviderStep, HandlerStep, ChildStep, Receive, Reject, MakeDir,
       PrepareFails, Prepare, StartFails, Start, Finish, Respond, RespondOnly, RespondFails, Down,
       DownFails, RemoveDir, RemoveDirFails, ChildPrints, ChildExits, ReaderPush, AnswerStatus,
       Goto, Fail, sharedVars, deployStream
  <2> QED
    BY <2>1, <2>2
<1>4. CASE \/ \E r \in Request : StreamReset(r) \/ RequestLost(r)
           \/ \E n \in Node : Crash(n)
           \/ Tick
  BY <1>f, <1>4, EnvironmentIsHarmless
<1> QED
  BY <1>2, <1>3, <1>4 DEF Next, Step

\* A verdict is given by the last step of a call, which is RecordResult if it
\* is an outcome; then it stays, with the answer it is from.
LEMMA VerdictsStay ==
  ASSUME Flow, Next, NEW q \in Request, verdict'[q] \in Terminal, ~RecordResult(q)
  PROVE  UNCHANGED <<call[q], verdict[q], answer[q]>> /\ call[q] = "returned"
<1>f. TypeOK /\ VerdictFlow(q) /\ ResultFlow(q)
  BY DEF Flow, Typed
<1> USE DEF TypeOK, RenterTypeOK, Terminal
<1>1. verdict[q] = verdict'[q] /\ (call[q] = "returned" => call'[q] = "returned")
  <2>1. ASSUME NEW r \in Request, RenterStep(r)
        PROVE  verdict[q] = verdict'[q] /\ (call[q] = "returned" => call'[q] = "returned")
    <3>1. CASE q # r
      BY <1>f, <2>1, <3>1, RenterStepIsLocal
    <3>2. CASE q = r
      BY <1>f, <2>1, <3>2 DEF RenterStep, CallStep, PollStep, SubmitFails, Submit, DialFails, Dial,
         WriteRequest, WriteFails, ReadAnswer, ReadFails, Abandon, SaveFails, PollAsk,
         PollStop, PollFails, PollApply, Return, renterVars
    <3> QED
      BY <3>1, <3>2
  <2>2. ASSUME UNCHANGED renterVars
        PROVE  verdict[q] = verdict'[q] /\ (call[q] = "returned" => call'[q] = "returned")
    BY <2>2 DEF renterVars
  <2>3. CASE \/ \E r \in Request : StreamReset(r) \/ RequestLost(r)
             \/ \E n \in Node : Crash(n)
             \/ Tick
    BY <1>f, <2>3, EnvironmentIsHarmless DEF Calling
  <2> QED
    BY <2>1, <2>2, <2>3 DEF Next, Step
<1>2. call[q] = "returned" /\ handler[q] = "done" /\ answer[q] # {}
  BY <1>f, <1>1 DEF VerdictFlow
<1>3. answer'[q] = answer[q]
  BY <1>2, AnswersStay
<1> QED
  BY <1>1, <1>2, <1>3

\* The record itself: it replaces whatever the poller has copied.
LEMMA RecordShowsOutcome ==
  ASSUME Flow, OneEventPerKey, NEW q \in Request, RecordResult(q)
  PROVE  ShowsOutcome(q)'
<1> SUFFICES ASSUME NEW event \in View(Source[q], q)'
             PROVE  event.status = verdict'[q] /\ \E a \in answer'[q] : event.files = a.files
  BY DEF ShowsOutcome
<1>t. TypeOK /\ verdict \in [Request -> {"none", "error"} \cup Terminal] /\ Source[q] \in Node
  BY RequestAssumption DEF Flow, Typed, TypeOK, RenterTypeOK
<1>1. PICK a \in answer[q] : Post(Source[q], RecordDeployResult(q, a)) /\ Return(q, a.status)
  BY DEF RecordResult
<1>2. PICK new : new = RecordDeployResult(q, a)
  OBVIOUS
<1>3. new.status = a.status /\ new.files = a.files /\ new.key = DeployEventKey(q)
  BY <1>2 DEF RecordDeployResult, EventOf
<1>4. DeployEventKey(q)' = DeployEventKey(q)
  BY DEF RecordResult, requestVars, DeployEventKey
<1>5. event = new
  BY <1>t, <1>1, <1>2, <1>3, <1>4, PostShowsAlone
<1>6. verdict'[q] = a.status /\ answer' = answer
  BY <1>t, <1>1 DEF Return, RecordResult, deployStream
<1> QED
  BY <1>3, <1>5, <1>6

\* Afterwards nobody writes under that key on that node any more.
LEMMA NextShowsOutcome ==
  ASSUME Flow, OneEventPerKey, Next, NEW q \in Request, PollerBelongs(q), ShowsOutcome(q)
  PROVE  ShowsOutcome(q)'
<1>1. CASE RecordResult(q)
  BY <1>1, RecordShowsOutcome
<1>2. CASE ~RecordResult(q) /\ Alone(q)' /\ verdict'[q] \in Terminal
  <2>1. UNCHANGED <<call[q], verdict[q], answer[q]>> /\ call[q] = "returned"
    BY <1>2, VerdictsStay
  <2>2. TypeOK /\ VerdictFlow(q) /\ \A s \in Request : Stamped(s)
    BY DEF Flow, Typed
  <2>3. requestedAt[q] # 0
    BY <1>2, <2>1, <2>2 DEF VerdictFlow, Stamped
  <2>4. Alone(q)
    BY <1>2, <2>2, <2>3, AloneBefore
  <2>5. ~ByRenter(q, Source[q]) /\ ~ByProvider(q, Source[q]) /\ Source[q] \in Node
    BY <1>2, <2>1, RequestAssumption
       DEF ByRenter, ByProvider, Submit, PollApply, PollerBelongs, Calling
  <2>6. View(Source[q], q)' \subseteq View(Source[q], q)
    BY <1>2, <2>3, <2>5, OthersKeepOut
  <2>7. \A event \in View(Source[q], q) :
          event.status = verdict[q] /\ \E a \in answer[q] : event.files = a.files
    BY <1>2, <2>1, <2>4 DEF ShowsOutcome
  <2> QED
    BY <2>1, <2>6, <2>7 DEF ShowsOutcome
<1>3. CASE ~ (Alone(q)' /\ verdict'[q] \in Terminal)
  BY <1>3 DEF ShowsOutcome
<1> QED
  BY <1>1, <1>2, <1>3

\* What was too long to be read, or came with files to save.
MayBeLost(r) == \E a \in answer[r] : a.files \/ a.oversize

\* Why a call gives up: its stream was never opened or broke, or its answer
\* may be lost.
GivesUp(r) ==
  /\ call[r] \in {"idle", "dialing"} => stream[r] = "none"
  /\ call[r] = "abandoning" => stream[r] = "reset" \/ MayBeLost(r)
  /\ verdict[r] = "error" => stream[r] \in {"none", "reset"} \/ MayBeLost(r)

\* A call gives up for no other reason.
LEMMA RenterGivesUp ==
  ASSUME Flow, NEW q \in Request, GivesUp(q), NEW r \in Request, RenterStep(r)
  PROVE  GivesUp(q)'
<1>f. TypeOK /\ ResultFlow(q) /\ VerdictFlow(q)
  BY DEF Flow, Typed
<1>a. UNCHANGED answer
  BY <1>f, RenterStepIsLocal
<1>b. MayBeLost(q)' = MayBeLost(q)
  BY <1>a DEF MayBeLost
<1> USE DEF TypeOK, SharedTypeOK, RenterTypeOK, GivesUp
<1>1. CASE SubmitFails(r) \/ Submit(r) \/ DialFails(r)
  BY <1>f, <1>b, <1>1 DEF SubmitFails, Submit, DialFails, Return, sharedVars, deployStream
<1>2. CASE Dial(r) \/ WriteRequest(r)
  BY <1>f, <1>b, <1>2 DEF Dial, WriteRequest, VerdictFlow
<1>3. CASE WriteFails(r) \/ ReadFails(r)
  BY <1>f, <1>b, <1>3 DEF WriteFails, ReadFails, sharedVars, deployStream, VerdictFlow
<1>4. CASE ReadAnswer(r)
  <2>1. UNCHANGED <<stream, verdict>>
    BY <1>4 DEF ReadAnswer, sharedVars, deployStream
  <2>2. r = q /\ call'[q] = "abandoning" => MayBeLost(q)
    BY <1>f, <1>4 DEF ReadAnswer, MayBeLost
  <2>3. call'[q] = call[q] \/ (r = q /\ call'[q] \in {"abandoning", "joining"})
    BY <1>4 DEF ReadAnswer
  <2> QED
    BY <1>b, <2>1, <2>2, <2>3
<1>5. CASE Abandon(r) \/ RecordResult(r)
  <2>1. UNCHANGED stream
    BY <1>5 DEF Abandon, RecordResult, sharedVars, deployStream
  <2>2. /\ call'[q] # call[q] => call'[q] = "returned"
        /\ verdict'[q] = "error" => verdict[q] = "error" \/ call[q] = "abandoning"
    <3>1. CASE Abandon(r)
      BY <1>f, <3>1 DEF Abandon, Return, Terminal
    <3>2. CASE RecordResult(r)
      <4>1. PICK a \in answer[r] : Return(r, a.status)
        BY <3>2 DEF RecordResult
      <4>2. a \in Answer
        BY <1>f, <4>1
      <4>3. a.status \in Terminal
        BY <4>2 DEF Answer
      <4> QED
        BY <4>1, <4>3 DEF Return, Terminal
    <3> QED
      BY <1>5, <3>1, <3>2
  <2> QED
    BY <1>f, <1>b, <2>1, <2>2
<1>6. CASE SaveFails(r)
  <2>1. UNCHANGED stream /\ \E a \in answer[r] : a.files
    BY <1>6 DEF SaveFails, sharedVars, deployStream
  <2>2. r = q => MayBeLost(q)
    BY <2>1 DEF MayBeLost
  <2>3. (call'[q] # call[q] => call'[q] = "returned") /\ (r # q => UNCHANGED <<call[q], verdict[q]>>)
    BY <1>6 DEF SaveFails, Return
  <2> QED
    BY <1>f, <1>b, <2>1, <2>2, <2>3
<1>7. CASE PollStep(r)
  <2>1. UNCHANGED <<stream, call, verdict>>
    BY <1>7 DEF PollStep, PollAsk, PollStop, PollFails, PollApply, renterVars, sharedVars, deployStream
  <2> QED
    BY <1>b, <2>1
<1> QED
  BY <1>1, <1>2, <1>3, <1>4, <1>5, <1>6, <1>7 DEF RenterStep, CallStep

\* A stream is closed, or breaks, but once.
LEMMA NextGivesUp ==
  ASSUME Flow, Next, NEW q \in Request, GivesUp(q)
  PROVE  GivesUp(q)'
<1>f. TypeOK /\ ResultFlow(q)
  BY DEF Flow, Typed
<1>a. MayBeLost(q) => MayBeLost(q)'
  BY AnswersStay DEF MayBeLost
<1>1. ASSUME NEW r \in Request, RenterStep(r) PROVE GivesUp(q)'
  BY <1>1, RenterGivesUp
<1>2. ASSUME NEW r \in Request, ProviderStep(r), UNCHANGED renterVars PROVE GivesUp(q)'
  <2>1. stream'[q] = stream[q] \/ (stream[q] = "open" /\ stream'[q] = "eof")
    BY <1>f, <1>2 DEF ProviderStep, HandlerStep, ChildStep, Receive, Reject, MakeDir,
       PrepareFails, Prepare, StartFails, Start, Finish, Respond, RespondOnly, RespondFails, Down,
       DownFails, RemoveDir, RemoveDirFails, ChildPrints, ChildExits, ReaderPush, AnswerStatus,
       Fail, sharedVars, deployStream, CloseStream, TypeOK, SharedTypeOK
  <2>2. UNCHANGED <<call, verdict>>
    BY <1>2 DEF renterVars
  <2> QED
    BY <1>a, <2>1, <2>2 DEF GivesUp
<1>3. CASE \/ \E r \in Request : StreamReset(r) \/ RequestLost(r)
           \/ \E n \in Node : Crash(n)
           \/ Tick
  <2>1. UNCHANGED verdict /\ (call'[q] = call[q] \/ call'[q] = "crashed")
    BY <1>f, <1>3, EnvironmentIsHarmless
  <2>2. stream'[q] = stream[q] \/ (stream[q] = "open" /\ stream'[q] = "reset")
    BY <1>f, <1>3 DEF StreamReset, RequestLost, Crash, Tick, deployStream, TypeOK, SharedTypeOK
  <2> QED
    BY <1>a, <2>1, <2>2 DEF GivesUp
<1> QED
  BY <1>1, <1>2, <1>3 DEF Next, Step

Recording == \A q \in Request : PollerBelongs(q) /\ ShowsOutcome(q) /\ GivesUp(q)

LEMMA RecordingHolds == Spec => []Recording
<1>1. Init => Recording
  BY DEF Init, SharedInit, RenterInit, Recording, PollerBelongs, ShowsOutcome, Alone, GivesUp
<1>2. Flow /\ OneEventPerKey /\ Recording /\ [Next]_vars => Recording'
  <2>1. CASE Next
    BY <2>1, NextPollerBelongs, NextShowsOutcome, NextGivesUp DEF Flow, Recording
  <2>2. CASE UNCHANGED vars
    BY <2>2 DEF Recording, PollerBelongs, ShowsOutcome, Alone, View, DeployEventKey, vars,
       sharedVars, requestVars, deployStream, renterVars, GivesUp, MayBeLost
  <2> QED
    BY <2>1, <2>2
<1> QED
  BY <1>1, <1>2, FlowIsInvariant, LogsStayWellFormed, PTL DEF Spec

\* What a renter has returned to its user is what its log shows from then on,
\* whatever else the node's log is used for and however late copies of the
\* provider's progress are: for any deployment that has its key to itself.
\* And an answer that came whole is dropped only over its artifacts, or since
\* it is longer than what is read (sendDeployBundle).
THEOREM ReturnedStaysRecorded == Spec => []ReturnedIsRecorded
<1>1. Flow /\ Recording => ReturnedIsRecorded
  BY DEF Recording, PollerBelongs, ShowsOutcome, ReturnedIsRecorded, Calling, GivesUp, MayBeLost
<1> QED
  BY <1>1, FlowIsInvariant, RecordingHolds, PTL

-----------------------------------------------------------------------------
(* The order of what is written. *)

\* y says no less of a deployment than x.
NoLater(x, y) == Rank(x) <= Rank(y) /\ x.lines <= y.lines

\* The reader never posts more than was printed, and by the time there is a
\* result it has posted all, which the result repeats.
Output(r) ==
  /\ shown[r] <= printed[r]
  /\ \A a \in result[r] : a.lines = shown[r]
  /\ handler[r] \in {"responding", "down", "removing", "done"} => shown[r] = printed[r]

\* A reply is under way only while its query waits, and a query only while
\* there is a poller.
Quiet(r) ==
  /\ poller[r] # "polling" => query[r] = "idle"
  /\ query[r] # "answered" => reply[r] = {}

\* Every entry was made for a request that was stamped.
Owned(event) == \E s \in Request : requestedAt[s] # 0 /\ DeployEventKey(s) = event.key
EntriesOwned == \A n \in Node : \A event \in EventsOf(deploys[n]) : Owned(event)

\* What event says of r has come to pass.
Reached(r, event) ==
  /\ event.lines <= shown[r]
  /\ event.status = "received" => handler[r] # "idle"
  /\ event.status = "running" => handler[r] \notin {"idle", "checking", "preparing"}
  /\ event.status \in Terminal => \E a \in result[r] : a.status = event.status /\ a.lines = event.lines

Mine(r) == View(Source[r], r)
Theirs(r) == View(Target[r], r)

\* The renter's entry is no later than a reply under way, and that is no
\* later than the provider's entry; artifacts are known to a returned call only.
Ordered(r) ==
  /\ \A x \in Mine(r) \cup Theirs(r) \cup reply[r] : Reached(r, x)
  /\ \A x \in Theirs(r) \cup reply[r] : ~x.files
  /\ \A x \in Mine(r) : x.files => call[r] = "returned"
  /\ result[r] # {} => \A y \in Theirs(r) : y.status \in Terminal
  /\ \A x \in Mine(r) \cup reply[r], y \in Theirs(r) : NoLater(x, y)
  /\ \A x \in Mine(r), y \in reply[r] : NoLater(x, y)

-----------------------------------------------------------------------------
LEMMA EntriesAreEvents ==
  ASSUME TypeOK, NEW q \in Request
  PROVE  Mine(q) \subseteq Event /\ Theirs(q) \subseteq Event /\ reply[q] \subseteq Event
  BY RequestAssumption DEF TypeOK, SharedTypeOK, Mine, Theirs, View, EntriesFor, EventsOf

\* Steps for one request leave the output and the queries of another alone.
LEMMA OutputIsLocal ==
  ASSUME TypeOK, Next, NEW q \in Request,
         \A r \in Request : ProviderStep(r) => r # q
  PROVE  UNCHANGED <<printed[q], shown[q], result[q]>>
<1> USE DEF TypeOK, ProviderTypeOK, childVars, providerVars
<1>1. ASSUME NEW r \in Request, ProviderStep(r)
      PROVE  UNCHANGED <<printed[q], shown[q], result[q]>>
  <2>1. r # q
    BY <1>1
  <2>2. UNCHANGED result[q]
    BY <1>1, <2>1, ProviderStepIsLocal
  <2>3. UNCHANGED <<printed[q], shown[q]>>
    BY <1>1, <2>1 DEF ProviderStep, HandlerStep, ChildStep, Receive, Reject, MakeDir, PrepareFails,
       Prepare, StartFails, Start, Finish, Respond, RespondOnly, RespondFails, Down, DownFails,
       RemoveDir, RemoveDirFails, ChildPrints, ChildExits, ReaderPush, AnswerStatus, Fail
  <2> QED
    BY <2>2, <2>3
<1>2. CASE \/ \E s \in Request : StreamReset(s) \/ RequestLost(s)
           \/ \E n \in Node : Crash(n)
           \/ Tick
  BY <1>2 DEF StreamReset, RequestLost, Crash, Tick
<1> QED
  BY <1>1, <1>2 DEF Next, Step

LEMMA ProviderOutput ==
  ASSUME TypeOK, NEW q \in Request, ProviderStep(q), Stamped(q), ResultFlow(q), ChildFlow(q), Output(q)
  PROVE  Output(q)'
<1> USE DEF TypeOK, ProviderTypeOK, childVars, hostVars, providerVars, Goto, Output
<1>0. /\ shown[q] \in Nat /\ printed[q] \in Nat
      /\ child[q] = "none" => shown[q] = 0 /\ printed[q] = 0
  BY BoundAssumption DEF Stamped
<1>1. CASE Receive(q) \/ MakeDir(q) \/ Prepare(q) \/ StartFails(q) \/ Start(q)
  BY <1>1 DEF Receive, MakeDir, Prepare, StartFails, Start
<1>2. CASE Reject(q) \/ PrepareFails(q)
  <2>1. result'[q] = {[status |-> "failed", lines |-> 0, files |-> FALSE, oversize |-> FALSE]}
    BY <1>2 DEF Reject, PrepareFails, Fail
  <2>2. \A a \in result'[q] : a.lines = 0
    BY <2>1
  <2>3. UNCHANGED <<shown, printed>> /\ child[q] = "none"
    BY <1>2 DEF Reject, PrepareFails, Fail, ChildFlow
  <2> QED
    BY <1>0, <2>2, <2>3
<1>3. CASE ChildPrints(q)
  <2>1. printed'[q] = printed[q] + 1 /\ UNCHANGED <<handler, shown, result>>
    BY <1>3 DEF ChildPrints
  <2>2. handler[q] \notin {"responding", "down", "removing", "done"}
    BY <1>3 DEF ChildPrints, ChildFlow, Terminal
  <2> QED
    BY <1>0, <2>1, <2>2
<1>4. CASE ReaderPush(q)
  <2>1. /\ shown'[q] = shown[q] + 1 /\ shown[q] < printed[q] /\ handler[q] # "crashed"
        /\ UNCHANGED <<handler, printed, result>>
    BY <1>4 DEF ReaderPush
  <2>2. handler[q] \in {"idle", "checking", "preparing", "starting", "running"}
    BY <1>0, <2>1 DEF Handling
  <2>3. result[q] = {}
    BY <2>2 DEF ResultFlow
  <2> QED
    BY <1>0, <2>1, <2>2, <2>3
<1>5. CASE ChildExits(q) \/ AnswerStatus(q)
  BY <1>5 DEF ChildExits, AnswerStatus
<1>6. CASE Finish(q)
  <2>1. PICK a \in Answer : a.lines = shown[q] /\ result' = [result EXCEPT ![q] = {a}]
    BY <1>6 DEF Finish
  <2>2. result'[q] = {a}
    BY <2>1
  <2>3. shown[q] = printed[q] /\ UNCHANGED <<shown, printed>>
    BY <1>6 DEF Finish, CommandOver
  <2> QED
    BY <2>1, <2>2, <2>3
<1>7. CASE Respond(q) \/ RespondOnly(q) \/ RespondFails(q) \/ Down(q) \/ DownFails(q)
           \/ RemoveDir(q) \/ RemoveDirFails(q)
  BY <1>7 DEF Respond, RespondOnly, RespondFails, Down, DownFails, RemoveDir, RemoveDirFails
<1> QED
  BY <1>1, <1>2, <1>3, <1>4, <1>5, <1>6, <1>7 DEF ProviderStep, HandlerStep, ChildStep

LEMMA NextOutput ==
  ASSUME Flow, Hosting, Next, NEW q \in Request, Output(q)
  PROVE  Output(q)'
<1>1. TypeOK /\ Stamped(q) /\ ResultFlow(q) /\ ChildFlow(q)
  BY DEF Flow, Typed, Hosting
<1>2. CASE ProviderStep(q)
  BY <1>1, <1>2, ProviderOutput
<1>3. CASE ~ProviderStep(q)
  <2>1. UNCHANGED <<printed[q], shown[q], result[q]>>
    BY <1>1, <1>3, OutputIsLocal
  <2>2. handler'[q] = handler[q] \/ handler'[q] = "crashed"
    <3>1. ASSUME NEW r \in Request, ProviderStep(r) PROVE handler'[q] = handler[q]
      BY <1>1, <1>3, <3>1, ProviderStepIsLocal
    <3>2. CASE \/ \E r \in Request : StreamReset(r) \/ RequestLost(r)
               \/ \E n \in Node : Crash(n)
               \/ Tick
      BY <1>1, <3>2, EnvironmentIsHarmless
    <3> QED
      BY <3>1, <3>2 DEF Next, Step, providerVars
  <2> QED
    BY <2>1, <2>2 DEF Output
<1> QED
  BY <1>2, <1>3

\* The poller's queries: what a step of r, or a crash, does to those of q.
LEMMA NextQuiet ==
  ASSUME TypeOK, Next, NEW q \in Request, Quiet(q)
  PROVE  Quiet(q)'
<1> USE DEF TypeOK, SharedTypeOK, RenterTypeOK, Quiet, statusStream
<1>1. ASSUME NEW r \in Request, RenterStep(r) PROVE Quiet(q)'
  <2>1. CASE SubmitFails(r) \/ Submit(r) \/ DialFails(r) \/ Dial(r)
    BY <2>1 DEF SubmitFails, Submit, DialFails, Dial, sharedVars
  <2>2. CASE WriteRequest(r) \/ WriteFails(r) \/ ReadAnswer(r) \/ ReadFails(r)
    BY <2>2 DEF WriteRequest, WriteFails, ReadAnswer, ReadFails, sharedVars
  <2>3. CASE Abandon(r) \/ RecordResult(r) \/ SaveFails(r)
    BY <2>3 DEF Abandon, RecordResult, SaveFails, sharedVars
  <2>4. CASE PollAsk(r) \/ PollStop(r) \/ PollFails(r)
    BY <2>4 DEF PollAsk, PollStop, PollFails, renterVars, sharedVars
  <2>5. CASE PollApply(r)
    BY <2>5 DEF PollApply, renterVars, sharedVars
  <2> QED
    BY <1>1, <2>1, <2>2, <2>3, <2>4, <2>5 DEF RenterStep, CallStep, PollStep
<1>2. ASSUME NEW r \in Request, ProviderStep(r), UNCHANGED renterVars PROVE Quiet(q)'
  <2>1. CASE AnswerStatus(r)
    BY <1>2, <2>1 DEF AnswerStatus, renterVars
  <2>2. CASE ~AnswerStatus(r)
    <3>1. UNCHANGED <<query, reply, poller>>
      BY <1>2, <2>2 DEF ProviderStep, HandlerStep, ChildStep, Receive, Reject, MakeDir, PrepareFails,
         Prepare, StartFails, Start, Finish, Respond, RespondOnly, RespondFails, Down, DownFails,
         RemoveDir, RemoveDirFails, ChildPrints, ChildExits, ReaderPush, Fail, sharedVars, renterVars
    <3> QED
      BY <3>1
  <2> QED
    BY <2>1, <2>2
<1>3. ASSUME NEW n \in Node, Crash(n) PROVE Quiet(q)'
  <2>1. /\ poller'[q] = IF Source[q] = n /\ poller[q] = "polling" THEN "done" ELSE poller[q]
        /\ query'[q] = IF Source[q] = n \/ (Target[q] = n /\ query[q] = "asked") THEN "idle" ELSE query[q]
        /\ reply'[q] = IF Source[q] = n THEN {} ELSE reply[q]
    BY <1>3 DEF Crash
  <2> QED
    BY <2>1
<1>4. CASE \/ \E r \in Request : StreamReset(r) \/ RequestLost(r)
           \/ Tick
  BY <1>4 DEF StreamReset, RequestLost, Tick, renterVars
<1> QED
  BY <1>1, <1>2, <1>3, <1>4 DEF Next, Step

\* Stamps never change, so an entry stays owned; a new one is its writer's.
LEMMA NextOwned ==
  ASSUME Flow, Next, EntriesOwned
  PROVE  EntriesOwned'
<1> SUFFICES ASSUME NEW n \in Node, NEW e \in EventsOf(deploys'[n])
             PROVE  Owned(e)'
  BY DEF EntriesOwned
<1>1. TypeOK /\ \A s \in Request : Stamped(s)
  BY DEF Flow, Typed
<1>2. CASE e \in EventsOf(deploys[n])
  <2>1. PICK s \in Request : requestedAt[s] # 0 /\ DeployEventKey(s) = e.key
    BY <1>2 DEF EntriesOwned, Owned
  <2>2. requestedAt'[s] = requestedAt[s]
    BY <1>1, <2>1, OnlySubmitsStamp DEF Submit, Stamped
  <2> QED
    BY <2>1, <2>2 DEF Owned, DeployEventKey
<1>3. CASE e \notin EventsOf(deploys[n])
  <2>1. PICK s \in Request : e.key = DeployEventKey(s)'
    <3>1. PICK s \in Request : \E event :
            /\ deploys'[n] = UpsertDeployEvent(deploys[n], event)
            /\ event.key = DeployEventKey(s)'
      BY <1>3, WritersUseTheirKey DEF WrittenByOwner
    <3>2. PICK event : /\ deploys'[n] = UpsertDeployEvent(deploys[n], event)
                       /\ event.key = DeployEventKey(s)'
      BY <3>1
    <3>3. PICK i \in DOMAIN UpsertDeployEvent(deploys[n], event) :
            e = UpsertDeployEvent(deploys[n], event)[i]
      BY <3>2 DEF EventsOf
    <3>4. deploys[n] \in Seq(Event)
      BY <1>1 DEF TypeOK, SharedTypeOK
    <3>5. e = event
      BY <1>3, <3>3, <3>4, UpsertAddsOnlyEvent DEF EventsOf
    <3> QED
      BY <3>2, <3>5
  <2>2. e \in Event
    <3>1. TypeOK'
      BY NextTyped DEF Flow, Typed
    <3> QED
      BY <3>1 DEF TypeOK, SharedTypeOK, EventsOf
  <2>3. e.key \in Key
    BY <2>2 DEF Event
  <2>4. e.key[1] \in Second
    BY <2>3 DEF Key
  <2>5. requestedAt'[s] # 0
    BY <2>1, <2>4 DEF DeployEventKey, Second
  <2> QED
    BY <2>1, <2>5 DEF Owned
<1> QED
  BY <1>2, <1>3

-----------------------------------------------------------------------------
(* What the two sides write. *)

LEMMA RankValues ==
  ASSUME NEW x
  PROVE  /\ x.status = "sent" => Rank(x) = 0
         /\ x.status = "received" => Rank(x) = 1
         /\ x.status = "running" => Rank(x) = 2
         /\ x.status \in Terminal => Rank(x) = 3
<1>1. ASSUME x.status = "sent" PROVE Rank(x) = 0
  BY <1>1 DEF Rank
<1>2. ASSUME x.status = "received" PROVE Rank(x) = 1
  BY <1>2 DEF Rank
<1>3. ASSUME x.status = "running" PROVE Rank(x) = 2
  BY <1>3 DEF Rank
<1>4. ASSUME x.status \in Terminal PROVE Rank(x) = 3
  <2>1. x.status # "sent" /\ x.status # "received" /\ x.status # "running"
    BY <1>4 DEF Terminal
  <2> QED
    BY <2>1 DEF Rank
<1> QED
  BY <1>1, <1>2, <1>3, <1>4

\* What can have been said before a given status.
Before(status) == IF status = "received" THEN {"sent"} ELSE {"sent", "received", "running"}

LEMMA RankBefore ==
  ASSUME NEW event, event.status \in {"received", "running"} \cup Terminal,
         NEW x, x.status \in Before(event.status)
  PROVE  Rank(x) <= Rank(event)
<1>1. CASE event.status = "received"
  BY <1>1, RankValues DEF Before
<1>2. CASE event.status = "running"
  BY <1>2, RankValues DEF Before
<1>3. CASE event.status \in Terminal
  BY <1>3, RankValues DEF Before, Terminal
<1> QED
  BY <1>1, <1>2, <1>3

\* The next thing the provider says of r: all that was so far true of r is
\* no later, and no outcome was among it.
NextWord(r, event) ==
  /\ event.key = DeployEventKey(r)'
  /\ ~event.files
  /\ Reached(r, event)'
  /\ result'[r] # {} => event.status \in Terminal
  /\ \A x \in Event : Reached(r, x) => NoLater(x, event) /\ x.status \notin Terminal

\* Before there is a command there is no output.
LEMMA NoOutputYet ==
  ASSUME TypeOK, NEW q \in Request, Stamped(q), ResultFlow(q), ChildFlow(q), Output(q),
         handler[q] \in {"idle", "checking", "preparing"}
  PROVE  /\ shown[q] = 0 /\ result[q] = {}
         /\ \A x \in Event : Reached(q, x) =>
              x.lines = 0 /\ x.status \in (IF handler[q] = "idle" THEN {"sent"} ELSE {"sent", "received"})
<1>1. child[q] = "none" /\ result[q] = {}
  BY DEF ChildFlow, ResultFlow
<1>2. printed[q] \in Nat /\ shown[q] \in Nat
  BY BoundAssumption DEF TypeOK, ProviderTypeOK
<1>3. shown[q] = 0
  BY <1>1, <1>2 DEF Stamped, Output
<1>4. ASSUME NEW x \in Event, Reached(q, x)
      PROVE  x.lines = 0 /\ x.status \in (IF handler[q] = "idle" THEN {"sent"} ELSE {"sent", "received"})
  <2>1. x.lines \in Nat /\ x.status \in Status
    BY BoundAssumption DEF Event
  <2> QED
    BY <1>1, <1>3, <1>4, <2>1 DEF Reached, Status, Terminal
<1> QED
  BY <1>1, <1>3, <1>4

LEMMA ProviderSaysNext ==
  ASSUME Flow, Hosting, Next, NEW q \in Request, Output(q), ByProvider(q, Target[q])
  PROVE  \E event : Post(Target[q], event) /\ NextWord(q, event)
<1>t. /\ TypeOK /\ Stamped(q) /\ ResultFlow(q) /\ ChildFlow(q)
      /\ shown[q] \in Nat /\ printed[q] \in Nat
  BY BoundAssumption DEF Flow, Typed, Hosting, TypeOK, ProviderTypeOK
<1>k. requestedAt' = requestedAt
  BY DEF ByProvider, Receive, Prepare, ReaderPush, Reject, PrepareFails, Fail, Finish, requestVars
<1>p. ASSUME NEW status \in {"received", "running"} \cup Terminal, NEW lines,
             Post(Target[q], EventOf(q, status, lines, FALSE)),
             lines <= shown'[q],
             status = "received" => handler'[q] # "idle",
             status = "running" => handler'[q] \notin {"idle", "checking", "preparing"},
             status \in Terminal => \E a \in result'[q] : a.status = status /\ a.lines = lines,
             result'[q] # {} => status \in Terminal,
             \A x \in Event : Reached(q, x) => x.lines <= lines /\ x.status \in Before(status)
      PROVE  \E event : Post(Target[q], event) /\ NextWord(q, event)
  <2>1. PICK event : event = EventOf(q, status, lines, FALSE)
    OBVIOUS
  <2>2. /\ event.key = DeployEventKey(q) /\ event.status = status
        /\ event.lines = lines /\ event.files = FALSE
    BY <2>1 DEF EventOf
  <2>3. DeployEventKey(q)' = DeployEventKey(q)
    BY <1>k DEF DeployEventKey
  <2>4. Reached(q, event)'
    BY <1>p, <2>2 DEF Reached
  <2>5. \A x \in Event : Reached(q, x) => NoLater(x, event) /\ x.status \notin Terminal
    <3> SUFFICES ASSUME NEW x \in Event, Reached(q, x)
                 PROVE  NoLater(x, event) /\ x.status \notin Terminal
      OBVIOUS
    <3>1. x.lines <= event.lines /\ x.status \in Before(event.status)
      BY <1>p, <2>2
    <3>2. event.status \in {"received", "running"} \cup Terminal
      BY <1>p, <2>2
    <3>3. Rank(x) <= Rank(event)
      BY <3>1, <3>2, RankBefore
    <3> QED
      BY <3>1, <3>3 DEF NoLater, Before, Terminal
  <2>6. NextWord(q, event)
    BY <1>p, <2>2, <2>3, <2>4, <2>5 DEF NextWord
  <2> QED
    BY <1>p, <2>1, <2>6
<1>1. CASE Receive(q)
  <2>1. \A x \in Event : Reached(q, x) => x.lines = 0 /\ x.status = "sent"
    BY <1>t, <1>1, NoOutputYet DEF Receive, Goto
  <2>2. handler'[q] = "checking" /\ UNCHANGED <<shown, result>>
    BY <1>t, <1>1 DEF Receive, Goto, childVars, TypeOK, ProviderTypeOK
  <2>3. result[q] = {} /\ shown[q] = 0
    BY <1>t, <1>1, NoOutputYet DEF Receive, Goto
  <2>4. Post(Target[q], EventOf(q, "received", 0, FALSE))
    BY <1>1 DEF Receive
  <2>5. \A x \in Event : Reached(q, x) => x.lines <= 0 /\ x.status \in Before("received")
    BY <2>1 DEF Before
  <2>6. /\ 0 <= shown'[q] /\ result'[q] = {}
        /\ handler'[q] # "idle"
        /\ "received" \notin Terminal
    BY <2>2, <2>3 DEF Terminal
  <2> QED
    BY <1>p, <2>4, <2>5, <2>6
<1>2. CASE Prepare(q)
  <2>1. \A x \in Event : Reached(q, x) => x.lines = 0 /\ x.status \in {"sent", "received"}
    BY <1>t, <1>2, NoOutputYet DEF Prepare, Goto
  <2>2. handler'[q] = "starting" /\ UNCHANGED <<shown, result>>
    BY <1>t, <1>2 DEF Prepare, Goto, childVars, TypeOK, ProviderTypeOK
  <2>3. result[q] = {} /\ shown[q] = 0
    BY <1>t, <1>2, NoOutputYet DEF Prepare, Goto
  <2>4. Post(Target[q], EventOf(q, "running", 0, FALSE))
    BY <1>2 DEF Prepare
  <2>5. \A x \in Event : Reached(q, x) => x.lines <= 0 /\ x.status \in Before("running")
    BY <2>1 DEF Before
  <2>6. /\ 0 <= shown'[q] /\ result'[q] = {}
        /\ handler'[q] \notin {"idle", "checking", "preparing"}
        /\ "running" \notin Terminal
    BY <2>2, <2>3 DEF Terminal
  <2> QED
    BY <1>p, <2>4, <2>5, <2>6
<1>3. CASE ReaderPush(q)
  <2>1. /\ shown'[q] = shown[q] + 1 /\ shown[q] < printed[q] /\ handler[q] # "crashed"
        /\ UNCHANGED <<handler, result>>
    BY <1>t, <1>3 DEF ReaderPush, TypeOK, ProviderTypeOK
  <2>2. handler[q] \in {"starting", "running"}
    BY <1>t, <2>1 DEF TypeOK, ProviderTypeOK, Handling, Output, Stamped, ChildFlow
  <2>3. result[q] = {}
    BY <1>t, <2>2 DEF ResultFlow
  <2>4. Post(Target[q], EventOf(q, "running", shown'[q], FALSE))
    BY <1>3 DEF ReaderPush
  <2>5. ASSUME NEW x \in Event, Reached(q, x)
        PROVE  x.lines <= shown'[q] /\ x.status \in Before("running")
    <3>1. x.lines \in Nat /\ x.status \in {"sent", "received", "running"}
      BY <2>3, <2>5, BoundAssumption DEF Event, Reached, Status
    <3>2. x.lines <= shown'[q]
      BY <1>t, <2>1, <2>5, <3>1 DEF Reached
    <3> QED
      BY <3>1, <3>2 DEF Before
  <2>6. shown'[q] <= shown'[q]
    BY <1>t, <2>1
  <2> QED
    BY <1>p, <2>1, <2>2, <2>3, <2>4, <2>5, <2>6 DEF Terminal
<1>4. CASE Reject(q) \/ PrepareFails(q)
  <2>1. \A x \in Event : Reached(q, x) => x.lines = 0 /\ x.status \in {"sent", "received"}
    BY <1>t, <1>4, NoOutputYet DEF Reject, PrepareFails, Goto
  <2>2. UNCHANGED shown /\ shown[q] = 0
    BY <1>t, <1>4, NoOutputYet DEF Reject, PrepareFails, Fail, Goto, childVars
  <2>3. Post(Target[q], EventOf(q, "failed", 0, FALSE))
    BY <1>4 DEF Reject, PrepareFails, Fail
  <2>4. result'[q] = {[status |-> "failed", lines |-> 0, files |-> FALSE, oversize |-> FALSE]}
    BY <1>t, <1>4 DEF Reject, PrepareFails, Fail, TypeOK, ProviderTypeOK
  <2>5. \E a \in result'[q] : a.status = "failed" /\ a.lines = 0
    BY <2>4
  <2>6. \A x \in Event : Reached(q, x) => x.lines <= 0 /\ x.status \in Before("failed")
    BY <2>1 DEF Before
  <2>7. 0 <= shown'[q] /\ "failed" \in Terminal
    BY <2>2 DEF Terminal
  <2> QED
    BY <1>p, <2>3, <2>5, <2>6, <2>7
<1>5. CASE Finish(q)
  <2>1. PICK a \in Answer : /\ a.lines = shown[q] /\ PostOutcome(q, a)
                            /\ result' = [result EXCEPT ![q] = {a}]
    BY <1>5 DEF Finish
  <2>2. result'[q] = {a} /\ a.status \in Terminal
    BY <1>t, <2>1 DEF Answer, TypeOK, ProviderTypeOK
  <2>3. UNCHANGED shown /\ result[q] = {}
    BY <1>t, <1>5 DEF Finish, Goto, childVars, ResultFlow
  <2>4. Post(Target[q], EventOf(q, a.status, a.lines, FALSE))
    BY <2>1 DEF PostOutcome
  <2>5. ASSUME NEW x \in Event, Reached(q, x)
        PROVE  x.lines <= a.lines /\ x.status \in Before(a.status)
    <3>1. x.lines \in Nat /\ x.status \in {"sent", "received", "running"}
      BY <2>3, <2>5, BoundAssumption DEF Event, Reached, Status
    <3>2. x.lines <= a.lines
      BY <2>1, <2>5 DEF Reached
    <3> QED
      BY <2>2, <3>1, <3>2 DEF Before, Terminal
  <2>6. a.lines <= shown'[q]
    BY <1>t, <2>1, <2>3
  <2>7. /\ a.status \notin {"received", "running"}
        /\ \E b \in result'[q] : b.status = a.status /\ b.lines = a.lines
    BY <2>2 DEF Terminal
  <2> QED
    BY <1>p, <2>2, <2>4, <2>5, <2>6, <2>7
<1> QED
  BY <1>1, <1>2, <1>3, <1>4, <1>5 DEF ByProvider

-----------------------------------------------------------------------------
(* How the entries of one request change. *)

\* Posting to one log leaves the others as they are.
LEMMA PostElsewhere ==
  ASSUME TypeOK, NEW q \in Request, NEW n \in Node, NEW m \in Node, m # n,
         NEW event, Post(n, event), requestedAt'[q] = requestedAt[q]
  PROVE  View(m, q)' = View(m, q)
<1>1. deploys'[m] = deploys[m]
  BY DEF Post, TypeOK, SharedTypeOK
<1>2. DeployEventKey(q)' = DeployEventKey(q)
  BY DEF DeployEventKey
<1> QED
  BY <1>1, <1>2 DEF View

\* A log shows at most one entry of a request.
LEMMA OneEntry ==
  ASSUME OneEventPerKey, NEW q \in Request, NEW n \in Node, NEW x \in View(n, q), NEW y \in View(n, q)
  PROVE  x = y
  BY DEF OneEventPerKey, WellFormed, View, EntriesFor, EventsOf

\* Only the provider's own steps produce a result, and none takes it back.
LEMMA OnlyWritersDecide ==
  ASSUME Flow, Next, NEW q \in Request, ~ByProvider(q, Target[q])
  PROVE  result'[q] = result[q]
<1>1. TypeOK
  BY DEF Flow, Typed
<1>2. CASE ProviderStep(q)
  BY <1>1, <1>2 DEF ByProvider, ProviderStep, HandlerStep, ChildStep, Receive, MakeDir,
     Prepare, StartFails, Start, Respond, RespondOnly, RespondFails, Down, DownFails,
     RemoveDir, RemoveDirFails, ChildPrints, ChildExits, ReaderPush, AnswerStatus, providerVars
<1>3. CASE ~ProviderStep(q)
  BY <1>1, <1>3, OutputIsLocal
<1> QED
  BY <1>2, <1>3

\* A call that has returned has done so for good.
LEMMA ReturnedStays ==
  ASSUME TypeOK, Next, NEW q \in Request, call[q] = "returned"
  PROVE  call'[q] = "returned"
<1>1. ASSUME NEW r \in Request, RenterStep(r) PROVE call'[q] = "returned"
  <2>1. CASE q # r
    BY <1>1, <2>1, RenterStepIsLocal
  <2>2. CASE q = r
    BY <1>1, <2>2 DEF RenterStep, CallStep, PollStep, SubmitFails, Submit, DialFails, Dial,
       WriteRequest, WriteFails, ReadAnswer, ReadFails, Abandon, RecordResult, SaveFails, PollAsk,
       PollStop, PollFails, PollApply, renterVars
  <2> QED
    BY <2>1, <2>2
<1>2. CASE \/ \E s \in Request : StreamReset(s) \/ RequestLost(s)
           \/ \E n \in Node : Crash(n)
           \/ Tick
  BY <1>2, EnvironmentIsHarmless DEF Calling
<1> QED
  BY <1>1, <1>2 DEF Next, Step, renterVars

\* What has come to pass has come to pass.
LEMMA ReachedStays ==
  ASSUME Flow, Hosting, Next, NEW q \in Request, Output(q), NEW x \in Event, Reached(q, x)
  PROVE  Reached(q, x)'
<1>t. /\ TypeOK /\ x.lines \in Nat
      /\ shown[q] \in Nat /\ shown'[q] \in Nat
  <2>1. TypeOK /\ TypeOK'
    BY NextTyped DEF Flow, Typed
  <2> QED
    BY <2>1, BoundAssumption DEF TypeOK, ProviderTypeOK, Event
<1>1. shown[q] <= shown'[q]
  <2>1. CASE ProviderStep(q)
    <3>1. CASE ReaderPush(q)
      BY <1>t, <3>1 DEF ReaderPush, TypeOK, ProviderTypeOK
    <3>2. CASE ~ReaderPush(q)
      <4>1. UNCHANGED shown
        BY <2>1, <3>2 DEF ProviderStep, HandlerStep, ChildStep, Receive, Reject, MakeDir, PrepareFails,
           Prepare, StartFails, Start, Finish, Respond, RespondOnly, RespondFails, Down, DownFails,
           RemoveDir, RemoveDirFails, ChildPrints, ChildExits, AnswerStatus, Fail, childVars, providerVars
      <4> QED
        BY <1>t, <4>1
    <3> QED
      BY <3>1, <3>2
  <2>2. CASE ~ProviderStep(q)
    BY <1>t, <2>2, OutputIsLocal
  <2> QED
    BY <2>1, <2>2
<1>2. /\ handler[q] # "idle" => handler'[q] # "idle"
      /\ handler[q] \notin {"idle", "checking", "preparing"} =>
           handler'[q] \notin {"idle", "checking", "preparing"}
  <2>1. CASE ProviderStep(q)
    BY <1>t, <2>1 DEF ProviderStep, HandlerStep, ChildStep, Receive, Reject, MakeDir, PrepareFails,
       Prepare, StartFails, Start, Finish, Respond, RespondOnly, RespondFails, Down, DownFails,
       RemoveDir, RemoveDirFails, ChildPrints, ChildExits, ReaderPush, AnswerStatus, Goto,
       providerVars, TypeOK, ProviderTypeOK
  <2>2. CASE ~ProviderStep(q)
    <3>1. ASSUME NEW r \in Request, ProviderStep(r) PROVE handler'[q] = handler[q]
      BY <1>t, <2>2, <3>1, ProviderStepIsLocal
    <3>2. CASE \/ \E r \in Request : StreamReset(r) \/ RequestLost(r)
               \/ \E n \in Node : Crash(n)
               \/ Tick
      BY <1>t, <3>2, EnvironmentIsHarmless
    <3> QED
      BY <3>1, <3>2 DEF Next, Step, providerVars
  <2> QED
    BY <2>1, <2>2
<1>3. result[q] # {} => result'[q] = result[q]
  BY ResultsStay
<1> QED
  BY <1>t, <1>1, <1>2, <1>3 DEF Reached

\* A stamped request's entries change only where its call, its poller or its
\* handler writes.
LEMMA OwnWritesOnly ==
  ASSUME Flow, Next, NEW q \in Request, requestedAt[q] # 0, Alone(q)'
  PROVE  \/ RecordResult(q) \/ PollApply(q) \/ ByProvider(q, Target[q])
         \/ \A n \in Node : View(n, q)' \subseteq View(n, q)
<1>1. ~Submit(q)
  BY DEF Submit, Flow, Typed, Stamped
<1>2. ASSUME ~RecordResult(q), ~PollApply(q), ~ByProvider(q, Target[q]), NEW n \in Node
      PROVE  View(n, q)' \subseteq View(n, q)
  <2>1. ~ByRenter(q, n) /\ ~ByProvider(q, n)
    BY <1>1, <1>2 DEF ByRenter, ByProvider
  <2> QED
    BY <2>1, OthersKeepOut
<1> QED
  BY <1>2

-----------------------------------------------------------------------------
(* Every step keeps the entries of a request in order. *)

\* A new request starts with the entry that was just made for it: an older
\* entry with its key would be that of a request with the same key.
LEMMA SubmitOrdered ==
  ASSUME Flow, EntriesOwned, Next, NEW q \in Request, Submit(q), Alone(q)'
  PROVE  Ordered(q)'
<1>t. /\ TypeOK /\ Stamped(q) /\ Source[q] \in Node /\ Target[q] \in Node /\ Source[q] # Target[q]
      /\ deploys \in [Node -> Seq(Event)] /\ shown[q] \in Nat
  BY RequestAssumption, BoundAssumption DEF Flow, Typed, TypeOK, SharedTypeOK, ProviderTypeOK
<1>1. reply[q] = {} /\ requestedAt[q] = 0 /\ handler[q] = "idle" /\ result[q] = {}
  BY <1>t DEF Submit, Stamped, Flow, ResultFlow
<1>2. reply'[q] = {}
  BY <1>1 DEF Submit, statusStream
<1>3. PICK event : /\ Post(Source[q], event)
                   /\ event = [key |-> <<clock, Source[q], Bundle[q]>>,
                               status |-> "sent", lines |-> 0, files |-> FALSE]
  BY DEF Submit
<1>4. ASSUME NEW n \in Node, NEW e \in View(n, q)'
      PROVE  n = Source[q] /\ e = event
  <2>1. e \in EventsOf(deploys'[n]) /\ e.key = DeployEventKey(q)'
    BY <1>4 DEF View, EntriesFor
  <2>2. e \notin EventsOf(deploys[n])
    <3> SUFFICES ASSUME e \in EventsOf(deploys[n]) PROVE FALSE
      OBVIOUS
    <3>1. PICK s \in Request : requestedAt[s] # 0 /\ DeployEventKey(s) = e.key
      BY DEF EntriesOwned, Owned
    <3>2. s # q /\ ~Submit(s)
      BY <1>1, <3>1 DEF Submit, Flow, Typed, Stamped
    <3>3. DeployEventKey(s)' = DeployEventKey(s)
      BY <1>t, <3>2, OnlySubmitsStamp DEF DeployEventKey
    <3> QED
      BY <2>1, <3>1, <3>2, <3>3 DEF Alone
  <2>3. n = Source[q]
    BY <1>t, <1>3, <2>1, <2>2 DEF Post
  <2>4. deploys'[n] = UpsertDeployEvent(deploys[n], event)
    BY <1>t, <1>3, <2>3 DEF Post
  <2>5. PICK i \in DOMAIN UpsertDeployEvent(deploys[n], event) :
          e = UpsertDeployEvent(deploys[n], event)[i]
    BY <2>1, <2>4 DEF EventsOf
  <2>6. e = event
    BY <1>t, <2>2, <2>5, UpsertAddsOnlyEvent DEF EventsOf
  <2> QED
    BY <2>3, <2>6
<1>5. Theirs(q)' = {} /\ \A x \in Mine(q)' : x = event
  BY <1>t, <1>4 DEF Mine, Theirs
<1>6. /\ Reached(q, event)' /\ ~event.files
  <2>1. event.status = "sent" /\ event.lines = 0 /\ event.files = FALSE
    BY <1>3
  <2>2. shown'[q] \in Nat
    BY NextTyped, BoundAssumption DEF Flow, Typed, TypeOK, ProviderTypeOK
  <2> QED
    BY <2>1, <2>2 DEF Reached, Terminal
<1> QED
  BY <1>2, <1>5, <1>6 DEF Ordered

\* The record: the answer is the result, which nothing the provider's log
\* shows by then differs from.
LEMMA RecordOrdered ==
  ASSUME Flow, OneEventPerKey, Hosting, Next, NEW q \in Request, RecordResult(q),
         Output(q), Quiet(q), Alone(q), Ordered(q)
  PROVE  Ordered(q)'
<1>t. /\ TypeOK /\ ResultFlow(q) /\ VerdictFlow(q)
      /\ Source[q] \in Node /\ Target[q] \in Node /\ Source[q] # Target[q]
      /\ Theirs(q) \subseteq Event /\ shown[q] \in Nat
  BY RequestAssumption, BoundAssumption, EntriesAreEvents DEF Flow, Typed, TypeOK, ProviderTypeOK
<1>1. PICK a \in answer[q] : Post(Source[q], RecordDeployResult(q, a)) /\ Return(q, a.status)
  BY DEF RecordResult
<1>2. result[q] = {a} /\ a \in Answer /\ a.status \in Terminal /\ a.lines = shown[q]
  <2>1. answer[q] = result[q]
    BY <1>t, <1>1 DEF ResultFlow
  <2>2. result[q] = {a} /\ a \in Answer
    BY <1>t, <1>1, <2>1 DEF ResultFlow
  <2> QED
    BY <2>2 DEF Output, Answer
<1>3. PICK event : event = RecordDeployResult(q, a)
  OBVIOUS
<1>4. event.key = DeployEventKey(q) /\ event.status = a.status /\ event.lines = a.lines
  BY <1>3 DEF RecordDeployResult, EventOf
<1>5. requestedAt' = requestedAt
  BY DEF RecordResult, requestVars
<1>6. \A x \in Mine(q)' : x = event
  BY <1>t, <1>1, <1>3, <1>4, <1>5, PostShowsAlone DEF Mine, DeployEventKey
<1>7. Theirs(q)' = Theirs(q)
  BY <1>t, <1>1, <1>5, PostElsewhere DEF Theirs
<1>8. reply'[q] = {}
  BY DEF RecordResult, PollerIsDone, Quiet, statusStream
<1>9. call'[q] = "returned"
  BY <1>t, <1>1 DEF Return, TypeOK, RenterTypeOK
<1>10. Reached(q, event)
  BY <1>t, <1>2, <1>4 DEF Reached, Terminal
<1>11. ASSUME NEW y \in Theirs(q)
       PROVE  NoLater(event, y) /\ Reached(q, y) /\ ~y.files /\ y.status \in Terminal
  <2>1. Reached(q, y) /\ ~y.files /\ y.status \in Terminal
    BY <1>2 DEF Ordered
  <2>2. y.lines = event.lines
    BY <1>2, <1>4, <2>1 DEF Reached
  <2>3. Rank(event) = 3 /\ Rank(y) = 3
    BY <1>2, <1>4, <2>1, RankValues
  <2> QED
    BY <1>2, <1>4, <1>t, <2>1, <2>2, <2>3 DEF NoLater
<1>12. Reached(q, event)' /\ \A y \in Theirs(q) : Reached(q, y)'
  <2>1. event \in Event
    <3>1. requestedAt[q] # 0
      BY DEF Alone
    <3>2. a.status \in Status /\ a.lines \in 0 .. MaxLines /\ a.files \in BOOLEAN
      BY <1>2 DEF Answer, Status
    <3> QED
      BY <1>t, <1>3, <3>1, <3>2, EventOfType DEF RecordDeployResult
  <2> QED
    BY <1>t, <1>10, <1>11, <2>1, ReachedStays
<1> QED
  BY <1>6, <1>7, <1>8, <1>9, <1>11, <1>12 DEF Ordered

\* A copy is one of the reply, which was no later than the provider's entry.
LEMMA ApplyOrdered ==
  ASSUME Flow, OneEventPerKey, EventsJustified, Hosting, Next, NEW q \in Request, PollApply(q),
         Output(q), Ordered(q)
  PROVE  Ordered(q)'
<1>t. /\ TypeOK /\ Source[q] \in Node /\ Target[q] \in Node /\ Source[q] # Target[q]
      /\ Theirs(q) \subseteq Event /\ reply[q] \subseteq Event
  BY RequestAssumption, EntriesAreEvents DEF Flow, Typed
<1>1. PICK old \in reply[q] : Post(Source[q], [old EXCEPT !.key = DeployEventKey(q)])
  BY DEF PollApply
<1>2. old \in Event /\ old.key = DeployEventKey(q)
  BY <1>t, <1>1 DEF EventsJustified
<1>3. [old EXCEPT !.key = DeployEventKey(q)] = old
  BY <1>2 DEF Event
<1>4. requestedAt' = requestedAt /\ Post(Source[q], old)
  BY <1>1, <1>3 DEF PollApply, requestVars
<1>5. \A x \in Mine(q)' : x = old
  BY <1>t, <1>2, <1>4, PostShowsAlone DEF Mine, DeployEventKey
<1>6. Theirs(q)' = Theirs(q)
  BY <1>t, <1>4, PostElsewhere DEF Theirs
<1>7. reply'[q] = {}
  BY <1>t DEF PollApply, TypeOK, SharedTypeOK
<1>8. ~old.files /\ Reached(q, old)' /\ \A y \in Theirs(q) : NoLater(old, y)
  BY <1>1, <1>2, ReachedStays DEF Ordered
<1>9. \A y \in Theirs(q) : Reached(q, y)' /\ ~y.files
  BY <1>t, ReachedStays DEF Ordered
<1>10. result'[q] = result[q]
  <2>1. query'[q] # query[q]
    BY <1>t DEF PollApply, TypeOK, SharedTypeOK
  <2>2. ~ByProvider(q, Target[q])
    BY <2>1 DEF ByProvider, Receive, Prepare, ReaderPush, Reject, PrepareFails, Fail, Finish, statusStream
  <2> QED
    BY <2>2, OnlyWritersDecide DEF Flow, Typed
<1> QED
  BY <1>5, <1>6, <1>7, <1>8, <1>9, <1>10 DEF Ordered

\* The provider's next word is later than all that was said.
LEMMA ProviderOrdered ==
  ASSUME Flow, OneEventPerKey, Hosting, Next, NEW q \in Request, ByProvider(q, Target[q]),
         Output(q), Ordered(q)
  PROVE  Ordered(q)'
<1>t. /\ TypeOK /\ Source[q] \in Node /\ Target[q] \in Node /\ Source[q] # Target[q]
      /\ Mine(q) \subseteq Event /\ reply[q] \subseteq Event
  BY RequestAssumption, EntriesAreEvents DEF Flow, Typed
<1>1. PICK event : Post(Target[q], event) /\ NextWord(q, event)
  BY ProviderSaysNext
<1>2. requestedAt' = requestedAt /\ UNCHANGED statusStream
  BY DEF ByProvider, Receive, Prepare, ReaderPush, Reject, PrepareFails, Fail, Finish, requestVars
<1>3. \A y \in Theirs(q)' : y = event
  BY <1>t, <1>1, PostShowsAlone DEF Theirs, NextWord
<1>4. Mine(q)' = Mine(q) /\ reply'[q] = reply[q]
  BY <1>t, <1>1, <1>2, PostElsewhere DEF Mine, statusStream
<1>5. \A x \in Mine(q) \cup reply[q] : Reached(q, x)' /\ NoLater(x, event)
  BY <1>t, <1>1, ReachedStays DEF Ordered, NextWord
<1>6. \A x \in Mine(q) : x.files => call'[q] = "returned"
  BY <1>t, ReturnedStays DEF Ordered
<1> QED
  BY <1>1, <1>3, <1>4, <1>5, <1>6 DEF Ordered, NextWord

\* No other step adds to the entries of q; it may take up a reply, which is
\* the provider's entry.
LEMMA OthersOrdered ==
  ASSUME Flow, OneEventPerKey, Hosting, Next, NEW q \in Request,
         \A n \in Node : View(n, q)' \subseteq View(n, q),
         ~ByProvider(q, Target[q]), Output(q), Ordered(q)
  PROVE  Ordered(q)'
<1>t. /\ TypeOK /\ Source[q] \in Node /\ Target[q] \in Node
      /\ Mine(q) \subseteq Event /\ Theirs(q) \subseteq Event /\ reply[q] \subseteq Event
  BY RequestAssumption, EntriesAreEvents DEF Flow, Typed
<1>1. Mine(q)' \subseteq Mine(q) /\ Theirs(q)' \subseteq Theirs(q)
  BY <1>t DEF Mine, Theirs
<1>2. result'[q] = result[q]
  BY OnlyWritersDecide
<1>3. \A x \in Mine(q) \cup Theirs(q) \cup reply[q] : Reached(q, x)'
  BY <1>t, ReachedStays DEF Ordered
<1>4. \A x \in Mine(q) : x.files => call'[q] = "returned"
  BY <1>t, ReturnedStays DEF Ordered
<1>5. CASE reply'[q] \subseteq reply[q]
  BY <1>1, <1>2, <1>3, <1>4, <1>5 DEF Ordered
<1>6. CASE AnswerStatus(q)
  <2>1. reply'[q] \subseteq Theirs(q)
    <3> SUFFICES ASSUME NEW e \in reply'[q] PROVE e \in Theirs(q)
      OBVIOUS
    <3>1. e \in GetDeployEventByKey(deploys[Target[q]], DeployEventKey(q))
      BY <1>t, <1>6 DEF AnswerStatus, TypeOK, SharedTypeOK
    <3> QED
      BY <3>1, LookupFinds DEF Theirs, View, EntriesFor, EventsOf
  <2>2. ASSUME NEW x \in Theirs(q), NEW y \in Theirs(q) PROVE NoLater(x, y)
    <3>1. x = y
      BY <1>t, <2>2, OneEntry DEF Theirs
    <3>2. x.lines \in Nat /\ x.status \in Status
      BY <1>t, BoundAssumption DEF Event
    <3>3. Rank(x) <= Rank(x)
      BY <3>2, RankValues DEF Status, Terminal
    <3> QED
      BY <3>1, <3>2, <3>3 DEF NoLater
  <2>3. \A x \in Theirs(q) : ~x.files
    BY DEF Ordered
  <2>4. \A x \in Mine(q), y \in Theirs(q) : NoLater(x, y)
    BY DEF Ordered
  <2>5. result'[q] # {} => \A y \in Theirs(q) : y.status \in Terminal
    BY <1>2 DEF Ordered
  <2> QED
    BY <1>1, <1>2, <1>3, <1>4, <2>1, <2>2, <2>3, <2>4, <2>5 DEF Ordered
<1> QED
  BY <1>t, <1>5, <1>6, OnlyAnswersReply

LEMMA NextOrdered ==
  ASSUME Flow, OneEventPerKey, EventsJustified, Hosting, EntriesOwned, Next,
         NEW q \in Request, Output(q), Quiet(q), Alone(q) => Ordered(q), Alone(q)'
  PROVE  Ordered(q)'
<1>1. TypeOK /\ \A s \in Request : Stamped(s)
  BY DEF Flow, Typed
<1>2. CASE requestedAt[q] = 0
  <2>1. Submit(q)
    BY <1>1, <1>2, OnlySubmitsStamp DEF Alone
  <2> QED
    BY <2>1, SubmitOrdered
<1>3. CASE requestedAt[q] # 0
  <2>1. Alone(q) /\ Ordered(q)
    BY <1>1, <1>3, AloneBefore
  <2>2. CASE RecordResult(q)
    BY <2>1, <2>2, RecordOrdered
  <2>3. CASE PollApply(q)
    BY <2>1, <2>3, ApplyOrdered
  <2>4. CASE ByProvider(q, Target[q])
    BY <2>1, <2>4, ProviderOrdered
  <2>5. CASE ~ByProvider(q, Target[q]) /\ \A n \in Node : View(n, q)' \subseteq View(n, q)
    BY <2>1, <2>5, OthersOrdered
  <2> QED
    BY <1>3, <2>2, <2>3, <2>4, <2>5, OwnWritesOnly
<1> QED
  BY <1>2, <1>3

-----------------------------------------------------------------------------
(* The theorems. *)

Ordering ==
  /\ EntriesOwned
  /\ \A q \in Request : Output(q) /\ Quiet(q) /\ (Alone(q) => Ordered(q))

LEMMA InitOrdering == Init => Ordering
<1> SUFFICES ASSUME Init PROVE Ordering
  OBVIOUS
<1>1. EntriesOwned
  BY EmptyLog DEF Init, SharedInit, EntriesOwned
<1>2. \A q \in Request : Output(q) /\ Quiet(q)
  BY DEF Init, SharedInit, ProviderInit, Output, Quiet
<1>3. \A q \in Request : ~Alone(q)
  BY DEF Init, SharedInit, Alone
<1> QED
  BY <1>1, <1>2, <1>3 DEF Ordering

LEMMA StutterOrdering == Ordering /\ UNCHANGED vars => Ordering'
<1> SUFFICES ASSUME Ordering, UNCHANGED vars PROVE Ordering'
  OBVIOUS
<1> USE DEF vars, sharedVars, requestVars, statusStream, renterVars, providerVars, childVars
<1>1. EntriesOwned'
  BY DEF Ordering, EntriesOwned, Owned, DeployEventKey
<1>2. ASSUME NEW q \in Request PROVE Output(q)' /\ Quiet(q)'
  BY DEF Ordering, Output, Quiet
<1>3. ASSUME NEW q \in Request, Alone(q)' PROVE Ordered(q)'
  <2>1. Alone(q) /\ Ordered(q)
    BY <1>3 DEF Ordering, Alone, DeployEventKey
  <2>2. \A n \in Node : View(n, q)' = View(n, q)
    BY DEF View, DeployEventKey
  <2>3. Mine(q)' = Mine(q) /\ Theirs(q)' = Theirs(q)
    BY <2>2, RequestAssumption DEF Mine, Theirs
  <2> QED
    BY <2>1, <2>3 DEF Ordered, Reached
<1> QED
  BY <1>1, <1>2, <1>3 DEF Ordering

LEMMA OrderingHolds == Spec => []Ordering
<1>1. Flow /\ OneEventPerKey /\ EventsJustified /\ Hosting /\ Ordering /\ [Next]_vars => Ordering'
  <2> SUFFICES ASSUME Flow, OneEventPerKey, EventsJustified, Hosting, Ordering, Next
               PROVE  Ordering'
    BY StutterOrdering
  <2>1. EntriesOwned'
    BY NextOwned DEF Ordering
  <2>2. ASSUME NEW q \in Request PROVE Output(q)' /\ Quiet(q)'
    BY NextOutput, NextQuiet DEF Ordering, Flow, Typed
  <2>3. ASSUME NEW q \in Request, Alone(q)' PROVE Ordered(q)'
    BY <2>3, NextOrdered DEF Ordering
  <2> QED
    BY <2>1, <2>2, <2>3 DEF Ordering
<1>2. IInv => EventsJustified
  BY DEF IInv
<1> QED
  BY <1>1, <1>2, InitOrdering, FlowIsInvariant, LogsStayWellFormed, IInvHolds, HostingHolds, PTL DEF Spec

\* The renter's copy of a deployment's entry never says more than the
\* provider's own entry, however late the poller applies what it was told:
\* for every request that has its key to itself.
THEOREM CopiesNeverLead == Spec => []CopyNeverLeads
<1>1. Ordering => CopyNeverLeads
  BY DEF Ordering, Ordered, Mine, Theirs, NoLater, CopyNeverLeads
<1> QED
  BY <1>1, OrderingHolds, PTL

\* What a step makes of an entry says no less: either the entry is the same,
\* or one of the three writers has written what comes next.
LEMMA NextAdvances ==
  ASSUME Flow, OneEventPerKey, EventsJustified, Hosting, Ordering, Recording, Next,
         NEW q \in Request, Alone(q), Alone(q)',
         NEW n \in Node, NEW before \in View(n, q), NEW after \in View(n, q)'
  PROVE  AtLeast(after, before)
<1>t. /\ TypeOK /\ Source[q] \in Node /\ Target[q] \in Node /\ Source[q] # Target[q]
      /\ requestedAt[q] # 0 /\ Ordered(q) /\ Output(q) /\ ResultFlow(q)
      /\ Mine(q) \subseteq Event /\ Theirs(q) \subseteq Event /\ reply[q] \subseteq Event
  BY RequestAssumption, EntriesAreEvents DEF Flow, Typed, Ordering, Alone
<1>e. before \in Event
  BY <1>t DEF TypeOK, SharedTypeOK, View, EntriesFor, EventsOf
<1>s. CASE View(n, q)' \subseteq View(n, q)
  <2>1. after = before
    BY <1>s, OneEntry
  <2>2. before.lines \in Nat /\ before.status \in Status
    BY <1>e, BoundAssumption DEF Event
  <2>3. Rank(before) \in Nat
    BY <2>2, RankValues DEF Status, Terminal
  <2> QED
    BY <2>1, <2>2, <2>3 DEF AtLeast
<1>r. Rank(before) = 3 => before.status \in Terminal
  BY <1>e, RankValues DEF Event, Status
<1>1. CASE RecordResult(q)
  <2>1. PICK a \in answer[q] : Post(Source[q], RecordDeployResult(q, a))
    BY <1>1 DEF RecordResult
  <2>2. result[q] = {a} /\ a \in Answer /\ a.status \in Terminal /\ a.lines = shown[q]
    <3>1. answer[q] = result[q]
      BY <1>t, <2>1 DEF ResultFlow
    <3>2. result[q] = {a} /\ a \in Answer
      BY <1>t, <2>1, <3>1 DEF ResultFlow
    <3> QED
      BY <1>t, <3>2 DEF Output, Answer
  <2>3. PICK event : event = RecordDeployResult(q, a)
    OBVIOUS
  <2>4. event.key = DeployEventKey(q) /\ event.status = a.status /\ event.lines = a.lines
    BY <2>3 DEF RecordDeployResult, EventOf
  <2>5. requestedAt' = requestedAt
    BY <1>1 DEF RecordResult, requestVars
  <2>6. CASE n # Source[q]
    BY <1>s, <1>t, <2>1, <2>5, <2>6, PostElsewhere
  <2>7. CASE n = Source[q]
    <3>1. after = event
      BY <1>t, <2>1, <2>3, <2>4, <2>5, <2>7, PostShowsAlone DEF DeployEventKey
    <3>2. before \in Mine(q)
      BY <2>7 DEF Mine
    <3>3. Reached(q, before) /\ ~before.files
      BY <1>1, <1>t, <3>2 DEF Ordered, RecordResult
    <3>4. Rank(event) = 3 /\ Rank(before) <= 3
      BY <1>e, <2>2, <2>4, RankValues DEF Event, Status
    <3>5. before.lines <= event.lines
      BY <2>2, <2>4, <3>3 DEF Reached
    <3>6. before.status \in Terminal => event.status = before.status
      BY <2>2, <2>4, <3>3 DEF Reached
    <3> QED
      BY <1>r, <3>1, <3>3, <3>4, <3>5, <3>6 DEF AtLeast
  <2> QED
    BY <2>6, <2>7
<1>2. CASE PollApply(q)
  <2>1. PICK old \in reply[q] : Post(Source[q], [old EXCEPT !.key = DeployEventKey(q)])
    BY <1>2 DEF PollApply
  <2>2. old \in Event /\ old.key = DeployEventKey(q)
    BY <1>t, <2>1 DEF EventsJustified
  <2>3. [old EXCEPT !.key = DeployEventKey(q)] = old
    BY <2>2 DEF Event
  <2>4. requestedAt' = requestedAt /\ Post(Source[q], old)
    BY <1>2, <2>1, <2>3 DEF PollApply, requestVars
  <2>5. CASE n # Source[q]
    BY <1>s, <1>t, <2>4, <2>5, PostElsewhere
  <2>6. CASE n = Source[q]
    <3>1. after = old
      BY <1>t, <2>2, <2>4, <2>6, PostShowsAlone DEF DeployEventKey
    <3>2. before \in Mine(q)
      BY <2>6 DEF Mine
    <3>3. Reached(q, before) /\ Reached(q, old) /\ NoLater(before, old)
      BY <1>t, <2>1, <3>2 DEF Ordered
    <3>4. ~before.files
      BY <1>2, <1>t, <3>2 DEF Ordered, Recording, PollerBelongs, PollApply, Calling
    <3>5. before.status \in Terminal => old.status = before.status
      <4> SUFFICES ASSUME before.status \in Terminal PROVE old.status = before.status
        OBVIOUS
      <4>1. Rank(old) >= 3
        BY <2>2, <3>3, RankValues DEF NoLater
      <4>2. old.status \in Terminal
        BY <2>2, <4>1, RankValues DEF Event, Status
      <4> QED
        BY <1>t, <3>3, <4>2 DEF Reached, ResultFlow
    <3>6. Rank(before) <= Rank(old) /\ before.lines <= old.lines
      BY <3>3 DEF NoLater
    <3>7. /\ Rank(before) \in Nat /\ Rank(old) \in Nat
          /\ before.lines \in Nat /\ old.lines \in Nat
      BY <1>e, <2>2, RankValues, BoundAssumption DEF Event, Status, Terminal
    <3> QED
      BY <1>r, <3>1, <3>4, <3>5, <3>6, <3>7 DEF AtLeast
  <2> QED
    BY <2>5, <2>6
<1>3. CASE ByProvider(q, Target[q])
  <2>1. PICK event : Post(Target[q], event) /\ NextWord(q, event)
    BY <1>3, <1>t, ProviderSaysNext
  <2>2. requestedAt' = requestedAt
    BY <1>3 DEF ByProvider, Receive, Prepare, ReaderPush, Reject, PrepareFails, Fail, Finish, requestVars
  <2>3. CASE n # Target[q]
    BY <1>s, <1>t, <2>1, <2>2, <2>3, PostElsewhere
  <2>4. CASE n = Target[q]
    <3>1. after = event
      BY <1>t, <2>1, <2>4, PostShowsAlone DEF NextWord
    <3>2. before \in Theirs(q)
      BY <2>4 DEF Theirs
    <3>3. ~before.files /\ NoLater(before, event) /\ before.status \notin Terminal
      BY <1>e, <1>t, <2>1, <3>2 DEF Ordered, NextWord
    <3> QED
      BY <1>r, <3>1, <3>3 DEF AtLeast, NoLater
  <2> QED
    BY <2>3, <2>4
<1> QED
  BY <1>1, <1>2, <1>3, <1>s, <1>t, OwnWritesOnly

\* No step of anybody takes an entry of a deployment back, in either log: not
\* its status, its output, its outcome, nor its artifacts.
THEOREM EntriesAdvance == Spec => EntriesOnlyAdvance
<1>1. Flow /\ OneEventPerKey /\ IInv /\ Hosting /\ Ordering /\ Recording /\ [Next]_vars =>
        [\A n \in Node, r \in Request :
           Alone(r) /\ Alone(r)' =>
             \A before \in View(n, r), after \in View(n, r)' : AtLeast(after, before)]_vars
  BY NextAdvances DEF IInv
<1> QED
  BY <1>1, FlowIsInvariant, LogsStayWellFormed, IInvHolds, HostingHolds, OrderingHolds,
     RecordingHolds, PTL DEF Spec, EntriesOnlyAdvance
=============================================================================
