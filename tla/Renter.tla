------------------------------- MODULE Renter -------------------------------
(***************************************************************************)
(* The renter's side of a deployment: sendDeployBundle, run by the HTTP    *)
(* handler of /api/deploy, and the goroutine it starts to copy the         *)
(* provider's progress into the local log (pollRemoteDeployStatus).        *)
(***************************************************************************)
EXTENDS AppState

VARIABLES
  call,     \* call[r]: how far sendDeployBundle is
  verdict,  \* verdict[r]: what it returned to the HTTP handler
  stop,     \* stop[r]: stopPolling is closed
  poller    \* poller[r]: the polling goroutine; "done": pollDone is closed

renterVars == <<call, verdict, stop, poller>>

Calling == {"dialing", "writing", "reading", "abandoning", "joining"}

RenterTypeOK ==
  /\ call \in [Request -> Calling \cup {"idle", "returned", "crashed"}]
  /\ verdict \in [Request -> {"none", "error"} \cup Terminal]
  /\ stop \in [Request -> BOOLEAN]
  /\ poller \in [Request -> {"none", "polling", "done"}]

RenterInit ==
  /\ call = [r \in Request |-> "idle"]
  /\ verdict = [r \in Request |-> "none"]
  /\ stop = [r \in Request |-> FALSE]
  /\ poller = [r \in Request |-> "none"]

Return(r, outcome) ==
  /\ call' = [call EXCEPT ![r] = "returned"]
  /\ verdict' = [verdict EXCEPT ![r] = outcome]

\* A slip: stopPolling is never closed.
KeepPolling(r) == UNCHANGED stop

\* close(stopPolling)
StopPolling(r) == stop' = [stop EXCEPT ![r] = TRUE]

\* A slip: the call does not wait for its poller.
DontWait(r) == TRUE

\* <-pollDone
PollerIsDone(r) == poller[r] = "done"

\* The peer is not in the table, or the bundle cannot be read.
SubmitFails(r) ==
  /\ call[r] = "idle"
  /\ Return(r, "error")
  /\ Fault
  /\ UNCHANGED <<sharedVars, stop, poller>>

\* The request is stamped and logged as sent, before anything is sent.
Submit(r) ==
  /\ call[r] = "idle"
  /\ requestedAt' = [requestedAt EXCEPT ![r] = clock]
  /\ Post(Source[r], [key |-> <<clock, Source[r], Bundle[r]>>,
                      status |-> "sent", lines |-> 0, files |-> FALSE])
  /\ call' = [call EXCEPT ![r] = "dialing"]
  /\ UNCHANGED <<clock, deployStream, statusStream, faults, verdict, stop, poller>>

DialFails(r) ==
  /\ call[r] = "dialing"
  /\ Return(r, "error")
  /\ Fault
  /\ UNCHANGED <<sharedVars, stop, poller>>

\* The stream is open; the poller starts before anything is written to it.
Dial(r) ==
  /\ call[r] = "dialing"
  /\ stream' = [stream EXCEPT ![r] = "open"]
  /\ poller' = [poller EXCEPT ![r] = "polling"]
  /\ call' = [call EXCEPT ![r] = "writing"]
  /\ UNCHANGED <<deploys, requestVars, payload, answer, statusStream, faults, verdict, stop>>

WriteRequest(r) ==
  /\ call[r] = "writing"
  /\ stream[r] = "open"
  /\ payload' = [payload EXCEPT ![r] = "sent"]
  /\ call' = [call EXCEPT ![r] = "reading"]
  /\ UNCHANGED <<deploys, requestVars, stream, answer, statusStream, faults, verdict, stop, poller>>

\* Writing or half-closing fails on a stream that is gone; in the second
\* case the whole request may have left.
WriteFails(r) ==
  /\ call[r] = "writing"
  /\ stream[r] = "reset"
  /\ payload' \in {payload, [payload EXCEPT ![r] = "sent"]}
  /\ StopPolling(r)
  /\ call' = [call EXCEPT ![r] = "abandoning"]
  /\ UNCHANGED <<deploys, requestVars, stream, answer, statusStream, faults, verdict, poller>>

\* A slip: the answer is taken as soon as it can be decoded.
AnswerArrived(r) == answer[r] # {}

\* io.ReadAll returns at the end of the stream, which the provider closes
\* only when its handler returns, or as soon as 32 MiB have been read.
AnswerComplete(r) ==
  /\ answer[r] # {}
  /\ stream[r] = "eof" \/ (stream[r] = "open" /\ \A a \in answer[r] : a.oversize)

\* An answer longer than 32 MiB is cut off and cannot be decoded.
ReadAnswer(r) ==
  /\ call[r] = "reading"
  /\ AnswerComplete(r)
  /\ StopPolling(r)
  /\ call' = [call EXCEPT ![r] = IF \E a \in answer[r] : a.oversize
                                 THEN "abandoning" ELSE "joining"]
  /\ UNCHANGED <<sharedVars, faults, verdict, poller>>

ReadFails(r) ==
  /\ call[r] = "reading"
  /\ stream[r] = "reset"
  /\ StopPolling(r)
  /\ call' = [call EXCEPT ![r] = "abandoning"]
  /\ UNCHANGED <<sharedVars, faults, verdict, poller>>

\* The error paths wait for the poller too, and leave the log as it is.
Abandon(r) ==
  /\ call[r] = "abandoning"
  /\ PollerIsDone(r)
  /\ Return(r, "error")
  /\ UNCHANGED <<sharedVars, faults, stop, poller>>

\* The entry made of an answer whose artifacts have been saved.
RecordDeployResult(r, a) == EventOf(r, a.status, a.lines, a.files)

\* The poller is gone, the artifacts are on disk: the answer is recorded and
\* becomes the result of the call.
RecordResult(r) ==
  /\ call[r] = "joining"
  /\ PollerIsDone(r)
  /\ \E a \in answer[r] :
       /\ Post(Source[r], RecordDeployResult(r, a))
       /\ Return(r, a.status)
  /\ UNCHANGED <<requestVars, deployStream, statusStream, faults, stop, poller>>

\* An artifact cannot be stored: the answer is dropped, recorded nowhere.
SaveFails(r) ==
  /\ call[r] = "joining"
  /\ PollerIsDone(r)
  /\ \E a \in answer[r] : a.files
  /\ Return(r, "error")
  /\ Fault
  /\ UNCHANGED <<sharedVars, stop, poller>>

\* One turn of the poller's loop, up to the query it sends.
PollAsk(r) ==
  /\ poller[r] = "polling"
  /\ query[r] = "idle"
  /\ ~stop[r]
  /\ query' = [query EXCEPT ![r] = "asked"]
  /\ UNCHANGED <<deploys, requestVars, deployStream, reply, faults, renterVars>>

\* stopPolling is only looked at between two queries.
PollStop(r) ==
  /\ poller[r] = "polling"
  /\ query[r] = "idle"
  /\ stop[r]
  /\ poller' = [poller EXCEPT ![r] = "done"]
  /\ UNCHANGED <<sharedVars, faults, call, verdict, stop>>

\* The provider cannot be reached, its reply cannot be read or decoded, or it
\* has no event under this key: the loop goes on as if nothing happened.
PollFails(r) ==
  /\ poller[r] = "polling"
  /\ query[r] = "asked"
  /\ query' = [query EXCEPT ![r] = "idle"]
  /\ UNCHANGED <<deploys, requestVars, deployStream, reply, faults, renterVars>>

\* The provider's event is copied into the local log under the key asked
\* for; a terminal one ends the poller.
PollApply(r) ==
  /\ poller[r] = "polling"
  /\ query[r] = "answered"
  /\ \E event \in reply[r] :
       /\ Post(Source[r], [event EXCEPT !.key = DeployEventKey(r)])
       /\ poller' = [poller EXCEPT ![r] = IF event.status \in Terminal THEN "done" ELSE @]
  /\ query' = [query EXCEPT ![r] = "idle"]
  /\ reply' = [reply EXCEPT ![r] = {}]
  /\ UNCHANGED <<requestVars, deployStream, faults, call, verdict, stop>>

\* Steps the HTTP handler takes by itself once the user has submitted r.
CallStep(r) ==
  \/ DialFails(r) \/ Dial(r)
  \/ WriteRequest(r) \/ WriteFails(r)
  \/ ReadAnswer(r) \/ ReadFails(r)
  \/ Abandon(r) \/ RecordResult(r) \/ SaveFails(r)

PollStep(r) == PollAsk(r) \/ PollStop(r) \/ PollFails(r) \/ PollApply(r)

RenterStep(r) == SubmitFails(r) \/ Submit(r) \/ CallStep(r) \/ PollStep(r)
=============================================================================
