------------------------------- MODULE Deploy -------------------------------
(***************************************************************************)
(* Deployments end to end: renters and providers joined by streams that    *)
(* may break, on nodes that may crash and come back with an empty memory.  *)
(* What a node has on disk, and what its docker holds, survives a crash.   *)
(***************************************************************************)
EXTENDS Renter, Provider

vars == <<sharedVars, faults, renterVars, providerVars>>

TypeOK == SharedTypeOK /\ RenterTypeOK /\ ProviderTypeOK

Init == SharedInit /\ RenterInit /\ ProviderInit

-----------------------------------------------------------------------------
(* The environment. *)

Tick ==
  /\ clock < MaxSecond
  /\ clock' = clock + 1
  /\ UNCHANGED <<deploys, requestedAt, deployStream, statusStream, faults,
                 renterVars, providerVars>>

\* The connection under a deploy stream is lost.
StreamReset(r) ==
  /\ Fault
  /\ stream[r] = "open"
  /\ stream' = [stream EXCEPT ![r] = "reset"]
  /\ UNCHANGED <<deploys, requestVars, payload, answer, statusStream,
                 renterVars, providerVars>>

\* A request on a stream that broke may or may not still reach the handler.
RequestLost(r) ==
  /\ stream[r] = "reset"
  /\ payload[r] = "sent"
  /\ handler[r] = "idle"
  /\ payload' = [payload EXCEPT ![r] = "lost"]
  /\ UNCHANGED <<deploys, requestVars, stream, answer, statusStream, faults,
                 renterVars, providerVars>>

\* Node n stops and starts again: its log, its calls and pollers, its
\* handlers and its connections are gone; docker and the disk are not.
Crash(n) ==
  /\ Fault
  /\ deploys' = [deploys EXCEPT ![n] = <<>>]
  /\ call' = [r \in Request |->
       IF Source[r] = n /\ call[r] \in Calling THEN "crashed" ELSE call[r]]
  /\ poller' = [r \in Request |->
       IF Source[r] = n /\ poller[r] = "polling" THEN "done" ELSE poller[r]]
  /\ handler' = [r \in Request |->
       IF Target[r] = n /\ handler[r] \in Handling THEN "crashed" ELSE handler[r]]
  /\ stream' = [r \in Request |->
       IF n \in {Source[r], Target[r]} /\ stream[r] = "open" THEN "reset" ELSE stream[r]]
  /\ payload' = [r \in Request |->
       IF Target[r] = n /\ handler[r] = "idle" /\ payload[r] = "sent" THEN "lost" ELSE payload[r]]
  /\ query' = [r \in Request |->
       IF Source[r] = n \/ (Target[r] = n /\ query[r] = "asked") THEN "idle" ELSE query[r]]
  /\ reply' = [r \in Request |-> IF Source[r] = n THEN {} ELSE reply[r]]
  /\ UNCHANGED <<requestVars, answer, verdict, stop, childVars, result, hostVars>>

-----------------------------------------------------------------------------
Step(r) ==
  \/ RenterStep(r) /\ UNCHANGED providerVars
  \/ ProviderStep(r) /\ UNCHANGED renterVars

Next ==
  \/ \E r \in Request : Step(r) \/ StreamReset(r) \/ RequestLost(r)
  \/ \E n \in Node : Crash(n)
  \/ Tick

Spec == Init /\ [][Next]_vars

\* A runnable goroutine of r is scheduled and a call into the network or
\* docker returns; a user need not submit, and no fault need happen.
GoroutineFairness(r) ==
  /\ WF_vars(CallStep(r) /\ UNCHANGED providerVars)
  /\ WF_vars(PollStep(r) /\ UNCHANGED providerVars)
  /\ WF_vars(AnswerStatus(r) /\ UNCHANGED renterVars)
  /\ WF_vars(HandlerStep(r) /\ UNCHANGED renterVars)
  /\ WF_vars(ReaderPush(r) /\ UNCHANGED renterVars)

\* The job of r ends: nothing in the program makes it.
JobEnds(r) == WF_vars(ChildExits(r) /\ UNCHANGED renterVars)

Fairness(r) == GoroutineFairness(r) /\ JobEnds(r)

FairSpec == Spec /\ \A r \in Request : Fairness(r)

-----------------------------------------------------------------------------
(* Properties. *)

\* r has been submitted, and no other submitted request has its key.
Alone(r) ==
  /\ requestedAt[r] # 0
  /\ \A s \in Request \ {r} : DeployEventKey(s) # DeployEventKey(r)

\* What node n's log says of r.
View(n, r) == EntriesFor(deploys[n], DeployEventKey(r))

\* The order in which the states of one deployment are reached.
Rank(event) ==
  CASE event.status = "sent" -> 0
    [] event.status = "received" -> 1
    [] event.status = "running" -> 2
    [] OTHER -> 3

AtLeast(later, earlier) ==
  /\ Rank(later) >= Rank(earlier)
  /\ later.lines >= earlier.lines
  /\ earlier.files => later.files
  /\ Rank(earlier) = 3 => later.status = earlier.status

\* No log ever holds two events with one key, nor more events than it may:
\* every writer goes through upsertDeployEvent.
OneEventPerKey == \A n \in Node : WellFormed(deploys[n])

\* While the handler, its output reader, the renter's poller and the final
\* record all write the entry of one deployment, in either log, the entry
\* never goes back: not to an earlier status, not to less output, not from
\* one outcome to the other, and the saved artifacts never disappear.
EntriesOnlyAdvance ==
  [][\A n \in Node, r \in Request :
       Alone(r) /\ Alone(r)' =>
         \A before \in View(n, r), after \in View(n, r)' : AtLeast(after, before)]_vars

\* The renter's copy of a deployment is never ahead of the provider's entry
\* it is copied from, however late the copies arrive.
CopyNeverLeads ==
  \A r \in Request :
    Alone(r) =>
      \A mine \in View(Source[r], r), theirs \in View(Target[r], r) :
        Rank(mine) <= Rank(theirs) /\ mine.lines <= theirs.lines

\* A terminal event repeats a result that exists.
Justified(event) ==
  event.status \in Terminal =>
    \E r \in Request :
      /\ DeployEventKey(r) = event.key
      /\ \E a \in result[r] : a.status = event.status /\ a.lines = event.lines

\* A log says success or failed only if a deployment with that key did end
\* so, with that much output.
TerminalIsTrue == \A n \in Node : \A event \in EventsOf(deploys[n]) : Justified(event)

\* Once the HTTP call has returned an outcome, no poller of it is left and
\* the renter's log, as long as it has the entry, shows that outcome and the
\* artifacts that came with it.  An answer that came to its end is lost,
\* recorded nowhere and told as an error, only if artifacts came with it,
\* which may not fit among the renter's files, or if it is too long.
ReturnedIsRecorded ==
  \A r \in Request :
    call[r] = "returned" =>
      /\ poller[r] # "polling"
      /\ Alone(r) /\ verdict[r] \in Terminal =>
           \A event \in View(Source[r], r) :
             /\ event.status = verdict[r]
             /\ \E a \in answer[r] : event.files = a.files
      /\ verdict[r] = "error" /\ stream[r] = "eof" =>
           \E a \in answer[r] : a.files \/ a.oversize

\* docker holds nothing of r's project that r alone could account for.
ContainersGone(r) ==
  \/ containers[Place(r)] = "none"
  \/ \E s \in Request \ {r} : Place(s) = Place(r) /\ child[s] # "none"

\* An outcome reaches the user only after the provider's handler is through,
\* clean-up included; and unless that clean-up complained, nothing of a run
\* is left: no directory, and no containers unless another deployment of the
\* same project put them there.
AnsweredMeansCleaned ==
  \A r \in Request :
    verdict[r] \in Terminal =>
      /\ handler[r] = "done"
      /\ child[r] # "none" /\ r \notin cleanupFailed =>
           r \notin dirs /\ ContainersGone(r)

\* A directory outlives its handler only if preparation failed, the response
\* could not be delivered, or the clean-up complained: whatever becomes of
\* the renter, its call and its log.
LeftoversExplained ==
  \A r \in Request :
    handler[r] = "done" /\ r \in dirs =>
      \/ child[r] = "none"
      \/ answer[r] = {} \/ \E a \in answer[r] : a.oversize
      \/ r \in cleanupFailed

\* While `compose up` runs, its containers are there, unless another
\* deployment of the same project on that node has ended or cleaned up.
OnlyNeighboursInterfere ==
  \A r \in Request :
    child[r] = "running" /\ containers[Place(r)] # "up" =>
      \E s \in Request \ {r} : Place(s) = Place(r) /\ child[s] \in Terminal

\* A deployment reported as a success is up on its provider: README.md:93
\* gives the provider's command as `docker compose ... up -d --build`.
DeployedStaysUp ==
  \A r \in Request : verdict[r] = "success" => containers[Place(r)] = "up"

\* An entry whose text is "Renter sent deployment request and is waiting for
\* provider status." (p2p.go:146) belongs to a call that is still going on.
SentMeansWaiting ==
  \A r \in Request : \A event \in View(Source[r], r) :
    event.status = "sent" => \E s \in Request :
      DeployEventKey(s) = event.key /\ call[s] # "returned"

\* What the provider is doing about r, as a user would put it.
JobOf(r) ==
  CASE handler[r] = "idle" -> "none"
    [] handler[r] = "done" -> "closed"
    [] handler[r] = "crashed" -> "lost"
    [] OTHER -> "active"

\* The outcome r's handler has come to.
OutcomeOf(r) == IF result[r] = {} THEN "none" ELSE (CHOOSE a \in result[r] : TRUE).status

Contract == INSTANCE DeployContract WITH
  job <- [r \in Request |-> JobOf(r)],
  outcome <- [r \in Request |-> OutcomeOf(r)],
  told <- verdict

\* Deployments keep the promises of DeployContract.
KeepsContract == Contract!Spec

-----------------------------------------------------------------------------
(* The inductive invariant behind OneEventPerKey, TerminalIsTrue,            *)
(* AnsweredMeansCleaned and KeepsContract.                                   *)

\* Only a request that was submitted and stamped is anywhere in the system.
Stamped(r) ==
  /\ call[r] = "idle" =>
       /\ poller[r] = "none" /\ payload[r] = "none"
       /\ query[r] = "idle" /\ reply[r] = {} /\ requestedAt[r] = 0
  /\ call[r] \in Calling \/ poller[r] # "none" \/ payload[r] # "none" => requestedAt[r] # 0
  /\ handler[r] # "idle" => payload[r] # "none"
  /\ child[r] # "none" => handler[r] # "idle"
  /\ printed[r] > 0 => child[r] # "none"

\* The handler has its one result from "responding" on, and what it writes
\* to the stream is that result.
ResultFlow(r) ==
  /\ result[r] = {} \/ \E a \in Answer : result[r] = {a}
  /\ handler[r] \in {"idle", "checking", "preparing", "starting", "running"} => result[r] = {}
  /\ handler[r] \in {"responding", "down", "removing", "done"} => result[r] # {}
  /\ answer[r] # {} =>
       answer[r] = result[r] /\ handler[r] \in {"down", "removing", "done", "crashed"}
  /\ stream[r] = "eof" => handler[r] = "done"

\* An answer that is read to its end is the result of a handler that is
\* through, and is what the user gets.
VerdictFlow(r) ==
  /\ call[r] = "joining" =>
       handler[r] = "done" /\ answer[r] # {} /\ \A a \in answer[r] : ~a.oversize
  /\ call[r] # "returned" => verdict[r] = "none"
  /\ verdict[r] \in Terminal =>
       /\ handler[r] = "done" /\ answer[r] # {}
       /\ \A a \in answer[r] : ~a.oversize /\ a.status = verdict[r]

\* How far the clean-up of a run has come.
CleanedUp(r) ==
  child[r] # "none" /\ r \notin cleanupFailed =>
    /\ handler[r] = "removing" => ContainersGone(r)
    /\ handler[r] = "done" /\ answer[r] # {} /\ (\A a \in answer[r] : ~a.oversize) =>
         r \notin dirs /\ ContainersGone(r)

\* Neither a log nor a reply in flight holds an unfounded outcome.
EventsJustified ==
  /\ \A n \in Node : \A event \in EventsOf(deploys[n]) : Justified(event)
  /\ \A r \in Request : \A event \in reply[r] :
       event.key = DeployEventKey(r) /\ Justified(event)

IInv ==
  /\ TypeOK
  /\ \A r \in Request : Stamped(r)
  /\ \A r \in Request : ResultFlow(r)
  /\ \A r \in Request : VerdictFlow(r)
  /\ \A r \in Request : CleanedUp(r)
  /\ EventsJustified
  /\ OneEventPerKey

-----------------------------------------------------------------------------
(* Liveness. *)

\* Every deployment that was submitted returns to its user, whatever fails,
\* provided jobs end.
CallsReturn == \A r \in Request : call[r] = "dialing" ~> call[r] \in {"returned", "crashed"}

\* It needs nobody else for that: a deployment returns although others hang,
\* because their jobs never end (`up` runs without -d, docker.go:279) or
\* their peers have fallen silent (no stream has a deadline, p2p.go:224).
ReturnsAlone ==
  \A r \in Request :
    Fairness(r) => (call[r] = "dialing" ~> call[r] \in {"returned", "crashed"})

\* What the provider started to report it reports to the end: its entry for
\* a deployment ends up terminal, or is gone (evicted, or the node crashed).
ProviderSettles ==
  \A r \in Request :
    handler[r] = "checking" ~>
      \A event \in View(Target[r], r) : event.status \in Terminal \/ ~Alone(r)
=============================================================================
