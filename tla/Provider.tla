------------------------------ MODULE Provider ------------------------------
(***************************************************************************)
(* The provider's side of a deployment: handleDeployRequest and, inside    *)
(* it, executeDeploy, the docker compose child process with the goroutine  *)
(* that reads its output (runCommandStreaming), and the final clean-up;    *)
(* and the handler of the status queries renters send meanwhile.  Docker   *)
(* is external: what `compose up` and `compose down` do to the containers  *)
(* of a project is modelled from how the code uses them.                   *)
(***************************************************************************)
EXTENDS AppState

VARIABLES
  handler,       \* handler[r]: how far the stream handler of r is
  child,         \* child[r]: the `docker compose up` process of r
  printed,       \* printed[r]: lines the process has written to the pipe
  shown,         \* shown[r]: lines the reader goroutine has posted
  result,        \* result[r]: what executeDeploy returned, at most one
  dirs,          \* requests whose directory under deployments/ exists
  containers,    \* containers[p]: what docker holds for project p of a node
  cleanupFailed  \* requests whose clean-up reported an error

childVars == <<child, printed, shown>>
hostVars == <<dirs, containers, cleanupFailed>>
providerVars == <<handler, childVars, result, hostVars>>

\* docker compose -p <project> on one node: shared by all its deployments.
Place(r) == <<Target[r], Project[r]>>
Places == {Place(r) : r \in Request}

Handling == {"checking", "preparing", "starting", "running", "responding", "down", "removing"}

ProviderTypeOK ==
  /\ handler \in [Request -> Handling \cup {"idle", "done", "crashed"}]
  /\ child \in [Request -> {"none", "running"} \cup Terminal]
  /\ printed \in [Request -> 0 .. MaxLines]
  /\ shown \in [Request -> 0 .. MaxLines]
  /\ result \in [Request -> SUBSET Answer]
  /\ dirs \subseteq Request
  /\ containers \in [Places -> {"none", "up", "exited"}]
  /\ cleanupFailed \subseteq Request

ProviderInit ==
  /\ handler = [r \in Request |-> "idle"]
  /\ child = [r \in Request |-> "none"]
  /\ printed = [r \in Request |-> 0]
  /\ shown = [r \in Request |-> 0]
  /\ result = [r \in Request |-> {}]
  /\ dirs = {}
  /\ containers = [p \in Places |-> "none"]
  /\ cleanupFailed = {}

\* A slip: a provider handles one deployment at a time.
GotoAlone(r, from, to) ==
  /\ handler[r] = from /\ handler' = [handler EXCEPT ![r] = to]
  /\ \A s \in Request \ {r} : handler[s] \notin Handling

\* The handler of r goes from one point of its code to another.
Goto(r, from, to) == handler[r] = from /\ handler' = [handler EXCEPT ![r] = to]

\* The whole request has been read: it is logged before anything is checked.
Receive(r) ==
  /\ payload[r] = "sent"
  /\ Goto(r, "idle", "checking")
  /\ Post(Target[r], EventOf(r, "received", 0, FALSE))
  /\ UNCHANGED <<requestVars, deployStream, statusStream, faults, childVars, result, hostVars>>

\* The closure `fail`: the reason is logged and becomes the response.  The
\* result names no compose files, so no clean-up will follow.
Fail(r) ==
  /\ Post(Target[r], EventOf(r, "failed", 0, FALSE))
  /\ result' = [result EXCEPT ![r] =
       {[status |-> "failed", lines |-> 0, files |-> FALSE, oversize |-> FALSE]}]
  /\ Fault
  /\ UNCHANGED <<requestVars, deployStream, statusStream, childVars, hostVars>>

\* Deployment is disabled here, or the request or its paths are unusable.
Reject(r) == Goto(r, "checking", "responding") /\ Fail(r)

\* os.MkdirTemp: a directory of this request's own.
MakeDir(r) ==
  /\ Goto(r, "checking", "preparing")
  /\ dirs' = dirs \cup {r}
  /\ UNCHANGED <<sharedVars, faults, childVars, result, containers, cleanupFailed>>

\* Unpacking, the compose file, docker itself or the runtime override fails:
\* the directory stays.
PrepareFails(r) == Goto(r, "preparing", "responding") /\ Fail(r)

\* Everything is in place and the start is logged.
Prepare(r) ==
  /\ Goto(r, "preparing", "starting")
  /\ Post(Target[r], EventOf(r, "running", 0, FALSE))
  /\ UNCHANGED <<requestVars, deployStream, statusStream, faults, childVars, result, hostVars>>

StartFails(r) ==
  /\ Goto(r, "starting", "running")
  /\ child' = [child EXCEPT ![r] = "failed"]
  /\ Fault
  /\ UNCHANGED <<sharedVars, printed, shown, result, hostVars>>

\* `compose up` is running and creates the containers of the project, or
\* takes over those another deployment of the same project left there.
Start(r) ==
  /\ Goto(r, "starting", "running")
  /\ child' = [child EXCEPT ![r] = "running"]
  /\ containers' = [containers EXCEPT ![Place(r)] = "up"]
  /\ UNCHANGED <<sharedVars, faults, printed, shown, result, dirs, cleanupFailed>>

ChildPrints(r) ==
  /\ handler[r] # "crashed"
  /\ child[r] = "running"
  /\ printed[r] < MaxLines
  /\ printed' = [printed EXCEPT ![r] = @ + 1]
  /\ UNCHANGED <<sharedVars, faults, handler, child, shown, result, hostVars>>

\* The reader goroutine posts what it has read so far.  It may lag behind
\* the process, and go on after it has exited.
ReaderPush(r) ==
  /\ handler[r] # "crashed"
  /\ shown[r] < printed[r]
  /\ shown' = [shown EXCEPT ![r] = @ + 1]
  /\ Post(Target[r], EventOf(r, "running", shown'[r], FALSE))
  /\ UNCHANGED <<requestVars, deployStream, statusStream, faults, handler, child, printed, result, hostVars>>

\* `compose up --abort-on-container-exit` ends: because a container did, or
\* because the containers were taken away.  It stops those of the project.
\* The process survives a crash of the node that started it.
ChildExits(r) ==
  /\ child[r] = "running"
  /\ \E status \in Terminal : child' = [child EXCEPT ![r] = status]
  /\ containers' = [containers EXCEPT ![Place(r)] = IF @ = "up" THEN "exited" ELSE @]
  /\ UNCHANGED <<sharedVars, faults, handler, printed, shown, result, dirs, cleanupFailed>>

\* Slips: command.Wait() or <-done is left out.
OutputRead(r) == shown[r] = printed[r]
ProcessExited(r) == child[r] \in Terminal

\* command.Wait(), then <-done: the process has exited and the reader has
\* posted all it wrote.
CommandOver(r) == child[r] \in Terminal /\ shown[r] = printed[r]

\* Slips: the last event is not posted, or does not know of the artifacts.
OutcomeNotPosted(r, a) == UNCHANGED deploys
PostExitStatus(r, a) == Post(Target[r], EventOf(r, child[r], a.lines, FALSE))

\* The last event of executeDeploy; it never lists artifacts.
PostOutcome(r, a) == Post(Target[r], EventOf(r, a.status, a.lines, FALSE))

\* Missing artifacts turn success into failure.  The message of a failed
\* command repeats all of its output, which no limit trims.
Finish(r) ==
  /\ Goto(r, "running", "responding")
  /\ CommandOver(r)
  /\ \E a \in Answer, collected \in BOOLEAN :
       /\ a.status = IF child[r] = "success" /\ collected THEN "success" ELSE "failed"
       /\ a.lines = shown[r]
       /\ a.files => collected
       /\ a.oversize => child[r] = "failed" /\ collected /\ shown[r] > 0
       /\ PostOutcome(r, a)
       /\ result' = [result EXCEPT ![r] = {a}]
  /\ UNCHANGED <<requestVars, deployStream, statusStream, faults, childVars, hostVars>>

\* `defer s.Close()`: only now does the renter see the end of the answer.
CloseStream(r) == stream' = [stream EXCEPT ![r] = IF @ = "open" THEN "eof" ELSE @]

\* The response is written; clean-up follows if compose files are known.
Respond(r) ==
  /\ child[r] # "none"
  /\ Goto(r, "responding", "down")
  /\ answer' = [answer EXCEPT ![r] = result[r]]
  /\ UNCHANGED <<deploys, requestVars, stream, payload, statusStream, faults, childVars, result, hostVars>>

\* The response is written and the clean-up has nothing to work on.
RespondOnly(r) ==
  /\ child[r] = "none"
  /\ Goto(r, "responding", "done")
  /\ answer' = [answer EXCEPT ![r] = result[r]]
  /\ CloseStream(r)
  /\ UNCHANGED <<deploys, requestVars, payload, statusStream, faults, childVars, result, hostVars>>

\* The renter is gone, or stopped reading at 32 MiB: the handler returns
\* and leaves directory and containers behind.
RespondFails(r) ==
  /\ Goto(r, "responding", "done")
  /\ \/ stream[r] = "reset" /\ answer' = answer
     \/ stream[r] = "open" /\ (\E a \in result[r] : a.oversize)
        /\ answer' = [answer EXCEPT ![r] = result[r]]
  /\ CloseStream(r)
  /\ UNCHANGED <<deploys, requestVars, payload, statusStream, faults, childVars, result, hostVars>>

\* A slip: a clean-up error is swallowed.
SwallowProblem(r) == UNCHANGED cleanupFailed

\* The problem becomes part of the error cleanupDockerDeployment returns.
ReportProblem(r) == cleanupFailed' = cleanupFailed \cup {r}

\* `compose down` takes everything of the project away, whoever uses it.
Down(r) ==
  /\ Goto(r, "down", "removing")
  /\ containers' = [containers EXCEPT ![Place(r)] = "none"]
  /\ UNCHANGED <<sharedVars, faults, childVars, result, dirs, cleanupFailed>>

DownFails(r) ==
  /\ Goto(r, "down", "removing")
  /\ ReportProblem(r)
  /\ Fault
  /\ UNCHANGED <<sharedVars, childVars, result, dirs, containers>>

\* The directory is removed whether or not `compose down` worked, and the
\* handler returns.
RemoveDir(r) ==
  /\ Goto(r, "removing", "done")
  /\ dirs' = dirs \ {r}
  /\ CloseStream(r)
  /\ UNCHANGED <<deploys, requestVars, payload, answer, statusStream, faults, childVars, result, containers, cleanupFailed>>

RemoveDirFails(r) ==
  /\ Goto(r, "removing", "done")
  /\ ReportProblem(r)
  /\ CloseStream(r)
  /\ Fault
  /\ UNCHANGED <<deploys, requestVars, payload, answer, statusStream, childVars, result, dirs, containers>>

\* A status query is answered from the log, whatever the handler is doing.
\* (A reply that finds nothing changes nothing: PollFails covers it.)
AnswerStatus(r) ==
  /\ query[r] = "asked"
  /\ GetDeployEventByKey(deploys[Target[r]], DeployEventKey(r)) # {}
  /\ query' = [query EXCEPT ![r] = "answered"]
  /\ reply' = [reply EXCEPT ![r] = GetDeployEventByKey(deploys[Target[r]], DeployEventKey(r))]
  /\ UNCHANGED <<deploys, requestVars, deployStream, faults, providerVars>>

\* Steps of the handler that wait for nothing outside the program's control
\* but docker commands that end by themselves.
HandlerStep(r) ==
  \/ Receive(r) \/ Reject(r) \/ MakeDir(r) \/ PrepareFails(r) \/ Prepare(r)
  \/ StartFails(r) \/ Start(r) \/ Finish(r)
  \/ Respond(r) \/ RespondOnly(r) \/ RespondFails(r)
  \/ Down(r) \/ DownFails(r) \/ RemoveDir(r) \/ RemoveDirFails(r)

ChildStep(r) == ChildPrints(r) \/ ChildExits(r)

ProviderStep(r) == HandlerStep(r) \/ ChildStep(r) \/ ReaderPush(r) \/ AnswerStatus(r)
=============================================================================
