------------------------------ MODULE AppState ------------------------------
(***************************************************************************)
(* What the two sides of a deployment share: the nodes with their          *)
(* deployment logs, the requests users submit, and the libp2p streams that *)
(* carry a request, its answer, and the status queries made meanwhile.     *)
(***************************************************************************)
EXTENDS EventLog

CONSTANTS
  Node,        \* running copies of the program
  Request,     \* deployments a user may submit, once each
  Source,      \* Source[r]: the node whose Web UI submits r (the renter)
  Target,      \* Target[r]: the node r is sent to (the provider)
  Bundle,      \* Bundle[r]: archive name and project name as typed by the user
  Project,     \* Project[r]: the compose project they normalise to
  MaxSecond,   \* bound: the clock stops at this second
  MaxLines,    \* bound: lines one docker command prints
  MaxFaults    \* bound: how many things go wrong in one behaviour

ASSUME RequestAssumption ==
  /\ Source \in [Request -> Node]
  /\ Target \in [Request -> Node]
  /\ \A r \in Request : Source[r] # Target[r]  \* a node is no peer of its own
  /\ \A r, s \in Request : Bundle[r] = Bundle[s] => Project[r] = Project[s]

ASSUME BoundAssumption ==
  MaxSecond \in Nat \ {0} /\ MaxLines \in Nat /\ MaxFaults \in Nat

VARIABLES
  deploys,      \* deploys[n]: the deployment log of node n
  clock,        \* the current second: RequestedAt has no finer resolution
  requestedAt,  \* requestedAt[r]: the second in which r was submitted, or 0
  stream,       \* stream[r]: the deploy stream of r, as its renter sees it
  payload,      \* payload[r]: where the bytes of the request are
  answer,       \* answer[r]: at most one deployResponse, once written
  query,        \* query[r]: the status query of r's poller
  reply,        \* reply[r]: the event an answered query carries, if found
  faults        \* how many things have gone wrong

requestVars == <<clock, requestedAt>>
deployStream == <<stream, payload, answer>>
statusStream == <<query, reply>>
sharedVars == <<deploys, requestVars, deployStream, statusStream>>

Terminal == {"success", "failed"}
Status == {"sent", "received", "running"} \cup Terminal
Second == 1 .. MaxSecond

\* A slip: the bundle is left out of the key.
DeployEventKeyWithoutBundle(r) == <<requestedAt[r], Source[r]>>

\* RequestedAt, source peer and bundle: neither the target nor anything
\* finer than a second tells two requests apart.
DeployEventKey(r) == <<requestedAt[r], Source[r], Bundle[r]>>

Key == {<<t, Source[r], Bundle[r]>> : t \in Second, r \in Request}

\* A log entry; lines is how much command output it shows, files whether it
\* lists saved artifacts.
Event == [key : Key, status : Status, lines : 0 .. MaxLines, files : BOOLEAN]

\* A deployResponse: oversize when it is longer than the 32 MiB the renter
\* is willing to read.
Answer == [status : Terminal, lines : 0 .. MaxLines, files : BOOLEAN, oversize : BOOLEAN]

\* The entry for r with the given content.
EventOf(r, status, lines, files) ==
  [key |-> DeployEventKey(r), status |-> status, lines |-> lines, files |-> files]

\* Something outside the deployed job goes wrong: a file, a connection, a
\* docker command, a node.
Fault == faults < MaxFaults /\ faults' = faults + 1

\* One call of upsertDeployEvent on node n.
Post(n, event) == deploys' = [deploys EXCEPT ![n] = UpsertDeployEvent(@, event)]

SharedTypeOK ==
  /\ deploys \in [Node -> Seq(Event)]
  /\ clock \in Second
  /\ requestedAt \in [Request -> 0 .. MaxSecond]
  /\ stream \in [Request -> {"none", "open", "eof", "reset"}]
  /\ payload \in [Request -> {"none", "sent", "lost"}]
  /\ answer \in [Request -> SUBSET Answer]
  /\ query \in [Request -> {"idle", "asked", "answered"}]
  /\ reply \in [Request -> SUBSET Event]
  /\ faults \in 0 .. MaxFaults

SharedInit ==
  /\ deploys = [n \in Node |-> <<>>]
  /\ clock = 1
  /\ requestedAt = [r \in Request |-> 0]
  /\ stream = [r \in Request |-> "none"]
  /\ payload = [r \in Request |-> "none"]
  /\ answer = [r \in Request |-> {}]
  /\ query = [r \in Request |-> "idle"]
  /\ reply = [r \in Request |-> {}]
  /\ faults = 0
=============================================================================
