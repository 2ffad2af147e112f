# GPUSharingP2Ptest in TLA+

This directory specifies the program in `src/`: a Go/libp2p tool whose nodes
find each other and deploy Docker Compose bundles on one another. A node plays
two roles at once. As a *renter* it takes a bundle from its Web UI and sends it
to another node; as a *provider* it unpacks what it is sent, runs
`docker compose up`, returns output and artifacts, and cleans up.

All paths below are relative to `src/internal/app/`.

## 1. The system

| Component | State | Operations | Talks to |
|---|---|---|---|
| Deployment log (`state.go`, `types.go`) | `state.deploys`: at most 20 events, newest first, under `state.mu` | `upsertDeployEvent`, `getDeployEventByKey`, `firstDeploys` | written by the four goroutines below, read by status queries and the state page |
| Renter (`p2p.go:109-288`) | one call of `sendDeployBundle` per HTTP request, one polling goroutine, two channels | log `sent`, dial, write, poll, read the answer, save artifacts, record | deploy stream and status streams to a provider; own log |
| Provider (`p2p.go:39-107`, `docker.go`) | one stream handler per request, its child process, the goroutine reading its output, `deployments/`, docker | log `received`, reject, unpack, start, stream output, log the outcome, respond, clean up; answer status queries | own log; docker; the renter's streams |
| Peer table and discovery (`discovery.go`, `mdns.go`, `dht.go`, `p2p.go:290-347`, `state.go:47-62`) | `state.peers` with source and time of the last sighting | announce and listen (LAN), fetch peer info (mDNS, DHT), remove after a failed fetch, prune on display | other nodes; read by `sendDeployBundle` |
| Web API, bundle store (`web.go`, `files.go`) | `bundles/`, `artifacts/`, the node's name | upload, remove, list, rename, deploy, download | the renter; the browser |
| Web UI (`ui.go`) | selected bundle, one view (paused, frozen, text) per deployment | poll the state page, pause and resume a log, deploy | Web API |
| Preparation (`docker.go:52-148`, `228-375`, `500-571`, `636-815`) | the deployment directory until docker gets it | check, unpack, look up the compose file, check prerequisites, write the runtime override, build command lines | provider; docker, WSL |
| Artifacts (`docker.go:573-634`, `files.go:78-110`) | files of one deployment, `artifacts/` | unpack, collect, save | provider, renter |
| Identity (`identity.go`) | one key file, by default shared by all nodes of a machine | read or create | start-up |
| Configuration, NAT, start-up (`config.go`, `nat.go`, `dht.go`, `run.go`) | `.env` and the environment, the static peers | parse, build options, dial, wire | everything, once |

**What is hard.** Everything that happens to one deployment is written by up to
four goroutines on two nodes: the provider's handler and its output reader, the
renter's call and its poller. The poller applies an answer some time after it
was given. The answer travels on a stream that ends only when the provider's
handler returns, which is after clean-up. Nothing of this is persisted, docker and
the disk outlive the process, streams break, requests of one second share a key,
deployments of one project name share their containers and the directory of
their artifacts, and the log evicts. Files are written by `os.WriteFile`, which
empties them first, without a lock and without a temporary name: bundles,
artifacts and the key file can be met half-written, by another request, another
process, or the next start.
`PROJECT.json` lists these hazards at their lines, with the properties that
would catch each of them going wrong.

**What makes the components correct.**

- *Log*: one event per key, within the limit, whoever writes.
- *Renter*: what the user is told is the provider's own result; it is recorded
  and stays recorded, since no poller is left to overwrite it; a call that was
  started returns.
- *Provider*: entries only advance; a terminal entry is true and final; a
  finished deployment leaves nothing behind unless something reported why.
- *Peer table*: what it says of a peer was true when it says so; an entry
  outlives its lifetime only while nobody looks; a failed fetch removes only what
  its own mechanism had seen; a peer that is gone is forgotten.
- *Bundle store*: a deployment sends one upload, all of it; an upload that stops
  half-way has stored a beginning of its files.
- *Preparation*: docker is started on what came of the archive and nothing else, with
  files that exist where docker runs and go on existing until the clean-up.
- *Artifacts*: all that was asked for is returned, or nothing; what an entry lists
  is what that deployment returned; what nobody lists has an explanation.
- *Start-up*: nodes on one key file have one identity; a key file is never
  replaced; the shell's environment prevails; every static peer is dialled.
- *Log views*: an open page shows the end of a deployment in the end, and does
  not take it back when an older state arrives late.

## 2. Modules

| Module | What it models |
|---|---|
| `EventLog` | The log of a node as a sequence, and the functions of `state.go` on it. Each call holds `state.mu` throughout, so each is one operator. |
| `AppState` | Nodes, requests (who deploys what to whom), keys, events, answers, and the variables both sides touch: the logs, the second hand of the clock, the deploy stream with its payload and answer, the status query and its reply. |
| `Renter` | `sendDeployBundle`, `recordDeployResult`, `pollRemoteDeployStatus`. `call[r]` is the point the call has reached, `poller[r]` the goroutine, `stop[r]` and `poller[r] = "done"` the two channels, `verdict[r]` what was returned. |
| `Provider` | `handleDeployRequest`, `executeDeploy`, `runCommandStreaming`, `cleanupDockerDeployment`, `newDeployStatusHandler`. `handler[r]` is the point the handler has reached, `child[r]` the `compose up` process, `printed[r]`/`shown[r]` its output and what was posted of it, `dirs` and `containers` what is on disk and in docker. |
| `DeployContract` | The abstract specification: a provider accepts a request at most once, settles on one outcome, and finishes; a user is told once, and an outcome only if it is the provider's and the provider has finished. |
| `Deploy` | Renter and provider together with streams that break, requests lost on them, and nodes that crash and restart; all properties; the refinement mapping to `DeployContract`. |
| `PeerTable` | One node's table of peers. `table[p]` is the entry of `p`, `announced` the LAN packets under way, `fetch[f]` the fetch that the mDNS goroutine or the DHT loop `f` is busy with; `running` and `lastRan` are the truth about the peers, which the node does not see. |
| `LogView` | The deployments on one open page. `drawn` stands for `lastDeploymentsSignature` and the DOM it was drawn with, `view[d]` for `logViews`, `box[d]` for the text shown; `asked` and `answer[l]` are the loads under way, and `log` is what the node would answer. |
| `FileData` | What a file holds while writes overlap. |
| `FileTree` | Paths as sequences of segments: `filepath.Clean` and `Join`, `safeRelativePath`/`safeArchivePath`, and what `os.MkdirAll` and `os.WriteFile` need. |
| `BundleStore` | `POST` and `DELETE /api/bundles`, `readBundleFile`. `entry[n]` is the file a name leads to, `data[f]` what it holds; `upload[u]`, `pos[u]`, `fd[u]` are the handler of an upload; `read[d]`, `handle[d]`, `got[d]` a deployment that reads. |
| `Preparation` | `executeDeploy` up to `docker compose up`: `stage[d]` is the point it has reached, `files[d]` and `dirs[d]` the deployment directory, `entry[d]` the archive entry that comes next, `issued[d]` the docker commands. `given[d]` is what was deployed, and on what host. |
| `Artifacts` | `Preparation`, then the job's files, `collectArtifacts`, the clean-up, and `saveReturnedArtifacts` on the renter: `answer[d]` is what is returned, `disk` and `diskDirs` are `artifacts/`, `listed[d]` the artifacts in the log entry. |
| `StartUp` | `Run` for several processes on a machine: `loadDotEnv`, `loadOrCreatePrivateKey`, `libp2pOptions`, `connectToStaticPeers`, the mode of the DHT, the port of the Web UI. `at[p]` is the point it has reached, `file[path]` what a key file holds. |
| `MCDeploy`, `MCPeerTable`, `MCLogView`, `MCBundleStore`, `MCArtifacts`, `MCStartUp` | The instances the runs check. |
| `DeployProofs`, `DeployOutcomeProofs`, `PeerTableProofs`, `LogViewProofs`, `BundleStoreProofs`, `ArtifactsProofs`, `StartUpProofs` | The proofs (section 5). |
| `FoldProofs` | Lemmas about loops over sequences of any length, for `ArtifactsProofs` and `StartUpProofs`. |

**Grain.** One action is what a goroutine does between two points at which
another can see or change something: a call that takes `state.mu`, a channel
operation, a stream operation, a docker command, a file operation. So posting
the `sent` entry and dialling are two actions, and saving artifacts and
recording the result, which nothing of the model can get between, are one.

**Data.** An event keeps its key, its status, how much command output it shows
and whether it lists saved artifacts; an answer also whether it exceeds the
32 MiB the renter reads (`p2p.go:170`). Names, texts and files are left out. A
request's `Bundle` stands for the archive name and the project name as typed,
which are part of the key; its `Project` for what `safeProjectName` makes of
them, which docker sees. Two bundles may have one project (`a.zip`, `A.tar`).

A file is a set of pieces, each with its position and its writer, so that a file
two writers met in shows what is whose. An archive is the sequence of the entries that arrived, each with a
path, a kind and a content, and how it ends (whole, between two entries, within one); of a content the model keeps an identity and, for a
compose file, whether it parses and its services. Which names become which project
or file name (`Normal`, `SafeName`) is given for the names of an instance. Settings
are strings with the values the code compares them with.

Three modules have history variables, which no action reads: `spoiled` and
`blurred` (`BundleStore`) mark files that two writes met in or one failed on, and
readers that met a write; `used` and `raced` (`StartUp`) the keys nodes had from a
file, and files that two processes found missing.

**Reading an answer.** `io.ReadAll` ends with the stream, and the provider's
`defer s.Close()` ends it when its handler returns: `ReadAnswer` needs the
stream at its end (`"eof"`), or an answer that reaches the limit.

**Failures.** `Fault` counts everything that goes wrong apart from the deployed
job itself (files, docker commands, connections, nodes) up to `MaxFaults`. A
failed poll is not counted: it changes nothing, and may happen at any time. A job
that fails, and artifacts that are missing, are ordinary outcomes.
A crash empties the node's log, ends its calls, pollers, handlers and
connections, and leaves `deployments/`, docker and a running `compose up`
alone. A crashed call or handler is never resumed, as in the code.

`CHECK_DEADLOCK` is `FALSE` in the runs of `MCDeploy`: users submit finitely many
requests and the system comes to rest when they are through. The same holds of
`bundles`, `artifacts` and `startup`, whose uploads, deployments and starts are
finitely many. Peer tables and pages never rest, and their runs check for deadlock.

**Files and failures.** `os.WriteFile` is two actions, opening (which creates or
empties) and writing, since others can get between them; a write that fails leaves any
beginning of the data. Unpacking is one action per entry, because an entry that
cannot be stored leaves those before it. Nobody else looks at a deployment directory
while it is prepared, so that what a failed entry leaves of itself is left out.

**Time in `PeerTable`.** Lifetimes matter only in proportion, so that time is a
number of ticks. Entries are stamped on arrival and carry no time of the
sender; `Delay` bounds how old a peer's words can be when they arrive, and the
properties allow for it. A peer may stop, and start again offering something else,
without telling anybody. A fetch may stay without an answer for any number of
ticks: `fetchPeerInfo` connects under a deadline of five seconds but reads
without one.

**How the modules fit.** `Deploy` takes a target as given: `PeerTable` says what is
known of the target `sendDeployBundle` looks up. `LogView` takes the log as
given: it assumes of it what `EntriesOnlyAdvance` says, that events only advance.
`Provider` has one step from `preparing` to `starting` that works or fails, and its
answer has artifacts or not: `Preparation` and `Artifacts` are what is behind that
step and behind the artifacts, file by file; there a deployment is sequential, as in
the code, and deployments meet in `artifacts/`. `BundleStore` ends where the archive
that `Renter` sends has been read. `StartUp` ends where the others begin.

## 3. Runs

| Run | Instance and bounds | Question |
|---|---|---|
| `deploy_one` | one request, 2 lines of output, any 2 faults, fairness | Does one deployment go right and come to its end under every interleaving of its goroutines, whatever breaks? |
| `deploy_twice` | the same bundle twice between the same nodes, in one second or two; log of 2 | What do two deployments with one key do to the log? |
| `deploy_rivals` | two renters, one provider, one project name; log of 1 | What can deployments of one project do to each other? Does one wait for the other? |
| `deploy_mutual` | two nodes deploy to each other; log of 1 | Does it hurt that one log serves both roles and evicts? |
| `deploy_detached` | one request, no faults | README.md:93 says `up -d --build`: is a successful deployment up? It is not. |
| `deploy_waiting` | one request, one fault | Does an entry that says the renter "is waiting" belong to a call that waits? It does not. |
| `peers` | one peer, one mDNS fetch and the DHT's, lifetimes of 1 and 2 ticks, delays up to 1, ages up to 4, fairness | Can announcements and fetches that overtake each other make the table say what was not so? Is a peer that has gone forgotten? |
| `page` | two deployments, two loads, two revisions each, fairness | Can late answers or the user's pauses take back what a page has shown? Does it get to the end of a deployment? |
| `page_resumed` | one deployment, one load, two revisions, fairness | ui.go:330 reports "Log updates resumed": are they? Not always. |
| `bundles` | two uploads of five files under three names (two of which are cleaned to one), one deployment, one removal, any one fault | What does a deployment send, and what does an upload leave, when they overlap? |
| `artifacts` | two deployments of one project, the first in every way a preparation can go, any one fault | Is docker started on what came of the archive and nothing else? Is what a log entry lists what came back? |
| `startup` | two processes on one machine, two starts each, any one fault; eight ways of setting up the first | Who is a node after it was started at once with another, or crashed while it made its key? |

**Properties.** `OneEventPerKey`: no log shows a key twice or exceeds its limit.
`EntriesOnlyAdvance`: an entry of either log never goes back to an earlier
status, to less output, from one outcome to the other, or loses its artifacts.
`CopyNeverLeads`: the renter's entry is never ahead of the provider's.
`TerminalIsTrue`: a terminal entry repeats a result that exists.
`ReturnedIsRecorded`: after the call has returned an outcome, the renter's
entry shows that outcome with its artifacts and nothing is left to change it; and an
answer that came to its end is dropped only if artifacts came with it (saving them may
fail) or if it is too long.
`AnsweredMeansCleaned`: an outcome reaches the user after the provider's
handler is through; then neither directory nor containers are left unless
clean-up reported an error or a deployment of the same project put them there.
`LeftoversExplained`: the three ways in which a directory can stay.
`OnlyNeighboursInterfere`: containers disappear under a running command only
because of another deployment of the same project. `KeepsContract`: the
refinement. `CallsReturn`, `ProviderSettles`: liveness. `ReturnsAlone`: for its
return a deployment needs only its own goroutines and its own job; others may hang.

`EntriesOnlyAdvance` and `CopyNeverLeads` speak of requests whose key is their own
(`Alone`). That is a limit of the program: `deploy_twice` has two deployments
with one key, and there the weaker `OneEventPerKey` and `TerminalIsTrue` remain.

`EntriesWereTrue`: an entry never looks fresher than it is, but for the delay of
messages. `TargetsAreRecent`: a deployment's target is overdue by no more than the
age of the page. `NobodyElsesPeer`: an entry goes only by expiry or by a failed fetch
of its own mechanism. `GoneIsForgotten`: liveness of the table.
`FrozenShowsEnd`: a page that has shown the end of a deployment keeps it.
`PageSettles`: liveness of the page. Both except a log the user paused on a page
drawn by a late answer: the old text is kept then, and the button is disabled
once the page is up to date.

`SentIsOneUpload`: an archive that is sent is one upload, all of it, unless the file
was written while it was read or had been spoiled before: the exceptions are what
the code leaves open, and the property says that there are no others. Even then each
piece that is sent is from an upload under the name asked for.
`UploadStoresBeginning`: an upload that gives up has stored what came before.

`UnpackedIsArchive`: the directory docker gets holds every entry that was sent, each
file as its last entry has it. That is not always the archive the user made: where a
plain tar is cut between two entries, `tar.Reader.Next` returns `io.EOF`, which
`docker.go:701` takes for the end, and the deployment goes on. Every other cut archive
(zip, gzip, or a tar cut within an entry) is refused, which the property says too.
`StartedReady`: `up` runs only if the compose file is among what came, on that file, and
with a runtime that docker has and an override for each of its services and no other.
`CommandsFindFiles`: from `up` to the clean-up the files a command line names exist as
seen from where docker runs, whatever the job writes into its directory meanwhile.

`AllOrNothingReturned`: an answer has all that was asked for, within the limit, or nothing.
`EntryListsItsFiles`: an entry lists exactly that; and each file that saving got past
holds all of it, even if saving broke off later, unless another deployment opened the
file too. `OrphansExplained`: a file nobody lists belongs to a deployment whose saving
goes on or broke off, or whose entry went with a restart; and in a mixture of several
each piece is from one that was to save its own file there. `OnlyOthersBlock`: saving can
be impossible only because of another deployment's files.

`ShellPrevails`: a setting has the shell's value, or that of its first line.
`OneIdentityPerFile`, `KeyFilesStay`, `CutExplained`: nodes that share a key file share
an identity unless they created it at once, and even then a file has no more
identities than creators, since each makes its key only once; a key file is only touched
by who creates it; and one that cannot be read always has one to blame who has no key
of its own: who is writing it, or was started for it and crashed, failed or is about to.
`PeersDialledOnce`: every static peer is dialled before discovery starts, at the
first of its addresses.

**Why the bounds are enough.** Peers share nothing in the table but the loop of the
DHT, whose order is arbitrary anyway, so one peer shows what can happen to an entry;
an mDNS fetch and one of the DHT are the least with which fetches of two
mechanisms overlap (two of one mechanism write the same source, and what they bring
is any of the peer's states either way). The DHT's lifetime is the longer one, as in
`constants.go:17-18`, and ages go beyond it. On a page, one deployment's events force
the redrawing of another's log, which takes two, and answers overtake each other,
which takes two loads. Requests interact through keys (two with one key:
`deploy_twice`), project names (two with one project: `deploy_rivals`) and log
space (a log of one entry, where any second entry evicts: `deploy_rivals`,
`deploy_mutual`); each of these takes two requests. Two lines of output are the least
with which output can go back while it is still growing. Two faults allow for
a failure and another one while the first is dealt with (a stream that breaks
and a clean-up that fails). The clock has a second value only where two keys
must be able to differ by it.

In `bundles` files meet under one name by overwriting and by cleaning, with a longer
and a shorter upload, which is what a mixture takes; a removal can come between
any two steps. In `artifacts` the cases of the first deployment cover
each early return of `executeDeploy`, both kinds of archives, both platforms,
a runtime and none, and each way a requested path can be unusable; the second
deployment is an ordinary one, since a pair interacts only by the files both return,
and its job leaves a file where the other's leaves a directory. `ReturnLimit` is
exactly what one of the paths returns, and less than two of them do. In `startup` two processes suffice
for a race on a file; with two starts each there is a start after every crash.

## 4. Fairness

Fairness is stated for each request by itself. `GoroutineFairness(r)` states that a goroutine that can take a step takes it, for the
HTTP call, the poller, the stream handler, the output reader and the status
handler: the Go scheduler runs them, and a call into the network or docker
returns, with an error at worst. The code has no deadlines on its streams
(`p2p.go:224`, `context.Background()`), so the second part is an assumption about
libp2p and docker and not something the program ensures. `JobEnds(r)` assumes that
the deployed job ends: `compose up` is run in the foreground without a
timeout, so a bundle with a long-running service never completes, and
`CallsReturn` does not hold without that assumption. `FairSpec` has both for all
requests. `ReturnsAlone` is checked of `Spec`, without any fairness, and has that of
one request as its premise: so no deployment depends on another's being served.
Users need not submit, and no fault need happen.

In `PeerTable`, time passes, what is under way arrives or is lost, and the state is
built again and again: the code prunes only there, so that `GoneIsForgotten` needs
an open page, which polls every five seconds (`ui.go:484`). In `LogView` the interval
goes on and a page whose loads are served infinitely often is not unlucky for ever
(strong fairness of serving and drawing; a load may fail at any time);
`PageStaysOpen` excludes a user who reloads for ever. The modules of files and of the
start have no liveness properties: each handler there is a straight line.

## 5. Proofs

The proofs hold for every set of nodes and requests, every log limit, and every
bound on clock, output and faults. They assume `LogLimitAssumption` (the limit
is positive), `BoundAssumption` (bounds are natural numbers) and
`RequestAssumption` (every request has a renter and a provider, which differ, and
equal bundles have equal projects); TLC evaluates them on every run. Those of `PeerTable` assume that lifetimes and
delays are natural numbers and lifetimes are below the bound on ages
(`TTLAssumption`); those of `LogView`, that no event is not an event
(`NoEventAssumption`). Those of `StartUp` assume that bounds are natural numbers
(`BoundAssumption`), that a key is neither "no file" nor "a cut file"
(`KeyAssumption`), and that the environment and `.env` give strings to strings and
peers have an id and an address (`StartUpAssumption`); those of `BundleStore`, that no file is part of two
uploads, that files have names and lengths, and that cleaning a name twice is cleaning it
once (`StoreAssumption`).

Those of `Preparation` and `Artifacts` assume the shape of what is deployed
(`PreparationAssumption`: paths are sequences of strings; archives, hosts and contents
have the fields the code reads; a request names one compose file or none) and of what a
job leaves (`ArtifactsAssumption`: finitely many files, with lengths that are positive).
One of them is about the code: a name that `safeProjectName` has cleaned is neither `.` nor
`..`, since `docker.go:792` trims dots from both ends, and neither are the default project
and the name of the override, which are constants of the module for that reason. Without it
a deployment's files would not lie below `artifacts/`. Some string literals have definitions
of their own (`Idle`, `Nameless`): the provers cannot handle the empty string.

| Theorem | Module | Argument |
|---|---|---|
| `TypeCorrect`: `[]TypeOK` | `DeployProofs` | Types alone are not inductive: a posted event has the type of an event only if its request is stamped. `Typed` adds `Stamped(r)`: what is somewhere in the system was submitted. |
| `LogsStayWellFormed`: `[]OneEventPerKey` | `DeployProofs` | Every step posts at most one event or empties a log (`StepsOnLogs`), and `UpsertDeployEvent` keeps a log well-formed (`UpsertWellFormed`, one of the lemmas about logs of any length). |
| `NoAnswerBeforeCleanUp`: `[]AnsweredMeansCleaned` | `DeployProofs` | `Flow` adds `ResultFlow` (a handler has one result from `responding` on; an answer is that result; the stream ends with the handler), `VerdictFlow` (a call joins its poller only with the complete answer of a handler that is through) and `CleanedUp` (how far clean-up is). |
| `LeftoversHaveReasons`: `[]LeftoversExplained` | `DeployProofs` | From `CleanedUp` in `Flow`: a handler that is through has cleaned up, unless one of the three reasons kept it from it. |
| `NeighboursOnly`: `[]OnlyNeighboursInterfere` | `DeployProofs` | `Hosting` adds `ChildFlow` (at each point of the handler, whether its command can still be running) and `Undisturbed`: containers cease to be up only with the end or the clean-up of a deployment whose command is over by then, and a command that is over stays over. |
| `OutcomesAreTrue`: `[]TerminalIsTrue` | `DeployOutcomeProofs` | `EventsJustified` adds the replies in flight: results never change once they exist, a request with a result keeps its key, and what is posted repeats a result or something already justified. |
| `IInvHolds`: `[]IInv` | `DeployOutcomeProofs` | The whole inductive invariant, which `deploy_mutual` checks too. |
| `ReturnedStaysRecorded`: `[]ReturnedIsRecorded` | `DeployOutcomeProofs` | `Recording` adds `PollerBelongs` (only a call that goes on has a poller). Whoever writes to a log writes under the key of its own request (`WritersUseTheirKey`), and a key that is a request's own now was its own before (`AloneBefore`): so once the call has returned, no step touches its entry but to lose it. |
| `CopiesNeverLead`: `[]CopyNeverLeads` | `DeployOutcomeProofs` | Neither log alone is enough: `Ordered` relates the renter's entry, the reply under way and the provider's entry of a request (each no later than the next) to what has in fact come to pass (`Reached`: output shown, result, point of the handler). A provider's post is then later than all of them (`ProviderSaysNext`), a copy is a reply, and the record is the result, which the provider's entry shows by then. `Output` and `Quiet` say why the reader has posted all output before there is a result, and that no reply outlives its poller; `EntriesOwned`, why a new request finds no entry under its key. |
| `EntriesAdvance`: `Spec => EntriesOnlyAdvance` | `DeployOutcomeProofs` | From the same invariant: a step leaves an entry alone, or it is one of the three writes above. |
| `DeployKeepsContract`: `Spec => KeepsContract` | `DeployProofs` | Under `Flow`, each action is an action of the contract or changes nothing of what it sees. |
| `PeerTableTypeCorrect`, `EntriesAreTrue`, `TargetsRecent` | `PeerTableProofs` | `PInv` adds `WordsWereTrue`: what is under way was true when it was said, so that it makes a true entry on arrival; and `NotLongOverdue`, which pruning restores when the age of the page goes back to 0. |
| `NobodyElsesPeerRemoved`: `Spec => NobodyElsesPeer` | `PeerTableProofs` | By the cases of `Next`: all steps but pruning and removing leave a peer its entry. |
| `PageTypeCorrect`, `EndsStayShown` | `LogViewProofs` | `FrozenShowsEnd` is inductive with the types: drawing keeps a frozen text, pausing and resuming leave the views it speaks of. |
| `StoreTypeCorrect`, `SendsOneUpload` | `BundleStoreProofs` | `Sending` adds what makes a file fit to be sent: one that is not spoiled has a single writer, who found it empty (`WrittenAlone`), or holds all of one upload of its name as long as it is in use (`WholeOnceWritten`); a reader that is not blurred has the first pieces of such a file (`ReadersClear`), and gets the next one (`NextInOrder`) until it has all. |
| `UploadsStoreBeginnings` | `BundleStoreProofs` | `Storing` adds, for an upload alone in the library, that each name holds the last file stored under it so far (`HoldsLast`), but for the name of the file it is writing or gave up on (`Unsettled`). Writing leaves other names alone because a file has one name (`EntriesNamed`). |
| `OneIdentity`, `KeyFilesKept`, `CutsHaveReasons` | `StartUpProofs` | `KeyTypes` and `Sole`: as long as no two processes found a key file missing at once, at most one creates it, and what nodes had from it is what it holds. |
| `StartUp`'s `TypeCorrect` | `StartUpProofs` | `Hosts` adds that the key a node has is one that was taken from its file, and `Sole` that there was one such key at most. |
| `ShellWins`: `[]ShellPrevails` | `StartUpProofs` | A node that runs has read `.env` to its end. `Prevails(c, k, x)` says what `k` lines lead to, each name having the value of its first line, and a line more keeps it (`LineKeepsPrevails`): a line that is not the first of its key finds the key set. |
| `DialledOnce`: `[]PeersDialledOnce` | `StartUpProofs` | `OncePerId`, part of `Hosts`: those dialled are the first entries of the ids dialled, as many as there are such ids. The first entry not seen yet is always the first of its id (`DialNext`), and when none is left all ids have been seen (`AllSeen`). |
| `SafeStaysInside` | `ArtifactsProofs` | `Cleaned` says what is left of a path after any number of segments: no `.`, and `..` only in front. Every segment keeps it (`FollowCleans`). |
| `UnpackedAsSent`, `StartsReady`, `FindsFiles` | `ArtifactsProofs` | `Unpacking`: before entry `n` the directory holds exactly what the first `n - 1` entries describe, each path as its last entry so far has it (`Unpacked`), since an entry that cannot be stored ends the deployment. `Prepared`: from `inspecting` on this is all that was sent, and what was cut off unnoticed is a plain tar (`EndsWell`); each check that was passed stays true, as nobody else writes there. |
| `ReturnsAllOrNothing` | `ArtifactsProofs` | `Collected`, from `CollectsAllOrNothing`: after any number of requested paths the files collected are those below these paths, within the limit, or collecting has failed. |
| `ListsItsFiles`, `NoOrphans`, `OthersBlock` | `ArtifactsProofs` | `SavingOf(d)`: where `d` is in its list (`Turn`); that what it has stored is on disk unless another deployment wrote there after (`Stored`); what its entry lists (`Lists`); and what blocks it (`BlockedByOthers`: the files of one answer do not block each other, because they come from one directory). `DiskInv`: each file of `artifacts/` was opened by a deployment, and each directory is on the way to such a file. |
| `Inductive`, `TypeCorrect` of `Artifacts` | `ArtifactsProofs` | `IInv`, the conjunction of the above with the trees of files (`ProviderTree`). A step concerns one deployment (`StepsAreLocal`); the others keep all but what it does to the disk they share. |

The steps of one request leave the others alone (`ProviderStepIsLocal`,
`RenterStepIsLocal`), which is why most lemmas have one case for the request that moves
and one for all others.

**Induction.** What a loop of the code computes for a list of any length takes
induction, and the library's induction theorems cannot be used, as they have an operator
as a parameter. `IntervalInduction` states it for a set of numbers instead: one that has 0, and
with each number below `n` the next one, has all up to `n`. It is proved from the pigeonhole
principle of the library (an injection of a finite set into itself is onto): were there
numbers missing, subtracting one would map them injectively into themselves, but onto all but
the largest. With it `FoldExists` shows that the function exists by which `FoldLeft` is
defined, and for each loop a lemma gives the results of its turns `g[0]`, `g[1]`, ...:
`CleanSteps` (`filepath.Clean`), `CollectSteps` (`collectArtifacts`), `LoadSteps` (`loadDotEnv`).
What a loop promises is then shown turn by turn.

**Only model-checked.** Liveness (`CallsReturn`, `ReturnsAlone`, `ProviderSettles`,
`GoneIsForgotten`, `PageSettles`) is out of the prover's reach, as is `ENABLED`. Every invariant
and every action property that a run checks is also proved. The inductive invariants themselves
(`IInv` of `Deploy` apart, which `deploy_mutual` checks) are stated in the modules of the
proofs; each was checked by TLC on the instance of its component before it was proved.

## 6. What the runs found

- A deployment reported as a success is gone from its provider when the user
  reads the report. README.md:4 and :93 promise `up -d --build`;
  `docker.go:279` runs an attached `up --build --abort-on-container-exit` and
  `p2p.go:102` takes everything down (`deploy_detached`).
- A log that is resumed may stay as it was when it was paused. The page draws
  deployments only when they differ from the last it drew (`ui.go:289`); if it drew
  a newer event while the log was paused, the load after resuming brings the same
  event and draws nothing, until some deployment posts again (`page_resumed`).
- The provider answers after it has cleaned up, so a deployment that returns has
  left nothing; but if preparation fails, or the answer cannot be delivered, the
  directory (and in the second case the containers) stay for good
  (`LeftoversExplained`).
- After a failed dial the log keeps an entry that says "Renter sent deployment
  request and is waiting for provider status." (`deploy_waiting`).

Met while modelling, and stated here because no document of the repository says
otherwise or because they are no matter of steps and states:

- `run.go:23` serves the Web UI on port 3300 unless `APP_WEB_PORT` says otherwise;
  README.md:125 gives 3000 as the default, and so does `discovery.go:87`, which announces
  the node's URLs to others with it.
- All nodes of a machine that set no `P2PTEST_KEY_PATH` share `/tmp/p2ptest.key`, and
  with it one peer id (`identity.go:12`). Two that create it at once each keep
  their own key until one is started again (`raced`).
- In WSL the compose file is looked for by an unquoted `test -f` (`docker.go:251`): one with
  a blank in its path is never found, and the bundle cannot be deployed there.
- The runtime override replaces a file of the bundle that has its name; if that is
  the compose file, docker runs the override twice (`StartedReady`).
- Nothing removes anything from `artifacts/`. A project that once returned a file `out`
  cannot return a directory `out` later: the call then fails each time, after the
  deployment (`OnlyOthersBlock`).
- A page whose selected bundle is missing from an answer selects another one
  silently (`ui.go:226`).

## 7. Not modelled

- The formats of archives, YAML and JSON; the text of output, messages and compose
  files.
- docker, WSL, mDNS, the DHT and libp2p: what they may answer is modelled, how
  they come to it is not. The options for NAT, hole punching, relaying and
  reachability are built once and handed to libp2p; they do not change, and what
  they do is libp2p's.
- Listing bundles and artifacts, downloads, the network badges, addresses and URLs:
  they only read and display. Renaming the node is one assignment.
- The layout of the Web UI, and its lists of bundles, peers and artifacts, which are
  redrawn from each state and keep nothing but the selected bundle.
- Manual addresses: for a deployment they only replace the lookup in the peer table.

## 8. Plan

Modelled: all components of section 1, but for what section 7 lists. Proved: all safety
properties. Worth adding: that `Preparation` and `Artifacts` implement the steps of
`Provider` and `Renter` that stand for them, and that the log of `Deploy` is one `LogView`
can be given; both are argued in section 2 only.
