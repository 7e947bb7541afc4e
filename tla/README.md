# TLA+ models of KBMAPI

The Key Backup and Management API (KBMAPI) keeps, for every compute node (CN)
with a PIV token, the PIN of the PIV token and its recovery tokens, and it rolls
recovery configurations out over the compute nodes of a data centre. This
directory models the parts of it where requests, a background service, agents
and crashes interleave; TLC checks the models on small instances and TLAPS
proves their main properties for all instances.

Paths below are relative to the repository; `a.js 10-20` are lines.

## Inventory

Everything is kept in Moray buckets. A handler of the API server or a step of
the transitioner is a sequence of Moray calls. A batch is atomic; two calls are
not, and anything may happen between them. A put or delete may carry the etag of
what was read, and then fails if the row was written since; most do not.

| part | state | operations | what is hard | what makes it correct |
| --- | --- | --- | --- | --- |
| recovery tokens (`lib/models/recovery-token.js`, `lib/endpoints/pivtokens.js`) | a row per token: PIV token, configuration, staged / activated / expired | create, stage, activate, update, delete, prune | handlers that read, then write by filter, and race | one token of a PIV token per stage of life; no mark is lost |
| PIV tokens and their history (`lib/models/pivtoken.js`, `pivtoken-history.js`) | a row per PIV token and one per archived PIV token | create, delete, replace | archiving and deleting are two calls | no PIN is ever lost |
| recovery configurations (`recovery-configuration.js`, `models/index.js`) | a row per configuration: staged / activated / expired | create, delete, update, expire the unused | check, then act; puts of rows read long ago | expiry is only undone by a reactivation |
| transitions (`fsm-transition.js`, `recovery-configuration-transition.js`) | a row per transition: name, targets, completed, finished, aborted, lock | create, cancel, expire, reactivate | list, then create, by concurrent requests | one pending transition of a name |
| transitioner (`transitioner.js`) | the current transition and a pipeline of callbacks | poll, lock, batch, record, complete, change the configuration, abort, prune | crashes between puts, failed calls, late agents, cancels in flight | tasks are not repeated, nodes and errors are not forgotten, a configuration follows its nodes |
| Moray wrappers, model base (`lib/apis/moray.js`, `lib/models/model.js`) | the buckets | get, put, update, batch, list, create a bucket | etags, filters, lists that are cut off | modelled inside the modules that call them |
| authentication (`lib/auth.js`) | none | check one signature against the PIV token that was preloaded | what it is checked against changes | a rightful call is accepted |
| server, routes (`server.js`, `lib/app.js`, `lib/endpoints/index.js`) | a Moray connection, `running` | start-up, creation of the buckets, routing | servers that race for buckets, calls that fail | who serves has its buckets, who can connect will serve |
| client (`client/index.js`) | credentials in module globals | one call per operation, signed at each attempt; `clean` | calls that overlap, attempts served late | a call is signed with what it was given; a retry retrieves what was lost |
| `kbmctl`, `lib/cli` | none | one API call per command | - | not modelled: prints answers |
| configuration, utilities (`lib/config.js`, `lib/util`) | none | formats and parameter checks | - | not modelled: pure functions |

Who calls what: a request of an agent or an operator reaches a handler of
`lib/endpoints`, which calls the models; `PUT /recovery-configurations/:uuid`
calls `transition`, which only writes a transition for stage, unstage, activate
and deactivate. The transitioner polls for it, hands tasks to the agents through
CNAPI, and updates the configuration at the end. The agents in turn stage and
activate recovery tokens through the API. Agents and operators use the client
library; SMF starts the transitioner beside the API server and sends it signals.

## Modules

| module | models | proofs |
| --- | --- | --- |
| `RecoveryTokens` | the tokens of the PIV tokens, as the handlers, the agents, the transitioner and configurations change them | `RecoveryTokens_proofs` |
| `TokenSlots` | abstract: a PIV token has a created, a staged and an active slot | implemented by `RecoveryTokens` under `AgentSpec`, checked and proved in `TokenSlots_proofs` |
| `PivTokens` | creation, archiving, deletion and replacement of PIV tokens | `PivTokens_proofs` |
| `Configurations` | requests on configurations against the service and the sweep | `Configurations_proofs` |
| `Transitioner` | the pipeline of the service, node by node | `Transitioner_proofs` |
| `Rollout` | abstract: a transition records its targets, finishes or is aborted | implemented by `Transitioner`, checked and proved |
| `Fleet` | composes `Transitioner` with the requests that choose targets, the PIV tokens and recovery tokens, and the agents that mark these | `Fleet_proofs` |
| `Lifecycle` | start-up of the servers and their buckets; the timers, signals and loops of the transitioner | `Lifecycle_proofs` |
| `Credentials` | the client library, the authentication, and creation and replacement as a client sees them | `Credentials_proofs` |
| `MC*` | symmetry sets for TLC | - |

### RecoveryTokens

`tokens[t]` is the row of the bucket, with its timestamps abstracted to the set
of those present; `etag[t]` counts the writes to it, which is all that an etag
tells; `config[c]` has the marks of a configuration and its etag; `piv[p]` tells
whether the row of a PIV token is yet to come, here, or gone; `pc` and `ctx`
hold, for each handler in flight, the batch it is about to make and what it has
read for it. `first` is history: the recovery token a PIV token was created with.

| code | actions |
| --- | --- |
| `createRecoveryToken` (recovery-token.js 111-235) | `CreateFetchConfig`, `CreateBatch` |
| `createPIVToken` (pivtoken.js 182-332), as far as its recovery token goes | `CreatePivGetConfig`, `CreatePivBatch` |
| `setStagedRecoveryToken` (471-520), one batch | `SetStaged` |
| `setActiveRecoveryToken` (398-469) | `SetActiveList`, `SetActiveBatch` |
| `updateRecoveryToken` (247-324) | `UpdateGet`, `UpdateBatch` |
| deletions of a token, of old ones, of a PIV token's | `Delete`, `Prune`, `DeletePivToken` |
| expiry (fsm-transition.js 600-636), sweep (index.js 45-171) | `ExpireConfig`, `ExpireUnusedConfig` |
| reactivation (fsm-transition.js 526-593) | `ReactivateList`, `ReactivateBatch` |
| the end of a transition | `ConfigStep` |

`Init` lets any configuration be born active, as the first of a data centre is
(recovery-configuration.js 155-163). A creation that has read its configuration
may come after the deletion of its PIV token, and leaves its recovery token
behind: `CreateBatch` does not look for the PIV token again, nor does
`CreatePivBatch` look for recovery tokens left behind. This is why `OnePristine`
sets the token of `first` apart.

Two specifications share these. `Spec` is everything the API accepts, with any
uuid, any update and any state of the configuration. `AgentSpec` is the
documented path: a token is either born with its PIV token under an active
configuration, staged and activated at once (`Provision`), or created with a
fresh uuid while its configuration is just created (`CreateFresh`), and staged
and activated by the agent that holds it; handlers still race and configurations
still expire. `AgentActivate` has the PIV token there when the staged tokens are
listed, as the preloader does: a late activation of a token that a deleted PIV
token left behind could meet the active token of the next one with its guid.
What holds only there says so.

### PivTokens

`piv` and `history` are the two buckets, both keyed by guid. A row is abstracted
to its *life*, the provisioning that set its PIN. A handler goes from "archive"
to "delete" (`archiveAndDeletePivtoken`), a replacement on to "config" and
"create" (`createPIVToken`), and carries the row that the preloader read.
`Crash` drops all requests in flight. The prune of the history is not an action:
its filter is on `active_range`, which `raw()` leaves out of the stored rows
(pivtoken-history.js 99-115), so it deletes nothing. A device with the guid of
an archived one may be provisioned again with another PIN, or restored.

### Configurations

`row[c]` is the set of timestamps of a configuration (empty: no row), `trs` the
transitions bucket in the order of creation. A client is a request in flight,
the process `Service` is the transitioner, reduced to taking, finishing and
applying a transition. `fresh[k]` has the configuration whose etag the
reactivation of `k` has read and nobody has written since: it stands for etags,
without counting them. `Transition.by`, the client that created a row, is not in
the bucket; the properties use it. `Await(p, label, c)` is what a process does
next and has read.

| code | actions |
| --- | --- |
| `createRecoveryConfiguration` (recovery-configuration.js 103-182) | `CountConfigs`, `PutConfig` |
| `deleteRecoveryConfiguration` (252-276) | `CheckDelete`, `Remove` |
| `transition` (fsm-transition.js 190-679) | `GetConfig`, `ListTransitions`, then `CreateTransition` and `InstantUpdate`, `Reactivate`, `Expire` or `CancelTransition` |
| `expireUnusedRecoveryConfigs` (index.js 45-171), in a request or in the service | `SweepList`, `SweepPut` |
| `runTransition` (transitioner.js 302-881) | `TakeTransition`, `Stop`, `FinishTransition`, `ChangeConfig`, `Fail` |

`CountConfigs` lets `first` be true or false when no configuration is there: the
PIV tokens counted next are not in this module.

### Transitioner

`trs[i]` is the row of transition `i` with `completed` and the nodes whose
errors show, `etag[i]` the writes to it, `agent[i][n]` whether the agent of node
`n` was given, and did, its task; `cancelling` has the cancels between their get
and their put; `pc`, `curr` and `ctx` are the pipeline of each service:
`self.currTr` and the context of `runTransition`. One action is one Moray call
or one wait: `List`, `Lock`, `StartBatch`, `BatchEnds`, `RecordBatch`,
`CompleteGet`, `CompletePut`, `ChangeConfig`, `ExpireUnused`, and `AbortGet`,
`AbortPut` after an error. `Fault` fails a call, `Crash` restarts a service,
`AgentDoes` may come after everybody stopped waiting. `late` counts the batches
that begin after a cancel; it is there for `CancelStops`.

### Fleet

`Fleet` extends `Transitioner` and takes its steps as they are, conjoined with
what they do to the variables that are new: `life` and `toks`, the PIV tokens and
the recovery tokens each has for the configuration that is rolled out, oldest
first, as sets of marks; `req`, the one request in flight; `asked`, the PIV tokens
that were listed for a transition; `view`, what the pipeline of a service has
fetched (`ctx.targetPIVTokens`, `ctx.pivtokensByCnUuid`, `ctx.recTokensByGuid`);
`task`, what each agent was told. `steady` is history: the PIV tokens a transition
was about when it was created (`Concerned`), less those that somebody else than
the service has touched since, that got a neighbour on their node, or whose
recovery tokens a list has not returned in full. `Concerned` leaves out PIV tokens
that share their node, those whose agent still had the task of an older
transition and, when they are to be staged, those whose newest recovery token had
already expired: the task would name that one (transitioner.js 439-441), and the
report on it is accepted and marks nothing.

A node may have several PIV tokens (pivtoken.js 28-30): `PivAppears` does not ask
for an empty one, `ByCn` keeps any one of those listed, as `pivtokensByCnUuid`
keeps the last, and `CountOf` counts a target once for each PIV token it was
listed with, as `pendingTargets.length` does. A list without a limit of its own
is cut at `Limit` rows (`DEFAULT_LIMIT`, moray.js 310-315): `Listed` lets any PIV
tokens be lost, `ListedTokens` the newest recovery tokens, which the list sorts by
creation (recovery-token.js 365-381). A target that is listed twice is one target
in `trs`: that its second copy may fall into a later batch is left out.

| code | actions |
| --- | --- |
| `transition` (fsm-transition.js 240-521): counts and checks, then targets and row, then the update without targets | `Ask`, `CreateTransition`, `UpdateWithoutTargets` |
| `getPendingTransitions` and the lists of PIV tokens and recovery tokens (transitioner.js 308-451) | `FleetList`, `FetchPivTokens`, `FetchTokens` |
| `createRecoveryTokens` (453-506), `lockBeforeRun` (576-624) | `CreateTokens`, `FleetLock` |
| `createTask` (659-700), which throws for a node without PIV token or recovery token | `FleetBatch`, `Throw` |
| `updateRecoveryTokens` (pivtokens.js 358-423), called by the agent | `AgentReports` |
| PIV tokens are created, deleted, replaced; somebody creates a recovery token | `PivAppears`, `PivLeaves`, `TokenAdded` |

The agent is not in the repository: it is assumed to report the token of its
task, and to be done once that report is accepted.

### Lifecycle

`server[k]` is where a server is in `start` (lib/app.js 148-238) and `made[k]`
how far with each bucket in its current attempt; `buckets` is what Moray has.
`proc`, `run`, `timer`, `currTr` and `prune` are the transitioner: a run is a
pipeline, and `Runs` has more than one so that a second one could begin. What a
run does to a transition is reduced to its end: well, with an error, or with the
death of the process. A server that fails to connect to Moray stays
"unconnected": `server.js` ignores the error that `start` hands to its callback.

### Credentials

`globals` has the variables of `client/index.js`: whether to sign, with what,
the private key, the recovery token, whether there is a public key (whose
fingerprint a key's signature names, 70 and 97: without it the signature throws,
`CannotSign`). `call[c]` is a call of the library with its
options; `net` the attempts that have not been served, each with the signature
it was given when it was sent; `row[g]` the recovery tokens of each PIV token.
`known` is what the node has been told, in answers or with a task; `foreign` the
recovery tokens others created; the tokens up to `aged` are older than
`recoveryTokenDuration`, so that a creation is no longer taken for the retry of the
one that made them (pivtokens.js 202-211). `Preloaded` is the list of recovery
tokens that `pivtoken.get` returns, cut at `Limit`. `CheckedWith` is the one an
HMAC is checked against (auth.js 71-77): the sort before it subtracts ISO strings,
which is NaN, and node v6.17.1 (Makefile 45) leaves an array of up to 10 elements
as it is then, while of a longer one the middle element ends up last; `ShortSort`
stands for 10. A call is `solo` when it is the first since the
library was loaded or cleaned and nothing else is called, nor cleaned, before
its answer. A key is named after the PIV token whose slot 9e it is from; a
request is served in one step, which `PivTokens` takes apart. The methods that
are signed with a key and differ only in path and data are all `CallPin`, those
that are not signed `CallList`. An attempt can be served after its call was
given up or answered.

## Runs

| run | checks | bounds |
| --- | --- | --- |
| `tokens_requests` | `TypeOK`, `OnePristine`, `EtagsTell`, `MarksAreKept` of `Spec` | 2 handlers, 2 tokens of 1 PIV token, 2 configurations of which one can be reactivated, 2 writes to each token and to that configuration, 1 to the other |
| `tokens_agent` | `OneActive`, `OneStaged`, `ImplementsSlots` of `AgentSpec` | 2 handlers, 3 tokens, 2 configurations, 4 writes to a token, 3 to a configuration |
| `pivtokens` | `TypeOK`, `OneRetirement`, `PinsAreKept` | 3 handlers, 2 PIV tokens with 2 lives, 1 crash |
| `configurations` | `TypeOK`, `OnePerClient`, `ExpiredStays` | 2 clients, 1 configuration, 2 transitions |
| `transitioner_safety` | `TypeOK`, `CancelStops`, `StateFollowsNodes`, `ProgressIsKept`, `NoRepeatedTask`, `LocksWhatWasListed`, `ImplementsRollout` | 1 service, 2 nodes in batches of 1, 2 transitions, 1 crash, 1 failed call |
| `transitioner_settles` | `Settles`, `TakesEffect` under fairness | 1 service, 2 nodes, 2 transitions, an agent that may fail |
| `transitioner_recovers` | refutes `Settles` with a crash | 1 node, 2 transitions |
| `fleet` | `FleetTypeOK`, `ConfigFollowsTokens` | 2 nodes with a PIV token each, 2 recovery tokens per PIV token, 3 rows in a list, 2 transitions, 1 death by a throw |
| `fleet_settles` | `SettlesIntact` under fairness, `ConfigFollowsTokens` | 2 nodes, 3 PIV tokens of which two have the same node, at once or one after the other, 2 recovery tokens each, 1 transition ("stage"), 1 death by a throw |
| `fleet_counts` | refutes `StagedBeforeActive` | 2 PIV tokens, 3 recovery tokens each |
| `lifecycle` | `TypeOK`, `ServesFromBuckets`, `OneRun`, and under fairness `ServerComesUp`, `RunsComeBack`, `PrunesForEver` | 2 servers, 2 buckets, 2 possible runs, 1 open transition, 2 failures, 3 processes started |
| `credentials` | `TypeOK`, `SoloSigned`, `RightfulAccepted`, `CreationRetrieved` | 2 calls with 2 attempts, 2 PIV tokens, the card of one and the key of the other, 3 recovery tokens of which the first can grow old, a sort that keeps 2 of them in order, lists of 3, 2 attempts under way at once |

Why the bounds are enough: a race in this code is between two processes of which
one has read what the other writes, so two handlers show each one, and a third
(`pivtokens`) shows that nothing depends on two. Two tokens or transitions are
needed for one to get in the way of the other, a third token for one in each
slot of `TokenSlots`. The tokens of different PIV tokens never meet: every list
and every filter of recovery-token.js names the PIV token. `MaxEtag` must let a
token be put, staged and activated, and expired (`tokens_agent`: 4), and
`MaxConfigEtag` a configuration expire and be reactivated (2) or be staged,
activated and expired (`tokens_agent`: 3). One crash
and one failed call are enough for every point of the pipeline to be hit, since
TLC tries them everywhere. In `fleet` a second node is what another one
can differ from, and a second recovery token what a PIV token can have too many;
`Limit` is 3 there, one less than the recovery tokens that can be, so that a list
of them is cut, and 6 in `fleet_settles`, where a third PIV token shares a node.
`ConfigFollowsTokens` is in both, which differ in what they let happen. In
`credentials` three recovery tokens are one more than `ShortSort`, so that the
sort puts another than the newest last, and enough for one to age and others to
be created after it, lost and retried. In `lifecycle`
three processes are two servers and the transitioner, or a server that is
restarted; in `credentials` a second call is one that overlaps or repeats the
first, a second attempt one that may be served before the first. The proofs
below need none of these bounds.

Deadlock is checked in the two runs of `PivTokens`. In the others the system may
really stop: the writes, uuids or transitions that the bounds allow are used up.

`Reactivatable = {c1}` leaves `c2` for `OnePristine`: the batch of a
reactivation strips the marks of all tokens it listed, so that several of one
PIV token come back; the property is about the configurations that are not
reactivated, as its comment says. `Updates` is activating, which expires all the
other tokens; the proofs are for any values. `Droppable` has the nodes whose
agents may answer with a failed task, which `transitioner_safety` leaves empty
because of the disagreement on failed tasks below; errors of CNAPI
itself, and timeouts, are in every run. `Names` are "stage" and "activate", in
`transitioner_safety`; the proofs are for any.

### Fairness

`FairSpec` has weak fairness of `Step` for each service: the service goes on as
long as it can. Every call to Moray is answered, `waitTask` comes back by itself
after `CNAPI_WAIT_TASK_TIMEOUT` (transitioner.js 702-725), and after each
transition `run` polls again at once or when `pollInterval` elapses (258-300).
Nothing is asked of operators, nor of agents: a batch ends without them.
`transitioner_settles` has no crash and no failed call: the two runs with a
crash are disagreements, and after a failed call without a current transition
the service does not poll any more (state "stuck").

`FairFleet` has the same of `FleetStep`, which includes `Throw`: a death of the
service's own making, after which SMF starts it again. It asks nothing of
operators, agents or PIV tokens. `SettlesIntact` is about a transition that is
`Intact`, like those before it, at all times, since the service takes one at a
time: each pending target has a PIV token, the lists are not cut, and the number of
recovery tokens is not that of the targets while a PIV token has none. Otherwise
`createTask` may throw, after each restart anew. `MaxCrashes` bounds the throws, so
a run that has used its one death up stops at the next: the property would blame
it for that if an antecedent had been true at the end only, and it is one over all
of the run for this reason. It shows that `Intact` transitions settle, not that
all others do not.

`FairSpec` of `Lifecycle` has weak fairness of each server's initialization, of
each run, of the poll, the prune and the connection of the transitioner: each
call is answered and each timer elapses. Nothing starts a process, calls `Fails`
only `MaxFaults` times, and a process may die at any time.

## What is proved

TLAPS proves these for every value of the constants that their assumptions
allow: any number of handlers, tokens, configurations, clients, services, nodes.

| theorem | property | argument |
| --- | --- | --- |
| `RecoveryTokens_proofs!TypeCorrect` | `TypeOK` | inductive by itself |
| `StaleReadsAreNoticed` | `EtagsTell` | with `TypeOK`: a row only changes with its etag (`EveryRowStep`, `EveryConfigRowStep`) |
| `MarksNeverLost` | `MarksAreKept` | every step changes a row by growing its marks, by a put of what was just read, or by a reactivation (`EveryRowChange`), and `EtagsTell` |
| `OnePristineToken` | `OnePristine` | a token becomes pristine by `CreateBatch`, which expires the ones before it, by `CreatePivBatch`, and is then the `first` of its PIV token, or by a reactivation |
| `OneActiveToken`, `OneStagedToken` | `OneActive`, `OneStaged` of `AgentSpec` | `AgentInv`: what a handler carries was fresh, or staged, when it was read, and can only have gone on; the PIV token of an activated token is there, so that one which is created with an active token has no other |
| `TokenSlots_proofs!SlotsAreImplemented` | `ImplementsSlots` of `AgentSpec` | `SlotInv`, which is `AgentInv` with at most one created token per PIV token: then each step of a handler moves one token to the next slot and retires the one in it, or only empties slots, or is no step of `TokenSlots` at all |
| `PivTokens_proofs!TypeCorrect`, `RetirementsAreExclusive` | `TypeOK`, `OneRetirement` | inductive together |
| `PinsNeverLost` | `PinsAreKept` | from `OneRetirement`: what is deleted has been archived, and both puts require absence |
| `Configurations_proofs!TypeCorrect` | `TypeOK` | part of `IInv` |
| `OneTransitionPerClient` | `OnePerClient` | `IInv` adds `CreatesFirst`: a client about to create has no open transition of the name |
| `NoTwinsAlone` | `NoTwins`, for a single client | from `OnePerClient` |
| `ExpiryIsFinal` | `ExpiredStays` | `IInv` adds `FreshIsExpired`: an etag that still matches is that of an expired row |
| `Transitioner_proofs!TypeCorrect` | `TypeOK` | inductive by itself, for any number of services |
| `ConfigFollowsNodes` | `StateFollowsNodes` | `Progress`: the nodes recorded without an error did their task; one service, no dropped errors |
| `RecordsAreNeverLost`, `TasksAreNotRepeated` | `ProgressIsKept`, `NoRepeatedTask` | `Progress`: the context has what the row has |
| `RolloutIsImplemented` | `ImplementsRollout` | each step of one row is a step of `Rollout` (`OneRow`), and no step writes two |
| `LocksAreAsListed` | `LocksWhatWasListed` | `LockInv`, for any number of services: an etag that still matches is one of a row that is still open with the same targets left, since no row is written without a new etag (`WritesShow`) |
| `CanceledTransitionsStop` | `CancelStops` | after a late batch the service is bound to record it and stop |
| `Fleet_proofs!FleetTypeCorrect` | `FleetTypeOK` | inductive by itself; the service's own part from the lemmas on `Transitioner` |
| `ConfigFollowsMarks` | `ConfigFollowsTokens` | `FollowInv` with `FleetTypeOK` and `Progress`, below; one service, no dropped errors, any limit and any number of PIV tokens on a node |
| `Lifecycle_proofs!TypeCorrect`, `OneRunAtATime` | `TypeOK`, `OneRun` | inductive together: no run while the timer is set or the process is not up, and an open current transition can only be settled by the one run that works on it |
| `BucketsBeforeService` | `ServesFromBuckets` | a bucket that the current attempt got is there (`MadeIsThere`), and buckets stay |
| `Credentials_proofs!TypeCorrect` | `TypeOK` | inductive by itself |
| `AloneSignedAsTold` | `SoloSigned` | while a call is alone the globals are what it set in cleaned ones |
| `RightfulCallsAccepted` | `RightfulAccepted` | an attempt of a call that is alone has its own signature, and a refusal says what did not match: a newer recovery token or another key stays one; a refused HMAC was not that of the newest token of a row that the sort leaves in order (`CheckedNewest`) |
| `CreationsRetrieved` | `CreationRetrieved` | as long as all creations name the configuration, only the first of them makes a token, or one that finds the last token aged or not listed (`UndisturbedBefore`), so that each answer holds all that are due (`Told`) |

`FollowInv` is why a configuration follows the recovery tokens, and not only
the records of its nodes. No two pending transitions have one name and none is
begun before all older ones are settled (`RowsInv`, `WorkInv`). A PIV token of
`steady` is the only one of its node, which is among the targets (`PivsInv`). As
it leaves `steady` when somebody else touches it, or a list of recovery tokens has
left one of its own out, what the service has fetched
for it is its newest recovery token (`FetchedInv`), and so is what the task of
its node names; nor has that node an older task to stage another one left
(`TaskInv`). Therefore its report leaves a mark, which later ones do not take
away as long as no later transition has begun, or ever, if the mark is
"activated" (`MarkInv`); and when the configuration changes all targets are
done, by `Progress`. TLC checked `FollowInv` as an invariant with 2 nodes and 2
transitions, and with 1 node, 3 transitions and 3 recovery tokens, a death in
each.

The theorems on the transitioner assume one service where the table or their
statement says so: with two of them the lock does not keep the second out
(below). Constants are assumed to be what the `ASSUME`s of each module say and
no more; TLC evaluates these in every run.

Only model-checked: `Settles`, `TakesEffect`, `SettlesIntact`, `ServerComesUp`,
`RunsComeBack` and `PrunesForEver`, which need fairness, out of reach of the
prover. The properties of the violation runs are false and cannot be proved.

## Disagreements met

Two are runs that TLC must refute; `PROJECT.json` quotes the lines.

- `transitioner_recovers`: a service that died between the last batch and
  `completeTransition` throws on every restart, although docs/README.md 1369
  lists recovery in the middle of a transition.
- `fleet_counts`: an activation of the whole fleet is accepted when there are as
  many staged recovery tokens as PIV tokens (fsm-transition.js 333-345), also
  when one PIV token has two of them and another none; 289-290 say that the
  whole set of nodes must have reached that state.

For seven more the configuration is kept beside the module; each is refuted in
seconds.

- `TokensActiveTwice.cfg` (`MCRecoveryTokens`): a token created under an active
  configuration is active at once, and nothing retires the one that was
  (recovery-token.js 172-212), although pivtokens.js 463-464 say so.
- `TokensSweep.cfg` (`MCRecoveryTokens`): the filter of
  `expireUnusedRecoveryConfigs` is beside `params` (index.js 59-61), so the sweep
  looks at all configurations and expires one that was never staged when newer
  tokens have replaced all of its own; fsm-transition.js 73-74 say that a
  configuration expires straight from active.
- `TokensPristineTwice.cfg` (`MCRecoveryTokens`): a request that creates a
  recovery token races the deletion of its PIV token and leaves the recovery
  token behind; when the PIV token is created again, its first recovery token
  makes two that wait to be staged, since the batch of `createPIVToken`
  (pivtoken.js 289-314) expires nothing. pivtokens.js 458-460 say that an existing
  one is expired immediately.
- `CredentialsNewest.cfg` (`MCCredentials`): of more recovery tokens than the sort
  leaves in order (10 in node v6.17.1) the signature is checked against another
  one than the newest, because `a.created - b.created` is NaN for the strings that
  are compared (auth.js 74-76); 71-73 say that it is the most recent one.
- `PivTokensHistory.cfg` (`MCPivTokens`): the second retirement of a restored PIV
  token is refused; docs/README.md 249-252 permit several entries.
- `TransitionerEffect.cfg` (`MCTransitioner`): a service that died after
  `completeTransition` leaves a finished transition without effect;
  fsm-transition.js 46-48 say that both come together.
- `TransitionerErrors.cfg` (`MCTransitioner`): a plain `Error` is stored as an
  empty object and lost, so that the configuration changes in spite of
  transitioner.js 812.

TLC also refutes these, for which no line of the repository is precise enough to
make a finding: that no token is born under an expired configuration, or
activated when it has expired since it was listed (recovery-token.js 157, 447);
with two clients, that a configuration has one pending transition of a name
(`NoTwins`; fsm-transition.js 401, 466); that no staged configuration is deleted,
or a deleted one put back (recovery-configuration.js 264, index.js 137); that a
configuration is only active when it is staged; with two services, that one of
them has the lock, since the second may lock what it listed after the first did
(only those that listed before are shut out: `LocksWhatWasListed`, which TLC also
checked with two services and one transition).
In `Fleet`, `ConfigFollowsTokens` without what `steady` leaves out. With
`Limit = 1` and all PIV tokens counted: a transition of a fleet
larger than the 1000 rows a list returns (moray.js 314) leaves nodes out and
stages or activates the configuration all the same. With `Limit = 2` and PIV tokens
kept whose newest recovery token was not listed: the task names an older one. With
PIV tokens that share a node: only one of them gets a task
(transitioner.js 402-406), although pivtoken.js 28-30 allow several. And, with three
transitions, when `Concerned` keeps the PIV tokens whose newest recovery token has
expired: a recovery token is created after a first "stage" has fetched the one
before it, the task of which times out; a second "stage" stages the new one,
and the late report of the first then expires it; a third "stage" names the
expired one, being the last listed, and its report changes nothing and counts as
done (transitioner.js 439-441, recovery-token.js 471-520). In `Lifecycle`,
`NoTimerMeansRunning`: after a failed list without a current transition there is
neither a timer nor a run, and the hangup that would help is ignored in the
belief that there is one (transitioner.js 916-920); the service gets there when
it is started before a server has made the buckets. In `Credentials`,
`SoloSigned` without `solo`: a call that overlaps another one, or comes after one
without a `clean` between, is signed with the other's recovery token or key;
that a call which is alone always gets to sign: one that takes a key and is given
no public key, as the documentation of `getTokenPin` allows (client/index.js
262-268), throws after a `clean` (70, 97, 713-715, 728-737), which `SoloSigned`
excepts;
and `KnownTokenReplaces`: a recovery token that the node was told is refused as
soon as there is a newer one (auth.js 71-77).

Read in the source, without a run:

- The history of the PIV tokens is only to be kept for `KBMAPI_HISTORY_DURATION`
  days (docs/README.md 188-190, transitioner.js 48-49), but the prune deletes
  nothing: its filter (transitioner.js 226) is on `active_range`, which the stored
  rows do not have (pivtoken-history.js 99-115). `PivTokens` keeps the history
  for ever, as the code does.
- pivtokens.js 187-189 says that a PIV token that already exists is just returned;
  after `recoveryTokenDuration`, or for another configuration, a repeated creation
  makes another recovery token (202-235).

Read, not modelled: `SIGINT` says that it waits for the transitioner to finish
(transitioner.js 908) and exits at once, which `TransitionerDies` stands for; a
PIV token whose recovery tokens have all been pruned or deleted makes auth.js 77
and pivtokens.js 202 throw.

## Not modelled

The administrator's key (auth.js 93-108), malformed authorization headers, and a
`pivy-tool` that fails, which sends an attempt unsigned; what the process of a
caller does when the signature throws. Chassis swaps, for which
there is no code. In `Fleet` several requests, configurations, failed calls and
cancellations at once: `Configurations`, `RecoveryTokens` and `Transitioner` have
them, without the fleet. Filters, templates, PINs, keys and dates, beyond whether
two of them are the same. The command line, which makes one call per command.
Formats of errors and of parameters (`lib/util`): pure functions whose results
no property here tells apart.

## Plan

1. *Done first*: `RecoveryTokens`, `TokenSlots`, `Transitioner`, `Rollout`,
   `PivTokens`, `Configurations`, their runs and theorems.
2. *Done next*: `Fleet` over `Transitioner`, `Lifecycle`, `Credentials`, their
   runs and theorems.
3. *Proofs, done*: `ImplementsSlots` from `AgentInv`; `ConfigFollowsTokens` with
   one service; `LocksWhatWasListed`, which is
   what the lock guarantees with several services.

## Running

`tlc -workers 2 -config TokensAgent.cfg MCRecoveryTokens` checks one run,
`tlapm RecoveryTokens_proofs.tla` one module of proofs; `PROJECT.json` has the
list of runs, the mutated definitions under which each property must fail, the
lines each definition stands for, the hazards and the theorems.
