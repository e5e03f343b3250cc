# A specification of telecraft

telecraft serves OpenTelemetry collectors the configuration that a git
repository, the *estate*, decides for them, shows people a console computed
from the same repository, and lets them change the estate through pull
requests. Almost everything it knows it derives again from a checkout and from
what collectors and backends answer at that moment. What can go wrong is
therefore about *when* things are read and *what was missing* when they were:
goroutines, a sidecar and the console share one working tree, the head moves
under them, processes die half way through a checkout, two exits race on a
branch, readings come back cut, stale or not at all, and a verdict has to be
true nevertheless.

These modules model that. TLC checks them on small instances; TLAPS proves the
main results for every estate, every set of connections and every number of
callers.

Contents: [components](#components) - [modules](#modules) -
[how the modules follow the code](#how-the-modules-follow-the-code) -
[runs](#runs) - [fairness](#fairness) - [where the code and its documentation
disagree](#where-the-code-and-its-documentation-disagree) -
[proofs](#proofs) - [what is left out](#what-is-left-out) -
[plan](#plan)

## Components

`PROJECT.json` lists every component with its sources and its status. Those
modelled, and what makes each correct:

| Component | State | Operations | Hard because | Correct when |
| --- | --- | --- | --- | --- |
| **serving** (`internal/serving`) | an atomic pointer to the snapshot, `fetchMu`, one git checkout | `Start`, `Stop`, `refreshLoop`, `Refresh`, `onMessage`, `onConnectionClose` | three kinds of goroutine run git in one directory; the pointer is read on every message; `Start` and a crash meet a checkout left half written | one whole commit is served at a time, never an older one; nothing empty is offered; a collector runs only what was decided for it; a head that stays arrives |
| **the estate at head** (`internal/renderer`, `internal/blueprint`, `internal/allowlist`, `pkg/ownership`, `internal/drift`) | the authored files and `rendered/` of one commit | the loaders, `Render`, `Detect`, roll-ups; merge, advance, complete, abort | every file is edited in a merge of its own, and a rule that relates two of them must hold whichever moves | nobody widens their own palette, an artefact is whole and strips first, a Rollout can be closed, floors only rise with Paths, no pin is silently replaced |
| **rollout membership** (`internal/rollout/membership.go`) | none | `Member` | hashing with pinned attributes | cohorts only widen |
| **instance** (`internal/instance`) | memoised documents, the auth handler, a one-slot nudge channel | `Start`, `Stop`, `pollLoop`, `Nudge`, `fetch`, `refresh`, `build` | reads the checkout file by file under no lock, while serving's poll rewrites it | documents pass the recompute check, never regress, arrive; no nudge is lost; `Stop` returns |
| **chart sidecar** (`charts/telecraft`) | the directory a `DirSource` reads | fetch and checkout on its own clock | no lock is shared with the server | as serving |
| **write API, forge** (`internal/instance/write.go`, `pkg/forge`, `internal/provider/forge`) | branches and pull requests on the git host | the exits, `Submit`, `Propose` | branch reset, commit and pull request are separate requests, each of which may fail after it was carried out, and race with other calls, with the host and with people | one commit per branch, one pull request, no merge that undoes what was merged after its base was read, and none that moves a rollout otherwise than it was judged to |
| **activation** (`internal/activation`) | a designation record | `Designate`, `Apply`, the impact reports | written onto a record that may have moved; decided on a report judged over another version's evidence | the record loads, its history is kept, and what a report says comes true |
| **rollout evaluation** (`internal/rollout`, `internal/console/rollouts.go`) | none of its own; the readings and the authored stage | `Evaluate`, advance, abort | members fall silent; advance and abort are separate branches | an advance rests on evidence, a halt on a member |
| **estate provider, readings** (`internal/provider/estate`, `internal/readings`) | records and paths per connection; silence and shortfall clocks | `Report`, `Closed`, `Estate`, `Compose`, `ObservePopulations` | two maps under two locks fed by one message; reconnects; clocks fed by documents built on them | the path answered is the wire's; teeth and reds need a span; a shortage that stays is found |
| **sign-in** (`pkg/auth`, `internal/instance/estate.go`) | the auth handler; the attempt, state cookie and session a browser carries | the provider's redirect and callback, password sign-in, `Verify`, `Require` | a handler may be replaced during an attempt and during a session, and is read from three files in the middle of a checkout | a person is admitted as what the estate says they are, in the end |
| **conformance** (`internal/conformance`, `internal/schemaregistry`, `internal/requirements`) | none; the evidence of one build | `Derive`, `GatherSchema`, `Evaluate`, drift | collectors disagree, readings are cut or missing, and two versions are judged over one set of readings | what a verdict names is so, a blind spot is never a pass |

How they interact: a merge in the estate repository is fetched by serving's
poll, or by `Refresh`, or by the sidecar; `LoadSnapshot` compiles the checkout;
the pointer is swapped and the `OnSnapshot` callback tells the instance. A
collector's message is matched against the pointer and answered, and is told to
two taps on the way. The instance's own goroutine polls too, calls serving's
`Refresh` when nudged (`POST /api/refresh`), reads the auth files and rebuilds
its documents from the *working tree*, not from the snapshot: from the taps and
the clocks a Tier's population and claims, from a telemetry backend the rows'
verdicts, from the installed Schema Registry versions the activation reports.
An exit judges a request by those documents, authors files from the working
tree, has them rendered and hands the change to the forge adapter, which
commits onto the base branch as it is by then; people merge. With the OpAMP
endpoint closed the instance takes the snapshots itself and there is no serving
path at all.

## Modules

| Module | Models | Extends |
| --- | --- | --- |
| `Membership` | `rollout.Member`: cohorts by host, by attributes, by pinned hash | |
| `Snapshot` | `LoadTopology`'s outcomes, `LoadSnapshot`, `Match`, the refusal of empty bodies | `Membership` |
| `ServingContract` | the promise: nothing or one loadable commit is served, it only moves forward, an offer is what that commit decides | |
| `Serving` | the serving path, its threads, checkout, mutex, pointer and wire | `Snapshot`; instantiates `ServingContract` |
| `Instance` | the Instance server's goroutine beside, or instead of, the serving path | `Serving` |
| `Forge` | `Submit`, `Open` and the GitHub adapter's `Propose`, request by request, with the host and the people who review | |
| `Activation` | the designation record: what it may say, `Designate`, `Apply` | |
| `Proposal` | the exits and the rollout's advance and abort, each authoring a change from what it has seen | `Forge`, `Activation` |
| `Judgement` | findings on a population, pipeline and data claims, `deliveryStatus`, `Evaluate`, all in spans of time | |
| `Readings` | the wire's two taps and the Composer that reads them | `Judgement` |
| `Ledger` | a staged Rollout and its ledger over declared readings | `Judgement` |
| `Fleet` | the documents' readings composed: builds, clocks, a wire that moves | `Readings`, `Ledger` |
| `SignIn` | the auth handler read from a moving checkout, an attempt, its cookie and its session | |
| `SchemaRegistry` | a Schema Registry version and what a scope demands under it | |
| `Verdict` | `Evaluate`: the cross, the landed and the live schema arms, drift | `SchemaRegistry` |
| `Evidence` | `Derive`, the readings planned and gathered, how references resolve | `Verdict` |
| `RegistryImpact` | the impact report of another version | `Evidence` |
| `Conformance` | one row from one build to the next, with an activation between them | `RegistryImpact` |
| `Ownership` | `teams.yaml`, the team tree, routing and roll-ups, code ownership | |
| `AllowList` | Allow-lists, Grants and the effective palette | `Ownership` |
| `Blueprint` | Components and Blueprints: what loads, resolution at head, reference and ordering findings | `AllowList` |
| `Topology` | Tiers, Services, Rollouts and the two estate-level destinations | `Blueprint` |
| `Render` | floors, the compiled lanes, the generated parts, one render and its refusals | `Topology` |
| `Drift` | `library_drift`: pins, claims, floors | `Render`; instantiates `Verdict` |
| `Estate` | one merge after another over all of these | `Drift` |
| `Snapshot_proofs`, `Serving_proofs`, `Instance_proofs`, `Proposal_proofs`, `Fleet_proofs`, `SignIn_proofs`, `Conformance_proofs`, `Estate_proofs` | the theorems | the module each is named for |
| `MCServing`, `MCInstance`, `MCProposal`, `MCFleet`, `MCSignIn`, `MCConformance`, `MCEstate` | instances for TLC | the module each is named for |

`ServingContract` is the abstract specification. `Serving` implements it
(`ImplementsContract`), and with the endpoint open `Instance` implements
`Serving` (`ImplementsServing`); both are checked and proved. The second is why
what is proved of `Serving` is true of the process collectors really talk to.

## How the modules follow the code

**Files.** A commit is a function from a few *groups of files* to contents. A
checkout is `work`, with a value or `Absent` for each group; `git checkout`
unlinks and rewrites the groups that differ one step at a time and in any
order, holding `index.lock`. In `Serving` the groups are `topology` (the
authored `teams/` tree) and `tree` (the committed `rendered/` tree); `Instance`
adds `rows` (what the verdicts need) and `org` (teams, users, providers), and
gives a tree the sources (`of`) and the commit (`stamp`) it was rendered from,
which is what `verifyRendered` compares.

**Threads of `Serving`.** `Main` is `Start`, `Poll` is `refreshLoop`,
`Refresher` are callers of `Refresh`, `Sync` is the sidecar, whose clock is
`Asks` as the poll's is. `pc[t]` follows one call of `fetch`:

    lock -> fetch -> fetched -> checkout -> revparse -> topology -> tree -> swap -> announce
            git fetch  (gap)   git checkout  rev-parse  LoadSnapshot         Swap   OnSnapshot

A `DirSource` starts at `revparse`. Each failure goes through `Fail`, the early
return with its deferred unlock. `Main` holds no mutex, as in `Start`; nobody
else runs then. `label`, `topo` and `snap` are the call's local variables.

**The wire.** One message and one answer are in flight per connection, as the
OpAMP client and the handler's per-connection goroutine have it. `AgentReports`
leaves out the description unless it is owed; `AgentApplies` runs the offered
configuration or keeps the old one, and in both cases the last hash *received*
is the new one. A break of the connection drops what was in flight.

**Instance.** The goroutine's position is `at`. `Tick`, `TakesNudge` are the
branches of `pollLoop`'s select; `fetch`/`fetching` is the call of serving's
`Refresh` (or of the source itself when the endpoint is closed), as the thread
`Docs`; `auth` is `refreshAuth`; `build`, `new`, `stamp`, `rows`, `teams`,
`render`, `verify`, `compile`, `tree` are the reads of `build` and
`console.Build`, in the order they happen. Between any two of them `Poll` may
write the checkout. Whether the endpoint is open is `opamp`, chosen at the
start and never changed. `shown` is a history: for each part of the documents
(the sources taken, loaded and compiled, the stamp, the rows, the teams), what
was last shown of it. `DocsNeverRegress` compares each with what is shown next,
so that documents of a new estate in between hide nothing.

**Proposals.** A call is one request of an exit from its authoring to its
answer, and `pc[c]` is the request it makes next: `Submit` renders (and waits
for a renderer that is unavailable), `Propose` reads the base ref, creates or
force-moves the branch, commits with the head it expects, lists the pull
requests of the branch, refreshes or reopens or opens one. Any request may fail
with or without having been carried out. Between any two the host closes pull
requests whose branch holds nothing, and people merge, close and delete. The
estate is a function from a few *keys*, parts of authored files; a change is
the whole files it writes (`files`), what its exit meant to change (`intends`),
the head its working tree was at (`at`) and the one its documents were of
(`judged`). A *crew* fixes which exits a behaviour has, those that meet on a
file or on a branch.

**Fleet.** A scene fixes what moves. On the wire each message is told to the
estate tap and then, as a step of its own, to the delivery tap; `Compose` reads
the estate and asks for each path one after another. Instants are kept as spans
and age by `Tick`, no further than the longest span any judgement compares
with. The documents are what a Tier or a row says with teeth or as pending, and
the clocks that the next build starts from. The ledger is that of the
`snapshot` command, over declared readings.

**Sign-in.** One person, their tabs, their one state cookie and their session,
against the handler of the moment. A refresh reads `teams.yaml`, `users.yaml`
and `auth.yaml` as the checkout has them just then, each of the old commit, of
the new one or unlinked. An attempt keeps the handler its callback began with
(`held`). People share nothing but the handler, so one at a time is followed.

**Conformance.** A world is what is true of a Service's telemetry and its
collectors; `lost` says which answers of a build came back cut or not at all; a
build resolves the library's references, plans the readings, gathers and judges
them, and reports on every other installed version. Properties compare a
verdict with the world, in terms that use no reading (`Conforms`). The row's
derived Effective reading is that of `Derive`, which `telecraft check` judges
by; an authored row (`override`) is judged as it is written.

**The estate at head.** A head is a record of everything authored at a commit,
an edit replaces one part of it, and `CanMerge` is `telecraft render`: the
loaders in their order, then `Render`, which either yields the whole tree or
refuses. A name is the sequence of its dot-separated segments, so that an
authored name can land on a generated one; a team is one segment. An artefact
keeps the components it defines, its extensions, the pipelines it wires and
what it is stamped with. `Merges` writes the rendered files over those there
are and removes none.

**Abstractions.** Lock release and `HEAD` update are one step at the end of a
checkout. A first clone is modelled by the same steps as a fetch and a
checkout. `verifyRendered` compares the tree in one step, `LoadSnapshot` reads
it in one step. An endpoint that cannot be opened ends a start like a crash
does. 0 stands for the empty commit name that a `DirSource` goes on with when
its rev-parse is cancelled. A rendered artefact is a model value, one per
distinct body, so an equal hash is an equal artefact. The rules about one
authored file are one flag (`sound`); those that relate a rollout to its Tier
are spelled out. A volume floor and a coverage floor are one flag (`enough`).

## Runs

| Run | Instance | Shows |
| --- | --- | --- |
| `serving_gitsource` | `GitSource`, temporary clone, one collector, 4 commits: a Tier, a refused commit, a staged rollout, the Tier removed; crashes, outages | the reader is never ahead, nobody runs another's artefact, `Serving` implements `ServingContract`; `HeadArrives`, `RestartIsANonEvent`, `CollectorsConverge` |
| `instance_open` | endpoint open or closed, kept cache, a `Refresh` that may be cancelled, 2 commits that change every group of files but the rows; may exit | `SnapshotIsOneCommit`, `RefreshCoversTheAsking`, `RecomputeInvariant`, `NudgeNeverLost`, `DocsNeverRegress`; closed, `DocsOfOneCommit` |
| `instance_live` | endpoint open, a commit in which a user joins; stops and crashes | `StopReturns`, `DocsArrive` |
| `instance_serving` | endpoint open, a collector, the sidecar's directory | `ImplementsServing` |
| `proposal_exits` | two calls of one crew, stale trees and documents, a base branch that moves | what a branch holds, which pull requests there are, what a merge may change and where it may take a Rollout; every call answers |
| `fleet_judged` | 2 collectors, 2 connections, a staged rollout | the path answered, the spans behind a finding, the evidence behind an advance or a halt; a shortage that stays is found |
| `signin_polled` | 3 people one at a time, 3 commits, 2 tabs | a session is admitted as its person's whole membership; the estate decides in the end |
| `conformance_judged` | 1 row, 3 registry versions, 2 collectors, one short answer per build | verdicts are true of the world, drift is exact, blindness never passes, a report comes true |
| `estate_head` | 3 teams, 2 Tiers, a Rollout, two starts, 3 edits of any authored file | palettes, artefacts, closing a Rollout, floors, pins and roll-ups |
| `serving_dirwire`, `serving_restart`, `conformance_report` | | see [below](#where-the-code-and-its-documentation-disagree) |

**Bounds.** Serving and Instance: `MaxHead` bounds the commits the repository
ever has. Two are enough for every race between a checkout and a read (old and
new), which is what `instance_open` asks of (its rows stay, being read once as
the users are; the theorem is of rows that change too); `serving_gitsource`
adds a refused head between two good ones and an estate that loses its last
Tier. In `instance_open` the poll and the goroutine's `Refresh` are two
contenders for the mutex, in every order; the theorems hold for any number.
Connections do not interact with one another except through the snapshot, so
one connection meets every case; the theorems hold for any number. Ticks,
nudges, outages, crashes and reconnects are unlimited. `CanExit` and
`Conn = {}` keep an instance small where the question does not turn on exits or
collectors.

Proposal: two calls, which is what a race on a branch takes; one replica, whose
tree and documents lag each for itself, as a second replica's would; three
versions of the base branch (`MaxMain`), enough for one merge to land between
another call's reading and its own merge; a Rollout of two stages that starts
at either, so that an advance may put back one that an abort ended (a move back
to an earlier stage takes a third, and is left to the theorem); two versions of
the substrate (an activation lost to a record read before it takes a third, and
is left to the theorem); two attempts at rendering; crews `{compose, draft,
tier}`, `{attach, rollout}`, `{activate}` and `{govern}`, each the exits that
share a file or a branch.

Fleet: two collectors and two connections, so that one reconnects, both share
one identity, or they swap; a floor of two; `Grace` 2, `Horizon` 1 and `Soak` 2
ticks, distinct so that no span stands in for another; the abort threshold is
2/3 (the code's default is a tenth) so that two members tell a block from an
abort. Time passes between builds only, which moves a build's instant and its
clocks alike. The scenes are explored apart.

Sign-in: alice is named in `users.yaml` and later is not, bob is placed by two
groups, and the minted loopback sign-in is the third; the three commits move
the provider of one name from OpenID Connect to SAML and back, add and repoint
a rule, shrink the tree and drop `users.yaml`. `Loopback`, `TLS`, `Basic` and
`KeepsKey` are TRUE, which leaves every branch of the code reachable but the
refusals of a bare start.

Conformance: one Service in one Environment, with a requirement and a Tier of
another present so that leaving them out is seen; two collectors, which agree,
disagree or are silent; versions that withdraw an enum's value, tighten a
level, and add a metric group with an attribute of its own; a short and a long
window; at most one answer short per build (`MaxLost`), a cut drops one item
and never everything; one activation between two builds, and the second build
meets the first one's outage. A designation may name a version that is not
installed, which the build refuses. One library only tracks head, so that a
report can be made before anything is active, and under a version that demands
no metric group; a candidate of its demands one that no build has read.

Estate: a platform team over a paying team over its cards team; one production
Tier behind a trusted and an untrusted Hop and one in staging; two Blueprints
that share a receiver, so that a Rollout's two sides differ; a processor below
every floor, under its old name; for each file the edits that the rules tell
apart, refused ones included (a Team nested twice, a local on the strip's id, a
lane with no exporter, a class no policy ranks). Four commits (`MaxCommits`) are
a start and three edits, enough to stage, move beneath and close a Rollout, or
for a list, a Grant and a change of owners in any order.

Symmetry is not used, because most runs check temporal or action properties.
Deadlock is checked in every run but those of `Proposal`, `Fleet`,
`Conformance` and `Estate`, whose systems do stop: every call answered and every
merge made, no one left to report, one activation judged.

## Fairness

The safety properties assume none. `FairSpec` and `FairInstanceSpec` assume
what the code and its platform give:

- a goroutine that can take a step takes it (weak fairness of each thread's
  steps), git commands end, and the ticker ticks (`Asks(Poll)`, `Tick`);
- the Go mutex, which hands over to a waiter that has starved for a
  millisecond, starves nobody: strong fairness of `Lock`;
- `select` picks at random among what is ready, so a context that is done is
  seen in the end: strong fairness of the stop in `Instance`;
- a process that is down is started again, by systemd or Kubernetes;
- a collector reconnects, reports on its heartbeat and applies what it is sent.

`ProposalSpec` assumes that a call goes on: a request is answered or times out
(weak fairness of `Step(c) \/ Failure(c)`). `FleetSpec` assumes that a message
told to one tap is told to the other, that the instance refreshes on its ticker
and a build ends (weak fairness of `Taps`, `Begins`, `Asks`, `Ends`), and that
time passes (strong fairness of `Passes`, which a build disables for a while).
`SignInFairness` assumes that the poll ticks, a process starts, a checkout ends
and a session's twelve hours pass (weak fairness), and that a person sent away
comes back before the cookie lapses and waits for the answer some of the times
they try (strong fairness of `Returns` and `Completes`).

Nothing else is owed: no merge, no nudge, no outage's end, no `Refresh`, no
report of a collector to the taps. Each liveness property says instead what has
to stay true for its conclusion, for example `HeadArrives` that the repository
is reachable and the process up from some moment on, `EstateDecides` that the
head stays and the issuer answers, `ShortfallSurfaces` that the Tier stays
short. `serving_gitsource` has no cancellable caller: in the code only the
instance's stopping context cancels a `Refresh`, and `instance_live` has that.

## Where the code and its documentation disagree

Three are runs that TLC finds violated.

- **`serving_dirwire`.** With a `DirSource` the sidecar may check out between
  the server's read of the topology and its read of the rendered tree; each is
  whole, so nothing refuses, and a collector is served an artefact that no
  commit decides for it. `serving.go:78` promises "bounded staleness, never
  mis-delivery". With a `GitSource` this cannot happen (`NoMisdelivery` in
  `serving_gitsource`).
- **`serving_restart`.** With `serve -cache`, a process that dies inside `git
  checkout` leaves `index.lock` in the cache and every later `Start` fails on
  it. `serving.go:18` calls a restart "a non-event by construction". With the
  temporary clone it is one (`serving_gitsource`).
- **`conformance_report`.** The impact report of a Schema Registry version
  names every schema requirement that a Service passes as newly failing, also
  when it passes under the candidate: `newlyFailing` (`activation/
  registry.go:229-252`) skips what failed before and never asks whether it
  fails now, and `failures` has an entry for a passing finding as well.
  `registry.go:221-222` says "the Services that pass a schema requirement under
  the active version and fail it under the candidate". The attributes it names
  are right (`ReportForetells`).

The others are told here only. The models behave as the code does in each of
them, and the properties are stated so as not to deny them.

*Serving and the instance.*

- With the endpoint open the documents may mix the rows or users of one commit
  with the topology of another, since the build reads a working tree the poll
  is checking out (`estate.go:101`). `instance.go:425-427` says "a stale
  document set describes the commit it names". With the endpoint closed it does
  (`DocsOfOneCommit`), and in both cases the recompute check holds. A build
  that begins while git has unlinked the last Tier file answers the documents
  of a new estate. The documents may describe a head that serving has checked
  out and refused.
- Two fetches may announce in the other order than they swapped, so the
  `OnSnapshot` reader may go back for a while; it ends on the head served and
  is never ahead.
- A collector whose apply failed reports the hash it was sent, and is not
  offered the artefact again; what converges is what it was *sent*.

*Proposals.*

- Two drafts authored from a stale checkout may give one version two bodies
  (`estatefiles.go:242-246` against ADR-0024 §7). A Tier drafted beside a
  Blueprint binds the version the draft names (`write.go:138`) while the
  Blueprint is authored at the held version plus one.
- `propose.go:14-19` says that a loser "sees the branch exists and no-ops", and
  that duplicates are structurally impossible; `moveBranch` resets an existing
  branch by force and goes on. A `Propose` that fails after the reset leaves
  the branch empty and the host closes the pull request an earlier call had
  opened, while the caller is told that nothing was opened (`write.go:370`).
- An exit judges by the documents and edits the working tree, and `Propose`
  commits onto the base as it reads it then (`write.go:115`, `github.go:258`).
  What was merged in between is not seen, and git has no conflict to report.
  An advance judged before an abort was merged puts the Rollout back, one
  judged before another advance may put it to an earlier stage, and a
  completion rebinds the Tier of an aborted Rollout, though the abort "closes
  the book" (`propose.go:88-92`). An attach takes a rebinding back, since it
  writes the whole Tier file; an activation leaves out of the record one merged
  in between, and carries a report from the version the documents had active.
  `MergedStaysMerged`, `RolloutMovesAsJudged` and `AuditTrailKept` bound this:
  what a merge replaces is what the base held when `Propose` read it, and what
  it puts there is what the change meant, or what the working tree held.
- An attach computed from stale documents may narrow a selector it means to
  widen.

*The fleet.*

- `console/judge.go:88` seeds the clock of every pipeline claim with the
  instant the Tier's population fell short, so a component first found silent
  in a Tier long short is a violation in that same document;
  `expectation/evaluate.go:93-94` says "a red requires the shortfall to have
  persisted this long". With the population at its floor a silent component
  stays pending for ever, since nothing feeds it a clock.
- From the second stage on the soak counts from the first stage's applies
  (`console/rollouts.go:281-289`, "never over-claims one").
- `readings/delivery.go:79-81` says that a path served to nobody "cannot arise
  from the Composer"; a collector that moves between the two reads is reported
  so. `Estate` (`opampdirect.go:189-212`) reads records after unlocking, while
  `Report` writes them: a data race.
- In a live Instance a record goes with its connection, so that a member gone
  dark is one no longer seen, and the ledger's decision is always to hold; a
  Tier fallen to zero reads as never seen (`findings.go:184-187`). Without a
  telemetry backend `Compose` returns early and a shortage never gets teeth. A
  Tier or row that leaves the estate and returns finds its old clocks, against
  ADR-0035 §3. `runningSHA` defaults to the build's commit (`judge.go:522-540`)
  where its comment says "never head". Members on the git path never count as
  running the new artefact.

*Sign-in.*

- A poll that meets `auth.yaml` unlinked withdraws single sign-on until the
  next, and one that meets `users.yaml` unlinked mints a bootstrap sign-in on
  loopback, though `Start` refuses "serving something narrower than the
  reviewed estate". Removing the only user is refused by the loader, so the old
  handler and that person's session stay, against "removing a user revokes
  them at their next request" (`session.go`); `EstateDecides` is of a head that
  loads.
- OpenID Connect discovery is "Cached for the process" (`oidc.go:363-367`) and
  lives with its handler; the ten minutes of the state cookie are enforced by
  the browser alone; a display name is frozen in its session; `isOperator`
  (`write.go:403`) asks the documents' tree about an actor resolved in the
  handler's.

*Conformance.*

- Names cut on one covered signal can hide an enum attribute that another
  carries, whose values are then never read there: the verdict is compliant
  though an undeclared value arrived (`schema.go:888-893`, against "a clean
  truncated value reading is unknown rather than compliant"). `VerdictIsTrue`
  sets cut names aside for a pass.
- When one covered signal cannot be read and another lacks a required
  attribute, the blind spot is reported as misconfigured (`readScope`), against
  `conformance.go:68-71` and ADR-0008. `VerdictIsTrue` sets unread names aside
  for a red.
- A report does not foretell drift of a pinned requirement behind the
  candidate, whose readings are planned for the active version only;
  `ReportForetells` is of the attributes named and of tracking requirements.
- Nor does it name an attribute that only a metric group demands which no
  version judged before asked for. Whether the group arrived was then never
  read, its demands stay out of play (`schema.go:440`, `judgeUnder`), and a
  Service that fails the requirement already newly fails on that attribute in
  the next build. `activation/registry.go:36-41` says that the evidence "is the
  same reading in both passes because it is a reading of the estate rather than
  of a registry". `ReportForetells` asks for the attributes of a version that
  asks no more (`AsksNoMore`); that a Service stops passing is always told.
  `library_drift` does not pass and is violation grade, so an activation moves
  a pinned requirement's score, against `requirements.go:298-302` ("must not
  silently move"). A requirement left unknown with something missing counts as
  newly failing.
- `tightenedLevels` leaves out a level that is not declared, which judging
  takes as recommended; a new reference that demands an existing attribute is
  neither added nor tightened. A library of tracking requirements only, before
  the first activation, is reported as "no estate reading was taken". An
  onboarding date in the future lets time alone start a waiver
  (`estate.go:83-96`).

*The estate at head.*

- A reference renders the Component at head whatever it pins
  (`blueprint.go:339`), while `docs/concepts/authoring.md:106` has "a team
  shipping a critical fix cannot force it to propagate"; `NoSilentSubstitution`
  is that somebody is told. "Changing content without bumping the version is a
  mechanical render refusal" (`authoring.md:109-112`) is nowhere in the code.
- One team's retraction stops every team's render (`render.go:290-332`), which
  `blueprint/load.go:39-42` says it must not. A floor breach is reported as one
  that "has since been raised" (`drift.go:371`), though nothing refuses it when
  it merges.
- A completed or aborted Rollout leaves its `@next` artefact behind, since
  `telecraft render` writes and never removes (`cmd/telecraft/render.go`
  99-115), against `docs/guides/stage-a-rollout.md:183`; `LoadRendered` then
  reads it under no Tier's name.
- `FloorPolicy.Validate` accepts a table where a stricter class has no floor at
  all, which relaxes what a weaker class's Path demands; the assumption of
  `Render` is what it accepts, and `APathNeverRelaxes` is checked over a table
  without such a gap and proved of every one (`PathsNeverRelax`), against
  `docs/concepts/environments.md:94`, "Floors are validated as cumulative [...]
  because adding a C1 Path would then *relax* a Tier's judgement".
  `ownership.Load` reads `telemetry.yaml` and
  `live-check.yaml` as object files (`load.go:52-60`).

## Proofs

`tlapm` checks every leaf. Assumptions are the named `ASSUME`s of the modules,
which say what the constants are; TLC evaluates them in every run of the
module. Those that say something of the code: `CommitAssumption` (commits are
functions over `Files`, what is authored in them is finite), `BundleAssumption`
(a nil document set is not one a build makes), `EstateAssumption` (an exit's
branch name is a branch; the repository starts from trees that load),
`ReadingsAssumption` and `LedgerAssumption` (an absent link or stage is not a
present one), `JudgementAssumption` (windows and thresholds are as
configuration admits them; a cohort is a set of collectors for each stage), and
`ConformanceAssumption`, which is what loading enforces before a verdict is
ever computed: every installed registry is valid, only a definition of an
attribute carries an enum's members, requirement ids are unique, an assertion
names known signals and at least one, and what arrived carries an attribute (it
has at least the `service.name` by which it was attributed).
`ReportedAssumption` has finitely many findings, which arrive in a slice;
`RollupAddsUp` is about those that all route, since `Rollup` answers with an
error where one does not (`rollup.go:57-60`). No assumption bounds `MaxHead`,
`MaxMain`, `MaxLost`, the calls, replicas, collectors, connections, spans or
the estate.

`Serving_proofs`, for a `GitSource`. The inductive invariant is

    IInv == TypeOK /\ Exclusion /\ (\A t \in Taker : Knows(t)) /\ Held /\ Wired

and the argument: (1) at most one thread is inside its source or on the way to
its swap (`Exclusion`, lemma `Alone`): it holds the mutex, or it is `Main` and
the process is still starting; this is the part that none of the checked
invariants says and all need. (2) Therefore what a thread has read so far is of
the commit its checkout named: past `checkout` the working tree *is*
`Commit[head]`, past `revparse` the label is `head`, past `tree` the compiled
snapshot is `LoadAt(label)`. (3) Therefore the pointer holds `LoadAt` of its
own label, labels reach the pointer in the order they were fetched, and
(`Wired`) an answer in flight is an artefact decided by such a snapshot. The
theorems: `TypeCorrect`, `ServesOneCommit`, `OpensOnASnapshot`, `RefreshIsFresh`,
`ReaderFollows`, `HeadOnlyAdvances`, `OffersOnlyArtefacts`, and `Refinement`:
`Spec => ImplementsContract`. `NobodyRunsAnothers` is `Spec => []NoMisdelivery`: on
top of `IInv` it carries `Delivered`, which says of an answer in flight what
`NoMisdelivery` says of a collector, and needs that what was decided stays
decided because `newest` only grows. `OpensOnASnapshot`, `HeadOnlyAdvances` and
`OffersOnlyArtefacts` are proved only: no run repeats them.

`Snapshot_proofs`: members of a cohort stay members at later stages
(`StagesOnlyWiden`) and at greater percentages (`PercentagesOnlyWiden`), for any
hash; and in a snapshot that loaded from an estate with a Tier, every collector
is decided an artefact with a body (`EveryCollectorIsDecidedAnArtefact`), which
needs that the winner of `Match` exists.

`Instance_proofs`: an instance whose endpoint is open (`OpAMPOpen = {TRUE}`) is
a `Serving` (`AnInstanceServes`), hence serves one commit
(`AnInstanceServesOneCommit`); for either kind, `NudgesAreKept`, and
`DocumentsRecompute`, whose invariant says that every file ever seen in the
checkout is one of some commit already fetched (`Checkout`) and that a draft
past `verify` carries a pair that was compared (`Drafted`).
`DocumentsNeverRegress` adds `Readings`: what a file holds is of a commit
between any earlier reading of it and the last fetch, since a checkout writes
only the head last fetched, even one that is killed half way (`Holds`); so each
part a draft has read is what its file gave, and no older than what was last
shown of it (`PartRead`), and so are the sources and the tree compiled last
(`CompiledRead`). `DocumentsOfOneCommit`, for a
`GitSource`, holds because with the endpoint closed one goroutine does
everything (`OneGoroutine`: nobody else is past idle), so from the checkout's
end to the swap the directory stands still, and a draft read in between is of
the commit at its head (`DraftedHere`). Stop may kill a checkout, hence
`DraftedHere` is kept only until then.

`Proposal_proofs`. The inductive invariant is

    ProposalInv == Types /\ Repository /\ Proposes /\ Offers /\ AllAlone /\ NoSecondProposal

and what it adds to the checked properties is `AllAlone`: a call that nobody
disturbed is the only one at work on its branch, so it finds there what it
left. It is why a call answered "done" has its commit and its pull request.
`Proposes` says that a change's files are those of the commit its call read,
but for what it means to change, and that a record among them is what `Apply`
makes of a sound one. The theorems: a branch holds one commit, on the base its
call had read (`BranchesHoldOneCommit`); only a call that somebody met opens a
second pull request (`NoneBesideAnother`); what an undisturbed call answers is
what is on offer (`TheAnswerIsTrue`). Of a merge, whatever was merged
meanwhile: it replaces only what the base held when `Propose` read it, and by
what its exit meant or had found (`WhatOthersMergedStays`); it takes a Rollout
to the stage its evidence was judged for (`RolloutsMoveAsJudged`); and it adds
one activation to those its exit had found (`AuditTrailIsKept`, which also says
that the record always loads). They rest on what git makes of one key
(`Delivery`), on `Moves`, which ties a change's branch to its stage, and on
`Parented`: a commit deletes only what its parent has.

`Fleet_proofs`. The inductive invariant is

    FleetInv == WireInv /\ ClocksInv /\ LedgerInv

`WireInv` says what two taps told by one goroutine know of its connection at
every point between its two calls (`TapsAgree`), and that whoever the builder
has still to ask about was read off a record that stands unless its connection
moved since (`StillRecorded`); from it, `PathIsTheWires`. `ClocksInv` bounds
each clock of the Composer by the span the documents have shown its gap; from
it, `FindingsServeTheirWindow`. `LedgerInv` says that a collector runs what it
reports applied, and that while the first stage stands nothing was applied
before it began; from it, `AdvancesRestOnEvidence` and
`AHaltHasAMember`.

`SignIn_proofs`: resolving the groups the rules name gives the Owner that the
whole membership gives (`NarrowingKeepsTheOwner`), a fact about the first rule
that matches; from it and `TypeCorrect`, that every session is admitted as its
person's whole membership says until a rule names a group none named before
(`AdmittedAsHeldAlways`), over any sequence of handlers.

`Conformance_proofs` begins with the verdict alone: the worst of a set of
outcomes is one of the set and no less severe than any of it, so a reading that
does not pass is kept by every finding made of it; hence a scope with an unread
covered signal never passes (`BlindIsNoPass`), for any requirement, registry
and evidence. The rest takes that to the specification. Its inductive invariant
is

    ConformanceInv == SceneInv /\ ShortInv /\ DocInv

where `ShortInv` says that each answer cut short is one its backend can cut,
and `DocInv` that the documents hold what the evidence of their build says,
under a version the library loaded against. Above it the argument is about one
landed verdict: every reading is *faithful* to the world (it is blind, or what
it returned was there, and is all there was unless it says it was cut,
`AnswersAreFaithful`); the plan buys every reading that judging the requirement
asks for; and each outcome of a verdict then proves something of the world. A
pass proves it conforms, a fail names what the world lacks or holds amiss, and
an unknown has a blind or cut reading to account for it. The theorems: a cross
verdict blames what all the collectors that answered run and what arrived
(`TheCrossIsTrue`), a pass conforms and a red does not (`VerdictsAreTrue`),
drift is told of a scope that passes its pin and fails the active version, and
always where every reading is whole (`DriftIsProven`), and where every reading
is whole nothing is unknown, while a scope with a covered signal unread never
passes (`UnknownsAreCaused`).

That a report comes true (`ReportsComeTrue`) compares the evidence of one
build, filed under the candidate (`Refiled`), with that of the next build under
it. The lemmas are about two evidences of which one is *fuller* for a registry:
both read the same signals, and of the groups and values that judging under the
registry asks for, what the first has read the second has read alike. A fuller
evidence names no fewer attributes missing, clears up no red and spoils no pass
(`LacksFuller`, `RedStays`, `PassStays`). The next build is fuller than this
one for every version it judges under, because its plan buys what they ask
(`BuildIsFuller`), whichever answers are short. Trying to prove the converse is
what showed that a report leaves out the attributes of an unread group.

`Estate_proofs` rests on one invariant, `CanMerge(head)`: a head was merged, so
it loads and nothing in it is refused. From it, over any edits of any file and
any order of merges:

- a Rollout can be completed and can be aborted, whatever was merged since it
  was opened, and its Tier then renders what the cohort had, or what the others
  had (`RolloutsKeepTheirWord`). The problems of a binding and the artefact of
  a Tier are functions of the parts of a head that a closing leaves alone
  (`SameParts`, `SameProblems`, `SameArtefact`), and the `@next` artefact was
  rendered from the Tier that the completion authors;
- what renders instead of a pin is told (`NothingIsSubstitutedSilently`): a
  reference of a head that merged is provided, so its pin is at head, behind it
  and found by the drift detection, or ahead of it and found by the load;
- every artefact is whole (`ArtefactsAreWhole`). An id is defined once
  (`DefinitionsAreUnique`): no two components of a Blueprint share a rendered
  id or take a generated one, since that is refused, and one id has one body. A
  lane, however many entries it has, compiles to ids its Blueprint lists
  (`LanesCompile`, `LanesNameTheirOwn`), and has an entry and an exit or is
  refused (`NoSideIsMissing`); nothing the Blueprint lists takes the id of the
  strip, so in an untrusted Tier the strip a pipeline begins with is the only
  one, in the live-check branch as well (`LanesAreWhole`, `BranchesAreWhole`);
- nobody widens what they may use, over any team tree
  (`WideningNeedsAnAncestor`). The palette is a walk down the chain of a Team,
  and the walk is read forwards (`StandingsAreWalked`): what it allows below a
  list that leaves it out was granted after that list (`AllowedOrGranted`), and
  the Grant's owner answers for a Team strictly nearer the root, which nothing
  beneath the Grant's Team is (`ChainsDescend`, `SubtreesComeAfter`);
- a roll-up adds up, over any team tree and any finite set of findings
  (`RollupsAddUp`). What a roll-up counts is the size of a set of findings
  (`CountedIsIn`); the subtrees of two Teams with one parent have nothing in
  common (`SiblingsAreApart`), a Team is in no child's, and everybody is beneath
  a Team at the top (`EverybodyHasATop`), so the sizes add up (`CountsAddUp`);
- no Path of a ranked class takes a breach away from a Tier
  (`PathsNeverRelax`), under the hypothesis `Gapless` on the floor table: where
  a class has a floor, a stricter one has. Of ranked classes there is a
  strictest, by the order of the ranks, and its floor is no lower.

A tree, a lane and a sum are as long as somebody authored them, so the last
three are inductions over data. The library's induction theorems take an
operator, which the provers cannot instantiate; `Estate_proofs` begins with
first-order ones instead, in which a set stands for the predicate (`ByRank`,
`ByStep`) and a function for the equation (`Recursion`: where what is made at a
point uses lower ranks only, a function that satisfies the equation exists).
They follow from the well-foundedness of `<` on `Nat` alone. A recursive
function of a module is a `CHOOSE` over its equation, so once one exists the
equation holds of it, and what the community modules' folds and sums compute is
such a function over the subsets of a set. The rank in the tree is the position
in `teams.yaml`: a Team is written inside its parent, so after it
(`WrittenInside`, `TeamsAreATree`).

`Gapless` is no assumption of the model, because `FloorPolicy.Validate` does not
ask it and the property is false without it: with floors for C2 and C3 alone, a
Path of a C1 Service leaves a Tier with no floor. `DefaultFloors`, the one table
every command passes (`cmd/telecraft/render.go:89`, `check.go:454`,
`activate.go:167`, `console/build.go:152`), has no gap.

Only model-checked:

- everything temporal under fairness, which the prover cannot do:
  `HeadArrives`, `RestartIsANonEvent`, `CollectorsConverge`, `StopReturns`,
  `DocsArrive`, `EveryCallAnswers`, `ShortfallSurfaces`, `EstateDecides`.

Every safety property a run checks is stated by a theorem.

## What is left out

- The text of YAML, the `delivery`, `card`, `metering` and `livecheck`
  evaluators and the normalisation of configurations, which are functions of
  one reading; importers; the front end; the development environment.
- Of the estate at head, a drift History, which no command wires, the spelling
  of names and patterns, and how `telecraft check` gathers its exit code.
- Of the exits, the rulebooks that refuse a draft, a claim or a policy by what
  it says, and previews; the forge's installation token and its capabilities.
- Of sign-in, how tokens, assertions and password hashes are verified, an
  actor's edit horizon, and SAML's metadata file, a fourth that a checkout may
  unlink.
- Of conformance, waivers, exemptions, grace windows, remediation texts and
  coverage ratios; of expectations, how they are derived, enrichment and settle
  windows, since a live reading knows no instant of applying and reads as
  settled.
- Messages that carry only health, capabilities or package statuses are not
  told apart from a heartbeat. A record's age in a live reading, over which
  `Estate` and `Report` race, is not kept.

## Plan

Done: every module above, and a theorem for every safety property. Next, by how
much each would say: the documents the console shows beside the judged ones
(`project.go`, cards and readings as they are composed), waivers and grace
windows of conformance, delivery status and metering. A palette, a compiled lane
and a roll-up of those would rest on the lemmas about recursion that
`Estate_proofs` begins with.
