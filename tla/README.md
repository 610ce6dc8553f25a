# Verification of homelab-ng

The repository is a Kubernetes homelab: mostly declarative manifests, and some
2200 lines of programs that run in or beside the cluster. This directory holds
TLA+ models of the programs that have state and company, the TLC runs that check
them on small instances, and TLAPS proofs of what matters most for every
instance. Paths below are relative to the root of the repository; `T/` stands
for `sophons/apps/traefik`, `P/` for `T/plugin-cilium-trustedips` and `L/` for
`sophons/common/litestream`.

## 1. Inventory

### Components with logic of their own

| Component | State | Operations | Talks to |
| --- | --- | --- | --- |
| **Traefik plugin: watch hub** (`P/main.go` 64-168, 235-378) | `watchManager` (mutex, map of streams), one `ongoingWatch` per key (mutex, subscribers, context), per instance the sets it was sent and `ipStore` | `New`, `connectOrSubscribe`, `subscribe`, `cancel`, `publish`, `watch`, `updateTrustedIPs` | Traefik (creates middlewares, cancels their contexts at a reload); unbuffered channels between the goroutines |
| **Traefik plugin: watch stream** (`P/main.go` 335-497) | map of items, `initialListComplete`, the HTTP response | `streamOnce`, `syncList`, the mappers, reconnection | Kubernetes API server (watch with `sendInitialEvents`); publishes to the hub |
| **Traefik plugin: forwarded headers** (`P/xforwarded.go`, `P/main.go` 70-76, 231-255) | the stored list of trusted IPs | `ServeHTTP`, `isTrustedIP`, `DeleteXForwardedHeaders`, `rewrite` | requests; the updater stores lists while they are served |
| **Traefik plugin: transport** (`P/main.go` 380-427) | the shared transport and its CA | `RoundTrip` of `k8sTransport` | API server, files of the service account |
| **Litestream sidecar** (`L/`) | databases, `.restored` flags, socket, replicas | three entrypoints, three startup probes, `common.sh` | kubelet (probes, restarts), the application, S3 |
| **Valkey dump sync** (`sophons/apps/valkey/docker/s3.sh`) | dump, `.zst`, fifo, `.ready`, the object in S3 | fetch, upload, event loop, SIGTERM trap | Valkey through the volume and the probe, kubelet, S3 |
| **Dynamic DNS worker** (`T/config/ddns.worker.ts`) | cookie, `lastAppliedState`, the records at Bunny | login, device query, concurrent updates | UniFi gateway, Bunny |
| **Bunny pull zone sync** (`T/config/bunny-sync.sh`, `bunny-hostnames.sh`, `T/cronjob.yaml` 1-110) | the host names of a pull zone, each with its certificate and ForceSSL | read the certificate, list, remove, add, set | Bunny, the kubelet (which renews the mounted certificate), restarts of the job |
| **Trusted IPs sync** (`T/cronjob.yaml` 216-350) | the CiliumCIDRGroups | fetch, render, apply | Cloudflare, Bunny, API server; its output is what the plugin watches |
| **Pi-hole gravity** (`sophons/apps/pihole/cronjob.yaml`, `config/configure.sh`) | the list in S3 with its ETag, the gravity database of every instance | fetch, compare, upload, rolling restart; configuration by API | Pi-hole, S3, API server |
| **ntfy webhook** (`sophons/apps/ntfy/webhook/src/index.ts`) | none of its own; what the sender retries | check the call, map its events to notifications, post them all at once, answer 503 if one failed | updown.io, ntfy |
| **neckhook** (`sophons/apps/headscale/neckhook/src/index.ts`) | a client shared by requests, with its API token | write the address of the caller to a DNS record | Cloudflare, through a library that repeats failed edits |
| **git-sops** (`bin/git-sops`) | index, working tree, encrypted blobs | clean, smudge, merge, textconv | git, sops |
| **WireGuard mesh generator** (`sophons/talos/gen.sh` 93-132) | keys of host pairs | render a configuration per host | files |
| **Swap daemonset** (`sophons/system/swap/daemonset.yaml`) | the swap file of a node | create, resize, enable | kernel |
| **Backup jobs** (`sophons/apps/backups`) | restic repositories | backup, forget, prune, copy | S3, rclone |
| **Edge proxy configuration provider** (`T/config/edge-proxy-config-provider.ts`) | none | answers every request with one fixed Traefik configuration | Traefik |
| Command line helpers (`bin/`) | none | wrappers around one tool each | |
| Manifests, charts, generated type declarations | none | | Kubernetes, Flux, Talos |

### Hard behaviours, and what would make the components correct

*Watch hub.* Five kinds of goroutine meet under two mutexes that are taken in
both orders (`connectOrSubscribe`: manager, then stream; `subscribe`'s goroutine
through `ow.cancel`: stream, then manager), and `publish` sends on unbuffered
channels with a mutex held. Correct: one running stream per key; nobody joins a
stream that has been cancelled between the lookup and the subscription; no
stream is left running without a subscriber; nobody is sent anything after its
subscription was taken back; `New` returns; changes reach every subscriber.

*Watch stream.* Connections break anywhere in a list; deletions that happen
meanwhile are never reported. Correct: what is published is a whole state of the
collection, never a mixture, never older than the one before, the latest in the
end.

*Forwarded headers.* The list changes while a request is served; headers come in
several lines, empty, or with underscores. Correct: what an untrusted peer says
makes no difference; what a trusted one says arrives; the decision is one that
was right at some moment while the request was served.

*Litestream sidecar.* Script and probe run side by side and meet in files that
outlive the container. Correct: the application starts, and only on restored
databases; no replica is replaced by less.

*Valkey dump sync.* Signals between any two commands, events lost before
inotifywait watches, kills half-way. Correct: Valkey runs on top of the dump in
the bucket, no upload loses a write, the last dump is uploaded.

*Dynamic DNS.* Some of several concurrent requests fail, by status or by
rejecting. Correct: a round that is skipped has nothing to do, and the records
follow the gateway.

*ntfy webhook.* Some of the notifications of a batch fail, and the sender's retry
repeats those that did not. Correct: a call is settled only when all it has to
tell has been shown; nothing is shown twice without a failure; nothing is shown
after the answer that settles it.

*neckhook.* A token that belongs to the module and not to the request is set,
and used again by retries after other requests have set theirs; edits reach
Cloudflare in any order. Correct: no attempt uses the token of an earlier or a
refused request; whoever is told "kk" does not find an address from before.

*Pi-hole gravity.* The upload comes before the restarts it is the reason for, and
downloads are appended to a file that outlives a failed attempt. Correct: when a
job is over every instance has the list in the bucket, and in the end the list
that is published, alone; one instance is down at a time.

*Bunny sync.* Everything is compared with one answer, and the certificate and its
key are read one after the other. Correct: a job that is complete leaves the zone
as it is wanted, whatever was cut short before.

*The rest.* Answers trusted without a look (trusted IPs sync), kills between `rm`
and `mkswap` (swap), pairwise agreement between hosts (mesh). "hazards" in
`PROJECT.json` lists, each at its line, what can go wrong in what is modelled, in
the transport and in the trusted IPs sync.

## 2. Plan

Done, in this order: WatchHub, SnapshotFeed and WatchStream, XForwarded,
LitestreamSidecar, ValkeySync, Ddns, AlertRelay and NtfyWebhook, Neckhook,
PiholeGravity and BunnySync, then Backup and FeedHub as the promises of what was
there. All of them have proofs: every safety property that a run checks, the five
refinements among them, is a theorem. The small programs share one MC module and
run, MCSmall, which picks the program it explores in its initial state: the state
spaces add up instead of multiplying, and no liveness property has to be repeated.

What is left, the most important first:

1. **TrustedIpsSync**, composed with WatchStream, whose collection it writes, for
   the end-to-end statement about revoked addresses.
2. **Plugin**, a composition of WatchHub and XForwarded through the sets that the
   updater receives, so that "a change reaches every instance" becomes "a change
   reaches every decision".
3. What a signal does to the Litestream sidecar: the trap that forwards SIGTERM.

## 3. Modules

### WatchHub (`P/main.go`)

One instance of the middleware is a member of `Inst`, one watch key (log name, path
and selector) a member of `Key`, and a stream is named after the instance and
the key it was created for. Each action is what a goroutine does between two
points at which it may have to wait: `Start` (the updater's goroutine starts
before anything is connected), `EnterManager` (takes `watchManager.mu`, finds or
creates the stream), `Subscribe` (takes `ongoingWatch.mu`, subscribes, starts the
goroutine that will unsubscribe, releases both), `CtxCancel` (Traefik),
`UpdaterExit`, `Unsubscribe` (takes `ow.mu`, deletes, and if it was the last one
goes on with `ow.mu` held), `CancelWatch` (takes `wm.mu` in `ow.cancel`), and of
the stream `ListComplete`, `Event`, `PublishLock`, `PublishNext` and `Deliver`
(the rendezvous on the channel), `PublishReturn`, `StreamBreak`, `Reconnect`,
`WatchStop`. `wmMu` and `owMu` say who holds a mutex. What is sent is abstracted
to the version of the collection it was made from.

FeedHub is the promise, without streams and locks: a subscriber joins a collection
once and leaves it once, and in between is shown versions the collection has had,
never an older one than before. `ImplementsHub` is the refinement: `shown` is
`sets`, and `unsub` says which subscriptions are open and which are closed.

### SnapshotFeed and WatchStream (`P/main.go`)

SnapshotFeed is the promise: a log of states of the collection, and a feed that
shows one of them, never an older one than before. WatchStream is the mechanism:
`Connect` (request, empty map), `ListItem` and `WatchEvent` (ADDED, MODIFIED,
DELETED), `ListEnd` (the bookmark `k8s.io/initial-events-end`), `Drop` (an ERROR
event, an unknown type, invalid JSON, end of the response), `LineTooLong`
(`bufio.Scanner` refuses a line of 64 KiB). The API server is external: it sends
the objects of its latest state (`resourceVersionMatch=NotOlderThan` without a
version), then changes in order. `ImplementsFeed` is the refinement: WatchStream
EXTENDS SnapshotFeed and adds state to it, so that the mapping is the identity on
`log`, `feed` and `feedRev`.

### XForwarded (`P/xforwarded.go`, and `P/main.go` for the list)

`Arrive`, `CheckPeer` (the decision, and the deletion for an untrusted peer) and
`Forward` (`rewrite`) of one request, interleaved with `UpdateTrustedIPs`.
Requests share only the list, which they only read, so one is enough. A header
is a map from keys to field lines, a line the sequence of its comma-separated
members; what Go's `http.Header`, `net.SplitHostPort` and `strings` do to those is
modelled by what it does to them. `ever` and `always` are history variables: the
addresses trusted at some, and at every, moment since the request arrived.

### Backup

What a backup promises to an application whose storage is lost with its pod, in
four actions: `StartApp` only on top of everything that is kept, `Write`,
`Replicate` (what is kept never gets less, nor more than the application has while
it runs, nor than what was ever written), `StopApp` (what is not kept may be lost).
LitestreamSidecar and ValkeySync implement it (`ImplementsBackup` in both) with
different mappings: what is kept is what the replicas hold, or the object in the
bucket; what the application holds is what is in the databases, or in Valkey's
memory, while it runs. Writes are numbered, so that one that is gone from one
database is not made up for by another. `Break` is the known defect of each
(`Unnoticed`, or a decompression cut short), after which nothing is promised.

### LitestreamSidecar (`L/`)

The entrypoint is a loop over the databases (`ClearFlag`, `Restore` or
`RestoreFails`, `Touch`, `WalInit`), then `StartupActions` where the scripts have
them, then `Listen` and `Sync` of `litestream replicate`. The probe is
`ProbeBegin`, `ProbeCheck`, `ProbeClear`, one database at a time. `variant` says
which scripts a pod runs: those of a directory, or those of a rendered
configuration, whose restore runs in the background and whose probe also accepts
the socket. (The scripts of a single file are those of a directory of one.)
`Crash`, `KubeletRestart`, `ProbeKilled`, `NewPod` and `AppWrite` are the
environment. A database is the set of writes in it; `-if-db-not-exists` and
`-if-replica-exists` are `Restores`.

### DdnsConfig and Ddns (`T/config/ddns.worker.ts`)

`Poll`, `Login`, `Device` and `EndRound` are the loop; `Settle(id)` is one of the
requests that run at once, answered with success or an error status, or rejected,
in any order. `Die` is an exception nobody catches, after which the container is
started again. `Reassign` and `Logout` are the ISP and the gateway. DdnsConfig has
the constants and the assumption about them, which SmallPrograms extends as well.

### ValkeySync (`sophons/apps/valkey/docker/s3.sh`)

One action per command that takes time or that a signal may separate from the
next. `after` is where `upload`, which is called from three places, returns to.
`inotify` follows inotifywait from the opening of the fifo to its end; `events` is
what is in the fifo. `term` is the SIGTERM of the pod: the script is process 1 of
its container, so one that comes before the trap is set is ignored.

### AlertRelay and NtfyWebhook (`sophons/apps/ntfy/webhook/src/index.ts`)

AlertRelay is the promise: a call is settled only when everything it has to tell
has been shown, in any order and any number of times. NtfyWebhook is the handler:
`Refuse` (404 and 400), `Dismiss` (an event the schema does not know: 200 for the
whole batch), `Accept` (all requests to ntfy are made at once), `Answer` (200 or
503, when all are settled). `Take` and `Fail` are what becomes of one request to
ntfy: taken, with the answer arriving or not; or not taken. `Send` and `HangUp` are
the sender, which makes a call again until it is answered with 2xx. A notification
is named by its call, its attempt and its place in the batch; its wording is left
out. `ImplementsRelay` is the refinement: a call is owed until the sender has seen
it answered with 2xx, and shown is what ntfy has taken, attempts forgotten.

### Neckhook (`sophons/apps/headscale/neckhook/src/index.ts`)

`Refuse`, `Edit` (the token is set and the first attempt made without an await in
between) and `Answer` are the handler of one of several requests that run side by
side. `Apply`, `Error`, `Unauthorized`, `ApplyLate` and `Retry` are the library and
Cloudflare: an attempt is applied and answered, applied and not answered, or not
applied; one that has timed out may be applied later; a retry makes its headers
anew, from whatever token the client has then.

### PiholeGravity (`sophons/apps/pihole/cronjob.yaml`, `instance/statefulset.yaml`)

One action per command of the job's containers: `Download` (appended to a file),
`Compare` (the ETag), `Upload` or `Skip`, and for each instance `RolloutRestart` and
`RolloutStatus`. A list is a name, the file the set of the lists whose lines are in
it. A container that fails is started again in the same pod (`restartPolicy:
OnFailure`), a pod that is lost is replaced by one with an empty volume or
continues with the old one, `GiveUp` ends the job. `InstanceStarts` is the init
container of an instance, which downloads the object.

### BunnySync (`T/config/bunny-sync.sh`, `bunny-hostnames.sh`)

One action per command: `ReadCrt` and `ReadKey`, `Get` (whose answer both loops
compare with), `RemoveHost` for each host name that is not wanted, and for each
line of the file `AddHost`, `AddCertificate`, `SetForceSsl`. Every request may be
refused, be carried out and fail all the same, or fail before; `set -e` ends the
script, which is started again from the beginning. `Edit` is whoever else changes
the zone, `Renew` the kubelet. That Bunny refuses a host name that is there, one
that is not, and a certificate with the key of another one, is an assumption about
Bunny.

### SmallPrograms and MCSmall

SmallPrograms gives the variables and constants of the four programs without a
module of their own for TLC one name each, instantiates them as `D`, `N`, `G` and
`B`, and names the properties that are checked and proved of them, which are the
same definitions in the runs and in the theorems. MCSmall adds ntfy and the values
of the constants: the initial state picks one of ntfy, ddns, neckhook, gravity and
sync; the variables of the others stay as they are.

## 4. Runs

| Run | Instance and bounds | What it shows |
| --- | --- | --- |
| `hub_three` | 3 instances, 1 key, all cancellable, 2 versions (3.1 million states, 530000 up to symmetry) | the safety of the hub, its inductive invariant, and that it implements FeedHub. Three is the smallest number at which one instance leaves, one stays and one joins; two versions tell an old list from a new one |
| `hub_live` | 2 instances that share one of 2 keys, no cancellation, 2 versions | `New` returns; changes reach every subscriber |
| `hub_late` (violation) | 2 instances, 1 key, nothing changes | an instance that joins a stream never gets the list it holds |
| `hub_new` (violation) | 2 instances, 1 key, cancellation | `New` may never return at a reload |
| `stream_feed` | 2 objects, 2 CIDRs and an address that is none, 3 states, 1 lost connection, lines of up to 2 addresses (1.2 million states) | the stream implements the feed and converges. Two objects are needed for a list that is half read and for a CIDR that two objects share, three states for a change during the list and one after it |
| `xforwarded` | 15360 requests, a static and a published address, two watches | headers and decisions |
| `litestream_restores` | 2 databases, both variants, 2 writes, one each of failure, crash, killed probe and new pod (290000 states) | the promises of the sidecar, that it implements Backup, and that the application runs in the end |
| `litestream_failed` (violation) | the same without crashes | a failed restore goes unnoticed |
| `valkey_dumps` | 3 writes, 3 pods, 2 kills, 1 failure, 1 cut | that the script implements Backup, what it promises of a SIGTERM, and its inductive invariant |
| `valkey_cut` (violation) | 1 write, 2 pods, 1 cut | a torn dump is taken for a whole one |
| `small_programs` | the five small programs, 617000 states together, see below | what each of them promises |
| `gravity_down` (violation) | the gravity job of `small_programs` | two instances are down after a rollout that timed out |

The bounds of `small_programs`:

* ntfy: four calls, of which one has two events that are taken, one an event that
  ntfy never takes next to one it does, one an event the schema does not know, and
  one lacks its token; 3 attempts and 1 fault. One fault is enough for a batch that
  arrived in part, two attempts for its repetition, a third for one after that.
* ddns: 2 records, so that one can be written while the other is not; leases 1, 2,
  1, 3, so that an address comes back and a new one follows; 3 error answers and 1
  rejection.
* neckhook: three requests that are served, two addresses and two tokens of which
  one is good, and one that is refused although it brings a token; 2 retries, as the
  library has it, and 3 faults, one more, so that the last attempt can fail too.
* gravity: the two instances, a list, another, and the first one again; 3 faults,
  enough for a failed restart, the pod lost after it, and one during the next job.
* sync: 4 host names, of which two are wanted (one of them is there), one is not
  wanted, and one is Bunny's own; 2 edits, 1 renewal, 2 faults.

`hub_three` uses the symmetry of its instances, which have the same plan and differ
in nothing; the other runs do not: most check liveness, for which symmetry is
unsound. Deadlock is
not checked: every system here comes to rest, when a bound is used up or, in the
hub, when the deadlock that `hub_new` is about has happened.

The exceptions that some properties name (`Unnoticed`, `NoCut`, `rejects = 0`,
`Returned`, `TooLong`, `interrupted`, `timedOut`) are the defects below: the runs
let them happen, so that everything else is shown in their presence.
`disturbed` is none: nothing can be said of a zone that others have changed since
the answer, until the next run, which `ZoneGetsSynced` is about.

### Fairness

* Hub: `sync.Mutex` goes over to a waiter that has waited for a millisecond, so
  taking a lock is strongly fair; a goroutine that can run does (weak). `WatchProgress`
  is strongly fair also because a stream may break again and again, but not for
  ever: its list completes and its events arrive if they could infinitely often.
  `New` need not be called, no context need end, and the collection need not change.
* Stream: the retry loop and `Scan` go on (weak). Drops are bounded and not fair.
* Litestream: the script goes on, the kubelet probes periodically and restarts a
  container whose probe has failed `failureThreshold` times (weak). No write, sync
  or crash is fair.
* Valkey: commands end, an upload is taken by S3 before the grace period is over,
  a pending signal is handled (weak).
* ntfy: the sender keeps its retries up, which the answer 503 presumes; handlers go
  on; requests to ntfy end (weak). No fault is fair, and no call is hung up on.
* Ddns: the timer fires and requests settle (weak).
* Gravity: the schedule comes round, commands end, an instance whose pod is taken
  down starts again (weak); time-outs, lost pods and new lists are not fair.
* Bunny sync: the schedule comes round and requests end (weak).

## 5. Findings

* `hub_late`: `connectOrSubscribe` returns without sending the stream's list to an
  instance that joins (`P/main.go` 269-271). Until the collection changes or the
  stream reconnects, that middleware trusts none of the watched addresses.
* `hub_new`: lock order. `New` holds `wm.mu` and waits for `ow.mu`; the unsubscribing
  goroutine holds `ow.mu` and waits for `wm.mu`. Another way to the same end: `publish`
  waits, with `ow.mu` held, for an updater that has returned; its own way out,
  `ctx.Done()`, is out of reach, because the context is cancelled only under `ow.mu`
  (theorem `PublishNeverCancelled`). The stream then hangs with its lock for ever.
* `litestream_failed`: a bare `wait` (`L/templ-config/entrypoint.sh` 16) succeeds
  whatever the restore's status was.
* `valkey_cut`: zstd writes the dump under its final name.
* `gravity_down`: a rollout that is not over in 180 seconds ends the container, and
  the loop begins again with the first instance while the second is still down. The
  PodDisruptionBudget asks for one that is up, but does not apply to rollouts.

Seen on the way, and visible as exceptions in properties rather than in runs of
their own: an event of 64 KiB stops a stream from ever publishing again
(`Converges`); `Promise.allSettled` swallows rejections, so that an address can
count as applied that some records do not have (`rejects = 0` in Ddns), and after
a round that failed half-way, an address that comes back
leaves records wrong (`Returned`); a gravity job that ends between the upload and
the last restart leaves instances behind that the next jobs skip, because they find
the list they would upload (`interrupted`); a batch with one event that the schema
does not know is acknowledged without its other events being sent (`NoticesOf` in
NtfyWebhook); an edit that timed out may be applied over a later one (`timedOut` in
Neckhook), and a retry may use the token of a later request (`TokenOfOwnOrLater`);
 outside the rendered configuration the
application can be faster than the PRAGMA that makes its database
(`CreatedByLitestream`); a SIGTERM before the trap is ignored, and one that finds
the fifo unopened leaves the script waiting for a writer (`TermEndsScript`).

## 6. Proofs

Every theorem is about all values of the constants, under the assumptions the
modules declare: keys of one plan differ, sentinels are no data, bounds are
naturals, `Cidr` is a part of `Addr`, requests and calls are well formed, there is
a DNS record and a lease, a list and an instance (`GravityAssumption`), and a host
name that is wanted, none of those wanted being one that Bunny gives out itself
(`BunnyAssumption`). None of them
restricts the number of instances, keys, objects, requests or databases.

**WatchHubProofs.** `IInv` is inductive. Why it has its parts: to show that a
stream found in the map is still alive when it is joined (`CancelledWatchUnused`),
one needs that whoever is between the two holds `wm.mu` (`LockInv`) and that
cancelling takes it too. To show that the delete in `cancel` hits the right entry
(`OneLiveWatchPerKey`), one needs that a stream is created once (`StreamInv`), which
follows because `New` meets each key once and leaves the later ones alone
(`OrderInv`). That nobody is subscribed to a cancelled stream needs the two sides of
a subscription to agree (`SubscriptionInv`), and that the lock is kept from the
delete to the cancellation. `PublishInv` ties the subscribers a publish has still to
serve to the lock it holds. `NoStaleSubscriber` needs `ServedInv` (while a publish
is on, those it has served hold its list) on top, `NoOrphanWatch` needs nothing but
`IInv`, and `NoDeliveryAfterUnsubscribe` is read off `PublishInv` and
`SubscriptionInv`. `HubRefinement` needs `VersionInv`: no subscriber is ahead of the
stream it reads, nor a stream of its collection. It holds because an instance asks
for one stream per key, once, when it has nothing of that key yet; the step that
could break the order is `Deliver`, and the one it maps to is `Show`.

**WatchStreamProofs.** `IInv` says that the items are the collection at `rev` but for
what is still in flight, that the feed is the snapshot at `feedRev`, that what is
listed exists and that consecutive states differ in one object; the last is what
makes one event per state enough. `Refinement` shows that every step of the stream
is a step of the feed or leaves it alone; `StableTrust` follows because the feed is a
snapshot of a state that is not in the future.

**XForwardedProofs.** `HeaderInv` says what the headers are at each stage as a function
of the request, `ListInv` that the stored list lies between `always` and `ever`,
`DecisionInv` carries the decision on. `UntrustedIgnored` then is a fact about
`Rewrite` after `DeleteXForwardedHeaders`, proved header by header. The other two
are facts about `Rewrite` alone, from a few about the sequences it works on: what
`Default` and `Assign` leave of the lines of each key (`DefaultLines`,
`AssignLines`), and that the members of one joined line are those of the lines it
was joined from, in their order (`FlattenOne`, `JoinLines`). `TrustedKept` follows key
by key. For `SecondAgrees`, what a first instance has written is `Complete`: each
default is there already, so that the second one, which finds the same connection,
changes no line (`RewriteLines`).

**LitestreamSidecarProofs.** `RestoredInv` says who relies on a restore: a flag, the
socket, a probe as far as it has come, and the loop as far as it has come.
`ContainedInv` says that a database has what its replica has. Both hold until a
restore fails unnoticed, and such a failure is never forgotten: `IInv` is the
disjunction. `HeldBack` and `ReplicaSafe` follow. `CreatedInv` says the same of the
files themselves in a pod with a rendered configuration: whoever lets the
application start relies on the whole loop, so that it finds every file
(`CreatedFirst`). `LocalSafe` rests on `-if-db-not-exists`. For `Refinement`, the two parts of `Sound` are what `StartApp` and
`Replicate` ask for, and `NothingInvented` bounds both by what was written.

**ValkeySyncProofs.** As long as no decompression has been cut short, four things
follow each other through a pod's life: what is fetched is the object in the bucket
(`FetchInv`); from then on a dump on disk has what the bucket has, and without one
the bucket has none either (`DiskInv`); what is being uploaded lies between the two
(`UploadInv`); and Valkey, which starts on top of the disk, has both (`MemoryInv`).
`HasSnapshot` is read off the last, and `BucketSafe` off `UploadInv`, since `Copy` is
the only command of the script that writes the bucket. `Refinement` puts both into
one promise: `ValkeyStart` is `StartApp` because of `MemoryInv` in the state it leads
to, `Copy` is `Replicate`, `Save` is `Write`, the ends of Valkey and of its pod are
`StopApp`, and nothing else is seen.

**WorkerProofs**, about Ddns (`D`) and Neckhook (`N`). What makes a skipped round
safe is that an address which is applied and is in the lease of now, and in none
before, was applied within that lease (`KnownInv`: addresses the worker knows are the WAN's or were). `NewInv` carries the
records' agreement through the rounds that follow, which are all skipped, and
`RoundInv` builds it up, one settled request at a time. Without "new" the step that
assigns the next lease breaks the invariant, and so it does in the program
(`Returned`). For neckhook, `TokenInv`: the client has the token of whoever set it
last, so that a retry, which takes that token, takes its own or a later one.
`RecordInv`: when the edit of a request has been applied and not answered yet, what
is in the record was put there by a request that was not over when this one began,
or by an attempt that had timed out.

**JobProofs**, about PiholeGravity (`G`) and BunnySync (`B`). The job: until an upload
changes the object, every instance has it, unless a job was interrupted
(`LoadedInv`); after that, those have it that the loop has passed, and the one it
is at has it or is due (`LoopInv`). What makes `EndedRight` more than a reading of
the loop is that instances also start on their own, at any moment, and that a failed
restart sets the loop back; both only ever give an instance what is in the bucket.
The zone: what the one answer shows of host names that are wanted is still so
(`AnswerInv`), although the job itself has changed the zone since; the first loop has still to look at all there is
(`RemoveInv`); and the lines that the second has passed are as they are wanted, with
the certificate that was read (`LinesInv`), to which a later line does no harm even
if a host name is listed twice.

**NtfyWebhookProofs.** A call that is settled has been shown (`SettledInv`), which
needs what a handler in `posting` may believe: each of its requests is under way or
shown, unless `failed` (`RoundInv`). `Refinement` follows: `Take` is the relay's
`Show`, an answer of 200 that arrives is its `Settle`, for which `SettledInv` is what
is needed, and everything else stutters. `NoLate` needs that nothing of the last
attempt of a settled call is under way (`SettledInv` again), and `Once` a lemma of
its own: without faults a call that ntfy can take is sent once.

Left to TLC: liveness, which needs ENABLED (`NewReturns`, `ChangeReachesSubscribers`,
`Converges`, `AppRunsInTheEnd`, `LastSaveUploaded`, `TermEndsScript`, `AlertsAreShown`,
`RecordsFollow`, `ListsReach`, `ZoneGetsSynced`), and of course the violations.
Everything else that a run checks is a theorem, and states the very definition the
run checks.

Some invariants are checked as parts of `IInv`, or proved, and have no run of their
own: `OneLiveWatchPerKey`, `CancelWaitsForPublish`, `ItemsAreTheCollection`,
`StaticPeerIsTrusted`, `AckedIsShown`, `NoDeliveryAfterUnsubscribe` (part of
`ImplementsHub`), `ValkeyHasSnapshot` and `LocalKeepsWrites` (of `ImplementsBackup`),
the inductive invariants of the four programs in SmallPrograms, `VersionInv`,
`NothingInvented` and the type invariants.

## 7. What is not modelled

* Of the plugin: parsing of the configuration, the arithmetic of `net.IPNet` (an
  address is in a list or not), `k8sTransport` (planned), logging.
* Of the hub: a second call of `New` for an instance, and contexts that end while
  `New` runs (Traefik cancels them when it has built the next configuration).
* Of the stream: an API server that answers `NotOlderThan` from a cache that is
  behind; the mutated `AnyRev` shows what would break.
* Of the sidecar: the variables that switch restore, WAL mode or replication off,
  the trap that forwards SIGTERM to the background restore, configurations whose
  paths have no extension, litestream's own files.
* Of the DNS worker: a gateway whose answer lacks the WAN's address, TLS, the
  login's form.
* Of the Valkey script: replication between Valkey pods; one pod and its
  successors are modelled, with one object in S3.
* Of the ntfy webhook: wording of the notifications; the order in which a batch is
  shown, which the code leaves open. Of neckhook: what its library does beyond
  retries, time-outs and headers.
* Of the gravity job: `configure.sh`, a sequence of calls of the Pi-hole API which
  every start of an instance makes again.
* Trusted IPs sync: a job that fetches lists and applies them; what could go wrong is
  what the publishers answer, which the repository does not describe, and WatchStream
  takes any list as its input.
* The edge proxy provider answers every request with the same constant. git-sops is
  a filter over one file at a time around sops; the mesh generator is run by hand and
  keeps no state; of the swap daemonset and the backup jobs the interesting part is
  what the kernel and restic leave after a kill. The helpers in `bin/` call one tool
  after the other; manifests and generated
  declarations.
