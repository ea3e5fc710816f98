# dion-runtime: a verification project

TLA+ modules that model the concurrent and persistent parts of dion-runtime,
the TLC instances that check them, and TLAPS proofs about the core. Paths are
relative to the repository's root, which the source lines in `PROJECT.json`
call `src/`.

## The system

dion-runtime loads *extensions*: single JavaScript files with a metadata
comment. Each runs on a thread of its own in the boa engine. An *application*
embeds the runtime through Rust, Node (`js/runtime`) or Flutter
(`dart/rdion_runtime`) and supplies an `ExtensionClient`: prompts for
permissions, `load_data` / `store_data` and their secure variants, and a data
directory.

| Component | State | Operations | Talks to |
|---|---|---|---|
| Permission store (`rust/core/src/store/permission.rs`, `data/permission.rs`) | a list of granted permissions; its persisted copy | load, `has_permission`, `grant`, `remove_permission`, `save_state`, `persist` | the application's secure storage |
| Permission broker (`container.rs`, `js/permission_js.rs`, `filesystem.rs`) | per host: a prompt under way (a `Notify`), refusals of this process | `ensure_network_permission` (fetch), `requestPermission`, `ensure_access` | store (RwLock), prompts of the application |
| Accounts (`store/auth.rs`, `js/auth_js.rs`, `container.rs`) | accounts by domain with credentials; the persisted copy | `validate`, `mergeAuth`, `invalidate`, `is_logged_in` | the JS thread, secure storage |
| Caches (`cache.rs`, `js/cache_js.rs`) | index in memory, `index.json`, one file per entry, policy, recency clock | `set get peek has delete keys size clear`, `clear_all` by the application | the file system |
| Life cycle (`container.rs`, `extension_executor.rs`, `executor.rs`) | the context (channel of the current thread), data and code | create, `set_enabled`, `reload`, drop; one call per handler of the script | JS threads over a channel, a one-shot reply per call |
| Proxy (`proxy.rs`) | weak references to extensions in order of registration | register, route a request | extensions' threads, files, the network |
| Adapter (`extension_manager.rs`) | the directory of `.dion.js` files | `get_extensions`, `install`, `uninstall` | file system, network |
| Settings (`store/settings.rs`) | two maps of settings; two persisted keys | merge, get, set, remove, save | the application's storage |
| Network (`network.rs`, `networking_js.rs`) | a cookie jar, its file, the time of the last save | `fetch`, debounced save | broker, network, file system |
| Range files (`range_file.rs`) | none | `parse_range`, `serve_file` | proxy |
| Bindings (`js/runtime`, `dart/rdion_runtime/rust`) | handles | conversions, saves, grants | everything above |
| Generated Flutter glue (`frb_generated.rs`, `frb_generated.dart`) | a lock around each object | one function per call, callback and type, in two languages | bindings, application |
| Mihon adapter (`rust/mihon/src/adapter.rs`, Kotlin in `mihon/compat*`) | files below `jars/`, a list of hidden packages, the JAR of the compatibility layer, class loaders and sources of a JVM | `get_extensions`, `install`, `uninstall` | JVM over JNI, files, the Android system |
| Mihon sources and repositories (`extension.rs`, `repo.rs`) | the JVM's preferences, a cache of indexes | calls of one source, fetching an index | JVM, network |
| Helpers (metadata, URL, parsing, text, time), type export, TypeScript tools | none | pure conversions, generators | |

What is hard here: script calls are jobs that interleave at their awaits, and
two threads of one extension overlap after a reload; every persistent store is
written as a snapshot outside its lock; prompts take arbitrarily long and may
fail; the process may end between any two writes; threads end by reference
counting; extensions come and go under requests. `PROJECT.json` lists each of
these hazards at its line with the properties that cover it.

What makes the components correct:

- broker: one prompt per host at a time, nobody waits for ever, a refusal is
  final for the process, a grant is seen by everyone who waited for it, only
  what was granted is persisted;
- accounts: a candidate that was rejected is not kept, and logins survive new
  versions;
- caches: a durable LRU cache, at any crash;
- life cycle: no call without an answer, no leaked thread, the thread runs the
  code the store describes;
- proxy: no extension gets a request that is not below its path;
- adapter: files are damaged or removed only by the operation that is meant to,
  what is shown is what a restart brings back, cookies get saved;
- Flutter bindings: no lock, script and callback wait for each other, and no
  thread is replaced under a call;
- generated glue: both halves agree on every message;
- Mihon adapter: the JVM runs what is installed, uninstalled packages stay away.

## Modules

| Module | Models | Runs |
|---|---|---|
| `PermissionStore` | permission values, the cover relation, grant and removal; no variables | those of the broker |
| `PermissionBroker` | the broker over the store, persistence, the application, restarts | `broker`, `broker_remove` |
| `HostDecision` | abstract: the life of the decision about each host | `broker` |
| `AccountValidation` | `AuthStore`, `validate`, its editors, restarts | `accounts` |
| `CacheStore` | one cache: memory, disk, operations in flight, crashes | `cache`, `cache_clear` |
| `DurableLru` | abstract: entries with their sizes and the keys used before them, and a saved copy | `cache` |
| `ExtensionRuntime` | threads, channels, calls, reloads, proxy routing | `runtime`, `runtime_prefix` |
| `SettingStore` | definitions, values, the two kinds of settings; no variables | `adapter` |
| `ExtensionAdapter` | the directory, loaded objects, settings, cookies, crashes | `adapter` |
| `FlutterApi` | each method of the bindings as the steps it takes; no variables | `bindings_*` |
| `FlutterBindings` | the two locks, callers, the script, callbacks | `bindings_*` |
| `GlueShapes` | the layouts a type may have in a message | `glue` |
| `RustSse`, `DartSse` | what each half reads and writes as bytes, type by type | `glue` |
| `GlueDco` | what Rust gives and Dart takes as values, type by type | `glue` |
| `GlueCalls` | arguments, result and failure of every call and callback | `glue` |
| `FlutterGlue` | one message, written and read part by part | `glue` |
| `CompatJar` | the extraction of the JVM's compatibility layer | `mihon` |
| `MihonAdapter` | packages, metadata, hidden packages, the JVM, crashes | `mihon` |
| `PermissionStoreProofs`, `PermissionBrokerProofs`, `AccountValidationProofs`, `CacheStoreProofs`, `ExtensionRuntimeProofs`, `ExtensionAdapterProofs`, `FlutterBindingsProofs`, `MihonAdapterProofs` | theorems about the module of that name | |

Each `MC...` module gives its specification's constants values; the `.cfg`
files choose among them. Where a component is used in ways whose product is too
large, a constant `Uses` (`Hosts`) is the set of uses, `use` (`host`) the one a
behaviour has from `Init` on, and one run checks them all. A property that holds of
some uses only says so by a condition on `use`.

### PermissionBroker

A *fetch* walks the lines of `ensure_network_permission`; `pc` names where it
waits: `lock` (the cache's mutex), `recheck`, `decide` (the rest of the critical
section, one step because it awaits nothing), `prompt`, `grant`, `snapshot`,
`persist`, `settle` or `fail`, `notify`, `wait`, `woken`. `inflight[h]` is the
fetch whose `Notify` the code's map holds, so a `Notify` is named by the fetch
that made it. *Requests* and *accesses* run prompt, grant, snapshot and persist
of `requestPermission` and `ensure_access`; *savers* snapshot and persist. The
store's RwLock is never held over an await here, so each of its critical
sections is one step. `Restart` ends all activities and loads what was
persisted, or nothing if the load fails. A use says which activities there are, to
which hosts they go, what scripts ask for, which files they need, what the
application grants and removes, and whether loads fail. A path is the sequence of its
components, which is what `PathBuf::starts_with` compares.

### AccountValidation

The store is a list, as in the code; `IsFirst` is the account `get_mut` finds.
`BeginValidate`, `SendValidate`, `FinishValidate` are the three parts of
`validate` between its awaits; `JudgeCandidate` is the JS thread running the
script's `validate`, which rejects, throws, or answers with any account, of which
`validate` replaces the credentials by the candidate's: the answer may be about
another domain than the account it replaces. Editors are `mergeAuth` and
`invalidate`, from scripts or bindings. `Restart` merges the declarations of some
version into what was persisted, or into nothing where `AuthStore::new` could not
load it; a declared account carries no credentials. A user name and a cover are one
profile. `known`, `mixed` and `unsure` are history: credentials that were merged,
loaded or approved; domains whose validations overlapped; domains that may have lost
a login.

### CacheStore

A task runs one operation; its steps are the code between two awaits, `pc`
the next one. `call.file` is the file that is written or read, `shot` the
snapshot of the index it carries over awaits, `doomed` and `unlinking` what it
still has to delete. Time is counted in units of the shortest ttl; a recency
tick is a time or the tick before plus one, as in the code. `Restart` keeps
only the files. `cut` is history: entries whose file `write_atomic` removed before a
second rename that failed. A use chooses keys, policies, operations, and whether
renames fail. Failing I/O other than the rename that `write_atomic` handles is
not modelled, nor are collisions of key hashes.

### ExtensionRuntime

`thread`, `code`, `queue`, `running` are a JS thread, what it runs, its channel
and the task it handles. Its senders are the context of its extension, a start
under way and every caller, who holds the context across its await
(`Senders`). `set_enabled` and `reload` take `&mut self`, so an extension runs
one at a time (`op`); calls and requests overlap them. A `Vm` whose thread
ended stands for the next thread. Requests hold the `InnerExtension` alive while
they are served, also when the application has dropped the extension. A handler
is one step from `Take` to `Answer`; what it computes is not modelled.

### ExtensionAdapter

A future of the application runs `install`, `get_extensions`, `uninstall` or a
save of settings; `task[t].at` is the file operation it waits for. `fs::write`
and `fs::copy` truncate (`CreateFile`) and fill the file in two parts; the
first line, all that `peek_manifest` needs, is in the first. An unlinked file is
written to in vain (`linked`). Where a use has `"fail"`, writes, copies
(`WriteFails`) and removals (`RemoveFails`) return an error at any point and leave
what is there (`CutShort`, `cut`), and so may a store of the settings (`SaveFails`).
`OpenExtension` is `DionExtension::create` up to its thread: it loads cookies and
settings and merges the definitions, and fails for half a jar of cookies or a
definition whose id has a slash; other errors of `create` are versions in
`Unloadable`. A load of the settings that fails goes unnoticed and leaves nothing, or
the first of the two kinds (`Loads`). An object's `settled` is history: it was saved,
and neither changed nor overtaken by another object since; so is `excused`: settings
of which the object that shows them, or that saves them, has a value of its own. A
jar of cookies is a counter of its changes.

### FlutterApi and FlutterBindings

A method is the set of sequences of steps it may take: locks, changes and copies
of a part of the store, callbacks, a task for the script. Every `wire_` function
wraps its method in the lock of the object, which `&self` shares and `&mut self`
takes alone. `line[l]` is who holds or waits for a lock, in order of arrival; a
prefix of sharers holds it, as in tokio's `RwLock`. The script does one of
`ScriptSteps` at a time for the task it handles. While a callback is open the
application may make one more call (`CallBack`), and answers once that returned.

### The generated glue

`frb_generated.rs` and `frb_generated.dart` describe the same types and calls
twice, once per language and, for values, in two codecs. Neither codec sends
types, so that the halves must agree on the order of fields and variants.
`RustSse` and `DartSse` have one entry per `SseDecode`/`SseEncode`
implementation and per `sse_decode_`/`sse_encode_` function, `GlueDco` per
`IntoDart` implementation and `dco_decode_` function, `GlueCalls` per `wire__`
function, `RustLibApiImpl` method and callback; the names are those of the code,
an entry's parts are in the order in which the code handles them. `FlutterGlue`
takes a message through both halves at once, into any of its parts.

### CompatJar and MihonAdapter

`EnsureCompatJar` is `ensure_compat_jar` with each write in two steps; a tag is a
build. A package is its version: `artifact` the JAR or APK, `meta` the file beside
it, `loaders` and `jvm` the class loaders and sources inside the JVM, which the
bridge changes. `Creates` says which sources the code of a version creates: a load
registers these and leaves the others as they are, so that a source a version drops
goes on running the code before it. `task[t].at` is the next file operation or bridge call; `seen` is
what it has read of `hidden_packages.json`, `ids` the sources it has loaded. `gone`, `installed` and `cut` are
history.

## Runs

Passing runs:

| Run | Bounds | Shows |
|---|---|---|
| `broker` | four uses: 3 fetches to one host and a script's request; 2 fetches, a file operation, a saver; 1 fetch and all of these with grants of the application; 2 fetches over 2 hosts with grants of all access, withdrawals and failing loads; 2 nested roots | one prompt, live waits, final refusals, grants seen, nothing else persisted, every fetch answered; the broker implements `HostDecision` |
| `accounts` | three uses, lists of 2 accounts: 2 validations of 1 or 2 domains and restarts; 1 validation, 1 editor, 2 domains; 1 validation, 2 editors, 2 ways to log in and restarts | rejected candidates go, validations finish, logins survive |
| `cache` | 1 task, crashes, failing renames; 3 keys, 2 entries, 4 ticks, or all 8 operations on 2 keys, one entry that expires or two bytes, 3 ticks | a durable LRU cache, no missing files |
| `runtime` | 2 threads; 1 extension, 2 calls, 1 request, 2 versions, panics, or 2 extensions, whose ids are `a` and `ab`, and 1 request | only a panic loses an answer, callers are answered, old threads end, threads run their data, no extension gets what is not below its path |
| `bindings_calls` | 2 callers, 1 step of a script per task, 3 versions of the settings; applications that call every method, or whose prompts call back | locks exclude, threads are replaced while idle, saves are current, calls end |
| `adapter` | up to 2 ids, 4 versions, 3 files, 2 objects, 2 tasks, in five uses: overlapping operations, names that are not ids, settings that change type, both kinds of settings, requests; failures in three of them | files go and are damaged for a reason, settings survive, what is shown is persisted, cookies are saved |
| `mihon` | 2 packages (3 sources, of which one is dropped by an update), 2 versions, 3 builds, up to 2 tasks, in five uses: Android with a system, desktop, incompatible updates, overlapping operations, builds | the JVM gets its JAR, runs what is installed, uninstalled packages stay away, scans find the rest |
| `glue` | all calls, callbacks and types | both halves agree on every message |

Properties of each passing run; the comment above each definition says it in words:

- `broker`: `TypeOK`, `OnePromptPerHost`, `WaitsForALivePrompt`, `NoPromptOnceDenied`, `GrantSeenByWaiters`, `DiskWithinStore`, `FetchAnswered`, `ImplementsHostDecision`
- `accounts`: `TypeOK`, `OnlyValidatedCredsStay`, `LoginsSurvive`, `ValidationFinishes`
- `cache`: `IdleCacheIsSaved`, `SavedEntriesHaveFiles`, `ImplementsDurableLru`
- `runtime`: `TypeOK`, `RunsItsData`, `RoutedToAMatch`, `NoAnswerLost`, `CallsAnswered`, `OldThreadsEnd`
- `bindings_calls`: `TypeOK`, `SwitchedWhileIdle`, `SavesAreCurrent`, `CallsEnd`
- `adapter`: `TypeOK`, `DamagedFilesAreBeingWritten`, `ShownIsPersisted`, `OnlyTheRightFilesGo`, `SettingsSurvive`, `CookiesCoalesce`
- `mihon`: `TypeOK`, `JvmGetsItsJar`, `InstalledRuns`, `UninstalledStayAway`, `ScanFindsInstalled`
- `glue`: `InStep`

Why the bounds are enough to be worth running: three fetches are a prompter, a
waiter and a latecomer; two hosts let one grant cover another host's prompt;
nested roots make one grant cover another access, and the application may grant
the outer one. Two accounts are the one a validation is about and the one its answer
moves it to, or two of one domain; two editors are a snapshot and one that overtakes
it. Three keys under a limit of two make a choice of a victim; a JSON
value of size 1 and bytes of size 2 meet a byte limit of 2 exactly, below and
above. Two threads are the old and the new one of a reload, two versions make
the wrong code visible; `a` begins `ab` as `/extproxy/a` begins `/extproxy/ab`. Two callers and the script are a holder, a waiting writer
and a latecomer at a lock. Two tasks are an install and what overlaps it; a file
that is named neither `a` nor `b` is what uninstall must search for; two objects
are the one before and the one after an update. Three builds are one that
extracts, one that crashes and one that follows. `glue` has no bound: types nest
without end (`CustomUI`), but a part that was entered is a message of its own.

The `time` of a use bounds the clock and the ticks in the guards of `PassTime`,
`BeginSet` and `BeginRead`; tasks under way may pass it by one tick each.
`MaxAccounts` stops what would lengthen the list of accounts. `MaxVersion` stops the
versions of the store, `MaxScript` what a script does per task, `MaxCookies` the jar,
`tasks` and `objects` of a use how many are active. All other state spaces are
finite by themselves. Restarts are never bounded.

Runs that end in a violation, each of a sentence the repository says of itself:

| Run | Sentence | What happens |
|---|---|---|
| `broker_remove` | "Remove exactly the stored permission equal to `permission`." | removal keeps that one and drops all others |
| `cache_clear` | "Open handles keep working: their next operation lazily recreates the directory" | `clear_all` resets the index while a `set` is between two awaits; the `set` puts the index back, and a handle with an index does not make its directory again |
| `runtime_prefix` | "routes requests that target an extension's proxy path to its `handleProxy(request)`" | `starts_with` compares without a separator: `/extproxy/ab` goes to `a`, if `a` was registered first, though `ab` is registered and enabled |
| `bindings_prompt` | "the host prompt may re-enter the runtime and would deadlock on the RwLock" | prompts do without that lock, but in the Flutter bindings each object has another: `browse` shares it while its prompt is open, `set_enabled` waits for it, and what the prompt calls waits behind |

Deadlock is checked in all passing runs but `glue`, where a message ends; in
`bindings_prompt` it is what the run is about, and reported as the call that
never ends.

### Disagreements

The models have these behaviours too, against a comment of the code, or conceded by
one; the properties of the passing runs hold under the conditions in brackets.

- The candidate of a validation is persisted by a merge or an invalidation that
  overlaps it, against `container.rs:308-309` (`OnlyValidatedCredsStay` is about
  the store in memory).
- Of two validations of one domain the second restores the first one's candidate;
  an answer about another domain puts an account there, and may be overwritten
  (`OnlyValidatedCredsStay`: domains that are not `mixed`).
- Logins on disk are lost where the accounts could not be loaded and are saved
  again, and where an edit persists its snapshot after a newer one
  (`LoginsSurvive`: domains that are not `unsure`). The code concedes both
  (`store/auth.rs:15-19`, `js/runtime/src/extension.rs:476`).
- Settings on disk are overwritten with defaults where they could not be loaded
  and are saved again, conceded in `store/settings.rs:21-25`; and one of two objects
  of an extension overwrites what the other one has saved (`SettingsSurvive`:
  settings that are not `excused`, which both are).
- Two cache calls that a script does not await write the index in either order,
  against `cache.rs:326`, which says that nothing interleaves (`IdleCacheIsSaved` and
  `ImplementsDurableLru`: one task).
- An entry of a cache is lost where the rename over its file fails twice
  (`SavedEntriesHaveFiles`: entries that are not `cut`).
- `/extproxy/ab` is routed to an extension `a` (`RoutedToAMatch` says no more than
  that the path begins with that of who gets it; `RoutedToItsTarget` is the run that
  fails).
- An install whose write, copy or removal fails leaves a damaged file, and the
  version before is lost (`DamagedFilesAreBeingWritten`: files that are not `cut`).
- Cookies that change within 30 s of the last save are not saved unless a request
  follows, against `network.rs:19-20` (`CookiesCoalesce` assumes that requests go
  on).
- A source that an update drops stays registered with the JVM, with the code of the
  version before, until the process ends: `loadExtension` only adds
  (`MihonBridge.kt:168-169`), an install only closes the class loader. `unloadExtension`
  of the desktop leaves the other sources of its JAR, too, against
  `MihonBridge.kt:179` (`InstalledRuns`: sources that the installed version
  creates). On Android the class loader of the APK before is kept as well
  (`InstalledRuns`: the desktop; `ScanFindsInstalled`: the sources of the code that
  runs).
- Two uninstalls at a time lose one of the hidden packages, and so does a crash
  while the list is written, against `mihon/src/adapter.rs:499-502`
  (`UninstalledStayAway`: one operation at a time where packages are in the
  system, and `cut`).
- An application that still holds a source which only the system's copy of a
  package had, after another version was installed below `jars/`, and uninstalls
  it, hides the package but does not delete that version, which the next scan finds,
  against the same comment (such an uninstall does not make a package `gone`).
- A build that runs again after a newer one crashed may take half a JAR for its
  own, against `mihon/src/adapter.rs:219-220` (`JvmGetsItsJar`: builds do not go
  back).

Other conditions that matter: `DiskWithinStore` and `GrantSeenByWaiters` are about
uses that remove nothing; `DiskWithinStore` does not see a newer grant that an older
snapshot overwrites; the clock is not set back over a restart of a cache; the
application does not install an id while it installs it, and looks for Mihon
extensions while it does nothing else; from the start of a Mihon install to its end
nothing is claimed of its package; no application of `bindings_calls` switches the
extension or changes accounts and also calls back from its prompts. A callback of
the application that panics, and so leaves the entry of its prompt behind, is not
modelled.

### Fairness

- `PermissionBroker`: ready futures are polled again (weak fairness of each
  activity), tokio's mutex is first come, first served (strong fairness of the
  steps that take it), and the application answers the prompts it shows (weak
  fairness of the answers, which may be refusals or errors).
- `AccountValidation`, `ExtensionRuntime`: futures and JS threads keep running
  and scripts return. Nothing is assumed of the application: it need not
  enable, edit or persist.
- `FlutterBindings`: the methods run on, locks are first come, first served, the
  application answers its callbacks, and scripts return; nothing is assumed of
  the calls it makes.
- `ExtensionAdapter`: a save of cookies that began ends, and the 30 s pass;
  `CookiesCoalesce` adds that requests go on.
- `CacheStore`, `MihonAdapter`, `FlutterGlue`: none, their properties are about safety.

## Proofs

`tlapm XProofs.tla` checks the theorems about `X`, for all sets of activities,
hosts, paths, keys, packages and so on, and all `Uses`. The hypotheses of a
theorem are named; otherwise it rests on the assumptions of the modules alone:
sentinels are no members of what they stand beside, kinds of activities are
disjoint, maps have their domains. TLC evaluates those in every run.

`PermissionStoreProofs`, `PermissionBrokerProofs`:

- `AllowsTransitive`: covering is transitive (through `PrefixTransitive`), which
  is why `grant` may leave out a covered permission; `GrantIsExact`: after a
  grant just the permissions held before and those it covers are held.
- `TypeCorrect`: `TypeOK`, strengthened by `AskedKnown`: an activity past
  its prompt knows what it asked for, without which a grant has no type.
- `OneFlightPerHost`, `NoLostWakeup`, `RefusalsHold`: `OnePromptPerHost`,
  `WaitsForALivePrompt` and `NoPromptOnceDenied`. None is inductive.
  `SingleFlight` adds that the mutex belongs to one fetch between `lock` and
  `decide` (`MutexOwned`), and that `inflight[h]` is *exactly* the fetch that is
  between its prompt and its settlement for `h` (`EntryOwned`): a second prompt
  would need a second owner of one entry, and a waiter took its `Notify` from
  that entry.
- `GrantReachesWaiters` and `PersistedGrantsHold`: in a use that removes nothing (and
  whose loads succeed, for the second) the store only grows until a restart,
  `HasMonotone` carries a grant over the steps of all other activities
  (`GrantRecorded`), and all snapshots are subsets (`CopiesWithinStore`).
- `BrokerImplementsHostDecision`: each step is, read through `decision`, a step
  of `HostDecision` or a stutter; only a removal is a `Withdraw` and only a
  restart a `Forget`. It rests on the invariants of `OneFlightPerHost`.

`AccountValidationProofs`:

- `AccountsTypeCorrect`, with `ChannelWaits`: the JS thread answers each validation
  once.
- `LoginsAreKept` (`LoginsSurvive`) by `Kept`: but for the domains in `unsure`, the
  store is logged in wherever the disk is, and every snapshot on its way is logged in
  exactly where the store is, so that whichever arrives loses nothing. That merging
  keeps logins, of restarts too, is a lemma about `MergeAuth` and `MergeDeclared`.
- `OnlyValidatedStay` by `Judging`: of a domain that is not `mixed`, one validation
  is under way at most, the account it is to put back has known credentials, and
  unknown ones are only in the account that it finds first, when it finishes too. The
  answer's domain is arbitrary; `mixed` is what an answer into the domain of another
  validation costs.

`CacheStoreProofs`, where `Awaited` says that the script awaits each call:

- `CacheTypeCorrect`: types, and where each operation may be (`TasksKnow`), for
  any number of overlapping operations.
- `IdleIndexIsSaved`, under `[]Awaited`, and `OneTaskSaves`, for one task, which
  always is. `InTurn`: the index in memory is the one on disk, or the
  one task that works still has to save it (`Relies`).
- `EntriesHaveFiles`, under `[]Awaited`: entries get their file before the index that
  lists them, and lose it after (`EntriesKept`), but for those of `cut`.
- `TicksGrow`, for all interleavings: the ticks of the entries of one index differ
  and lie before the next tick. Every copy of an index is `Timely`, those of
  tasks and of the directory too, since each may become the index again.
- `SetsEvictTheOldest`, for all interleavings: what `collect_evictions` leaves is what
  `IsPut` of `DurableLru` asks for. That a set of entries has an oldest one
  (`OldestExists`) takes the place of an induction over the entries. The limits on
  entries and on bytes are two instances of one lemma (`LimitEvicts`) about a weight
  of sets of entries: their number, or the bytes they take, a sum of sizes being
  the cardinality of a set.
- `CacheIsDurableLru`, under `[]Awaited`, and `OneTaskIsDurableLru`: through `Recency`,
  which gives for each entry its size and the keys used before it, each step is one
  of `DurableLru` or none: an insertion is a `Put`, a hit a `Touch`, the rename of
  `index.json` a `Save`, a restart a `FallBack`. `InTurn` is what makes the
  rename save what is in memory and a load find what was saved; policies have
  natural numbers for limits (`CacheAssumption`), as `Option<usize>` and
  `Option<u64>` have.

`ExtensionRuntimeProofs`:

- `RuntimeTypeCorrect`; `CodeIsData` by `ThreadsMatch`: a context is a thread that
  was started with the data its extension had then, and data change only under
  `&mut self`; `AnswersStay` by `CallersHold`: a caller who waits for an answer is a
  sender of the thread that has its task, so that it cannot run out of senders.
- `RequestsReachAMatch` (`RoutedToAMatch`), for all ids: a context is a thread of its
  extension (`ThreadsMatch`), and a thread that a request holds keeps its code
  (`HeldStays`), whatever is reloaded meanwhile.

`ExtensionAdapterProofs`:

- `AdapterTypeCorrect`; `DamagedOnlyWhileWritten` by `DirectoryKept`: one install at a
  time has a name, what it reads back is what it has written, and a file that is
  half written has a writer, or had one that failed or whose process ended (`cut`);
  `FetchTears`: only requests tear a jar of cookies.
- `RemovalsAreRight`: `FilesKept` says which file a task means to remove. It needs
  `RenamedAreAlone`: overlapping operations are for directories in which files are
  named for their ids; else an uninstall that has found its file by searching may
  remove what an install has put there since.
- `SavedValuesSurvive` (`SettingsSurvive`) by `SettingsAgree`: every object and every
  save under way shows what is persisted, but for the settings in `excused`; a load
  puts there what it does not take over, also of a failed load, a change what it
  changes, and a save what is new to some object of the extension only.
- `ShownIsRestored` and `SavesInTurn` by `SettingsKept`: what an object that is settled
  shows is on disk, and a save has stored what it has stored so far. They need that
  the saves of an extension do not overlap (`OneSaveEach`, which one task implies): of
  two saves each may store one of the two keys.

`FlutterBindingsProofs`: `LocksExclude` (`TypeOK`), `SwitchesAreAlone`
(`SwitchedWhileIdle`), `SavesStoreTheStore` (`SavesAreCurrent`). What an actor holds is
a mode for each lock and the part it has copied. `Path(steps, x, y)` says that a
sequence of steps leads from holding `x` to holding `y`, each step being legal
where it is taken (`Takes`): a change of the store needs the store alone, a thread is
replaced by who has the object alone, a save hands over what was copied under a
lock that is still held. All methods and all steps of scripts are paths from
`Nothing` to `Nothing` (`MethodsLegal`, `ScriptStepsLegal`). The invariant is that what
each actor still has to do is a path from what it holds (`Leads`), and that the
lines of the locks back what it holds (`Backed`); `Exclusion` then shows that
who is admitted alone is alone.

`MihonAdapterProofs`:

- `EachBuildGetsItsJar` by `SidecarIsTrue`: a sidecar never names a newer build than
  the last one, and while a JAR is written names another build than the one that
  writes it.
- `MihonTypeCorrect` by `Known`: what a task knows at each step, and that the maps
  agree on what the application holds.
- `InstalledPackagesRun` by `InstallsWork`: one operation on a package at a time
  (`OneAtATime`), each step of an install finds what the one before left
  (`Progress`), so that the desktop's class loader is new when it loads, and a
  package that is installed is left alone (`AtRest`).
- `UninstalledAreGone`: nothing of an uninstalled package is found below `jars/`
  (`GoneAreDeleted`), since an uninstall that makes it `gone` has deleted the file
  there or found none; and the list has the packages, or the one task that
  writes it does (`GoneAreHidden`). It needs `DevicesWait`: where packages are in the
  system, one operation at a time.
- `ScansFindTheRest`: what is due has been given to the application or is still
  listed (`ScanFinds`), the JVM keeps no half file of it, and of a package in the
  system no other version (`LoadersWhole`).

Model-checked only:

- liveness (`FetchAnswered`, `ValidationFinishes`, `CallsAnswered`,
  `OldThreadsEnd`, `CallsEnd`, `CookiesCoalesce`): fairness is out of the prover's
  reach;
- `InStep`: `FlutterGlue` has no parameter to prove anything for, its run is
  exhaustive.

## Not modelled

- *Mihon sources* (`mihon/src/extension.rs`, `mapping/dto.rs`): conversions
  around JNI calls. Known there: preferences are pushed before a call and are
  not part of it, so that concurrent calls share them, and overrides stay.
- *Mihon repositories* (`repo.rs`): fetching and parsing an index, with a fallback
  to the plain one; the cache of indexes is never invalidated.
- *Range requests* (`range_file.rs`) and *path normalisation* (`filesystem.rs`):
  functions of numbers and strings around file I/O.
- *C structs of the glue* (`frb_generated.rs`, `mod io`): the arguments of calls
  whose result is a value; `GlueCalls` leaves them out.
- *Metadata, URL, parsing, text and time helpers*: pure conversions.
- *Job polling* (`utils.rs`): it is what makes jobs interleave at awaits and
  ready ones run again, which every model takes as step granularity and
  fairness.
- *Node bindings, type export, TypeScript libraries*: conversions and delegation;
  the operations that change the modelled state are actions there.
- *Failures of the Mihon adapter*: of `get_source_info`, of the client
  (`adapter.rs:383-433`), and of writing the list of hidden packages, which is only
  logged (`adapter.rs:826-828`).
- *Hazards that are not in the list for want of room*: failed loads of
  permissions are followed by saves; expired entries count against the limits of
  a cache until they are purged; a clock set back reorders them; a file without
  an index entry stays; a reload that cannot read its file leaves the extension
  disabled, and one that can merges no new definitions; two objects of one
  extension overwrite each other's settings and cookies; a callback of Dart that
  throws panics the task that made it; on Android an update runs the old code
  until the process ends; downloads of two packages within a millisecond share a
  file.

## Plan

All modules but one are written, and every safety property of the passing runs
but `InStep` is a theorem. What is left:

1. What the hypotheses of the theorems exclude, stated as theorems of their own
   where something weaker still holds: two saves that overlap leave each key as one
   of them had it, two validations of one domain restore one of the candidates, an older snapshot
   that is persisted last is one the store once had.
2. `MihonSource`: preferences, overrides and filters of one source.
