# A verification of programmable-redfish-proxy

The proxy stands between Redfish callers and one BMC. Every request is handled
by a Rune script: the process keeps a set of compiled scripts, a small shared
store, and nothing else between requests. This directory models those parts in
TLA+, checks them with TLC on small instances, and proves with TLAPS, for every
instance, every safety property that the passing runs check but one.

Paths below are relative to the repository: `src/` is the Rust code, `scripts/`
the shipped Rune scripts, `tests/e2e.rs` the tests.

## 1. The system

| part | state | operations | talks to |
| --- | --- | --- | --- |
| listener, startup, signals (`main.rs`) | phase of the process, pending SIGHUP | start, accept, SIGHUP, SIGINT/SIGTERM | `AppState::build`, the reload task, one spawned task per connection |
| entry point and router (`proxy.rs`, `config.rs`) | the routes, fixed at startup | `handle`: read the body, resolve the route or answer 405, run the script | `run_script` |
| script host (`rune_host.rs`) | `ScriptStore::current`, an atomically swapped set of units | `compile_dir`, `reload`, `current`, `execute`, `finish_*` | the script directory, the VM |
| request context (`RequestCtx`) | the caller's head and body, the headers to relay, the id cache | created by `execute`, read by every `bmc::*`, dropped with the handler | task-local, so scripts cannot name it |
| `bmc` module (`script_bmc.rs`) | none, but for the id cache | `forward`, `inbound`, `request`, `send`, `forward_with`, `buffer`, `rewrite`, `expand_*`, `system_id`, `manager_id` | the BMC, through one client with one total timeout |
| header and link policy (`http.rs`) | none | `copy_end_to_end`, `script_may_set`'s lists, `rewrite_response` | called on the way out and back |
| shared store (`script_store.rs`) | one map behind one `Mutex` for the process | `get`, `get_or`, `set`, `remove`, `remove_prefix`, `contains` | every script, from every request task |
| supermicro scripts that keep state | keys under `supermicro/` in the store, the boot override on the BMC | lockdown triple, secure boot, boot order, UEFI password flag, factory reset | the store and the BMC |
| BIOS scripts | none, the BMC has it | read and write of the pending settings under two spellings of one path | the BMC |
| read-only scripts, JSON utilities, logging, configuration | none | documents, patches, records, validation | - |

Request tasks run in parallel on the runtime's threads. They share the store and
the units, and meet again at the BMC. One handler is one task, so its own branches
interleave only at awaits. A caller that hangs up drops its handler at whatever
await it is at; a shutdown does that to all of them, since `serve` returns and
nothing drains.

What is hard here, and what each part must therefore guarantee:

* store: steps under a lock, a capacity checked and then used, removal key by key,
  a panic that poisons. It must look like a map whose operations are atomic.
* reload: files are read one by one while an operator edits them and further
  signals arrive. Nothing that does not compile may run, no signal may be lost,
  and a failed reload must change nothing.
* probing: five awaits between looking at a cache and filling it. The walk must
  pick the host system whatever fails, and ids must not change under a handler.
* exchange: headers from three sources put on one request, a body that may be
  streaming, rewritten, or broken off, and a length that must stay true.
* supermicro scripts: sequences of writes that must end in agreement in spite of
  restarts, a full store, and other callers; acknowledgements that must not lie.
* BIOS scripts: a retry of a write that must never make it happen twice.
* router: a stable sort by literal prefix, methods that shadow, and a 405 that must not
  fall through to a script that relays.
* JSON and link text: patches that fail half way, copies that double, indices at the
  edge of an array, offsets into a text that several URLs share.
* reads of the BMC: two scripts that derive one serial from two walks, and a collection
  fetched member by member.

`PROJECT.json` lists these under `hazards`, each at the line where it bites.

## 2. Modules

| module | models | checked as | proved in |
| --- | --- | --- | --- |
| `StoreOps` | calls of the store as data: what is refused, what a call does to a map, what it answers | part of the next two | - |
| `AtomicStore` | the promise: each call takes effect at one instant, a panic may lose the map for good | the abstraction of `Store` | - |
| `Store` | `script_store.rs` as it runs: check, lock, work, unlock, panic | `MCStore` | `StoreProofs` |
| `ScriptHost` | startup, SIGHUP, reload, the snapshot of a request, shutdown | itself | `ScriptHostProofs` |
| `Router` | the configuration's routes: validation, building, the sort, the choice and the 405 | `MCRouter` | `ScriptHostProofs` |
| `ResolveIds` | `resolve_ids` and its cache within one request | itself | `ResolveIdsProofs` |
| `Gateway` | the promise to both sides of an exchange: what the BMC is asked and what the caller gets | the abstraction of `Exchange` | - |
| `Exchange` | one exchange from the caller's head to the answer's last byte | itself | `ExchangeProofs` |
| `Supermicro` | the scripts that write the store or the boot override | `MCSupermicro` | `SupermicroProofs` |
| `Bios` | the scripts that stand between two spellings of one path | itself | `BiosProofs` |
| `Inventory` | the serial of Systems and of Chassis, and `expand_collection`, composed with `ResolveIds` | itself | `InventoryProofs` |
| `JsonDoc` | JSON documents, and the functions of the `util` module that read or change one at a pointer, path or key | part of `ScriptUtil` | - |
| `LinkText` | `swap_authorities` and what it is made of, turn by turn | part of `MCScriptUtil` | `ScriptUtilProofs` |
| `ScriptUtil` | a handler that patches, merges, sets and rewrites what it holds, step by step | `MCScriptUtil` | `ScriptUtilProofs` |
| `JsonRfc` | what RFC 6901 and 6902 say of a patch, over nested values instead of places | part of `MCScriptUtil` | - |

Where a component needs what another guarantees it relies on that guarantee, and
not on the other's steps. `Supermicro` takes a store call for one step, which is
what `StoreIsLinearizable` proves of `Store`. `ScriptHost` takes a running handler
for a state it may be in for ever, and `Exchange` says what happens in there; the
route `ScriptHost` lets a request choose freely is the one `Router` picks. `Exchange`
takes a rewritten body to hold no link to the BMC, which `LinkText` says of
`swap_authorities` turn by turn. `ScriptHost` and `Router` say what happens to a request
on its two sides of that choice, and their proofs stand together. `Inventory` is the exception: it takes the very actions of `ResolveIds`, by
`INSTANCE`, because what two scripts agree on depends on every step of the walk.

A definition whose comment begins with "Mutant:" is not part of any specification.
It is the definition after it with a plausible mistake, and shows which property
notices that mistake (`mutants` in `PROJECT.json`).

### 2.1 StoreOps, AtomicStore and Store

`entries`, `holder` and `poisoned` are the `HashMap`, the owner of the `MutexGuard`
and the poison flag; `pc`, `call`, `answer` and `before` are each caller's place in
the function and its locals. Every function is checks, `lock()`, work, return:

* `Refuse` is `check_key` and the two checks `set` makes on its value, all of which
  precede the lock. Keys and values are opaque; the ones that fail the checks are
  the constants `BadKeys` and `BadValues`.
* `Acquire` and `AcquirePoisoned` are the two results of `lock()`.
* `Look`, `Remove` and `SetFull` do their work and leave in one step, since nobody
  can look in between. `set` has a step for the check of room (`SetRoom`) and one for
  the insert (`SetInsert`); `remove_prefix` has one for `before` (`RetainStart`), one
  per key `retain` drops (`RetainDrop`, in any order, as a `HashMap` has none), and
  one for the answer (`RetainEnd`).
* `Panic` may happen at any point under the lock. It poisons, frees the lock, and
  leaves the map as it is.

`Prefixes` and `Under` stand for `starts_with`: `Under[p]` is the set of keys that
start with `p`.

The refinement mapping from `Store` to `AtomicStore` puts the instant of a call at
its last step under the lock, and that of `remove_prefix` at its first: from there
on `Visible` already lacks all keys under the prefix, and `AnswerOf` is what will
be answered. A poisoned map is gone as far as any script can tell.

### 2.2 ScriptHost

`disk` is what each `.rn` file holds, an abstract version of which those in `Broken`
do not compile. `units` is `ScriptStore::current`. The loader reads as
`collect_scripts` does: it visits the directory entries in any order (`Visit`, which
drops an entry that does not exist), and reads a file in a later step (`Read`), so that an
edit can come between; a file gone by then fails the load (`Vanished`). All is compiled
at the end (`CompileFails`, `Swap`). At startup the named scripts must be there
(`Serve`, `RefuseStart`); a reload checks no such thing.

`armed` and `hangup` are the signal handler and the one pending notification tokio
keeps. A SIGHUP before the handler is registered has its default action, which ends
the process. `Gone` is the end of the process in every case.

`--check` is the same load with an end of its own: it stops the process, successful
(`CheckPasses`) or not, and never serves.

A request reads its body (`BadBody`), resolves its route (`MethodNotAllowed`, or any
script a route names: which one is `Router`'s subject), takes its snapshot and its unit
(`Execute`, atomic because nothing awaits in between), and ends.

### 2.3 ResolveIds

`ProbeOrder` is the chain of the preferred system and the others, as the set of
positions it goes through, 0 first: an id that is listed twice is probed twice, as the
iterator does. One action per stretch between two awaits: look at the cache, read Systems, one step
per system probed, read Managers and fill the cache. The BMC answers each GET with
anything and may fail any of them. `Fibers` are the branches of a handler that ask at
once; a handler that awaits each call is one fiber. `Drop` is a select that drops the
branch that lost.

### 2.4 Exchange

The handler is any program over the API: in state "handler" it may take any step the
`bmc` and `resp` modules offer, with whatever it holds. A handler that joins or selects
has several calls under way at once (`script_bmc.rs:580-582` speaks of a fan-out): each
of `Branches` has a call of its own, and the steps of the calls and of the handler
interleave freely. `how` is the call a branch awaits, `wire` what the BMC is being sent
by it, and `coming` the response whose body it is reading. `building` is the `BmcRequest`
the handler sends next, `held` the response it goes on with, and `out` what the caller
gets. A handler that has got two responses goes on with either (`Handed`); it cannot end
with both. An Err in any branch is one the handler has in its hands ("erred"), while the
other branches go on; `Dropped` ends whatever is still under way, as a select or a return
does.

A header is a name and who set it, so that the order in which `dispatch` puts the
script's headers, the relayed ones and the content type on a request decides who wins.
Names stand for their class: hop-by-hop, redacted, relayed, `accept-encoding`,
`content-type`. What one sender repeats under one name counts once. A body is what
matters of it: does it hold links to the BMC, and can it be parsed. A compressed body
comes only if the request invited one.

Methods that move `self` consume it: a refused builder call leaves no request, a failed
`.rewrite()` or `.buffer()` no response. That is why a handler that recovers from the
error cannot return what it failed to rewrite.

`Gateway` says what either side may rely on and nothing of the handler: the caller asks,
the BMC is sent something by a branch, replies to it or is lost, the handler gives up
what it held, and the caller is answered, or leaves at any time. With the answer all that
is under way ends. That what is sent never follows the answer, is faithful to the caller,
and that the answer is earned, is in the guards.

`WithHeader` is the one builder of a response; `made` tells what the script built from
what it relays, whose headers it cannot touch.

### 2.5 Supermicro

One action per stretch of a handler between two awaits. Each stretch makes at most one
store call. A setting is a resource, a member (manager or system id) and a value, "garbled" for a body
that is not JSON or has the wrong type. `KeyOf` is the key templates; two of them
colliding, or one escaping the reset's prefix, are the mistakes it exists for.

The lock and unlock sequences are those of the lockdown contract test
(`tests/e2e.rs`, from line 5491), the second in reverse order. `Admin` issues them; the
other clients issue any write, a boot PATCH or a reset at any time. `disturbed` records
that another write or a restart came between; then nothing is promised.

### 2.6 Bios

`spelling` is the one the firmware routes. A request has a list of attempts, a spelling
and the call that makes it; a 404 moves to the next, if there is one. `flaky` says
whether this BMC may refuse or lose things: "what is pending shows" is claimed only of
a BMC that answers all it can, everything else of both.

### 2.7 Router

A path is a sequence of characters, a pattern one of tokens, where a wildcard is one
token: `*`, `?`, `**`, a class, and a class that is never closed, which globset refuses.
`Declare` writes one `[[route]]`, `Validate` is `Config::validate`, `Build` pushes one
entry with its literal prefix length, `Sort` is the stable sort, and `Route` what `handle`
does with a request: `resolve`, then `claims_path`, then the default script.

What a reader of the code may not expect: a method is any token and told apart by case,
so a route for `get` starts, claims its path, and answers every GET with a 405. And a
method that a narrow route refuses still goes to a broader one that allows it:
`RestrictionHolds` speaks of paths whose routes all refuse.

### 2.8 JsonDoc, JsonRfc, LinkText and ScriptUtil

A document is a function from its places to what stands there: null, a text, an object or
an array. A place is the steps that lead to it, each a key or the position of an item. So
a value of any depth is an ordinary function, and what the code does by recursion into
one is said without: `Part` is the value at a place, `Put` and `Without` change it, and
`InsertItem` and `RemoveItem` number the later items of an array anew. `Tree` is what
makes such a function a `serde_json::Value`; that the operations keep it is a theorem. A
function that may fail yields a set, empty or of one result. Numbers, booleans and texts
that hold no link behave alike here, and one text stands for them. There is one exception,
which the model leaves out: `test` compares two `serde_json` values (`script_util.rs:555`),
for which 1 and 1.0 differ (section 6).

In `ScriptUtil` a call works on `copy`, as every function of `util` works on what
`serde_json::to_value` gave it, and `Return` hands it back:

* `json_patch` checks its list (`BeginPatch`) and applies one operation at a time (`Apply`);
* `json_merge_patch` is a recursion, whose pending calls are `todo`, the places of the patch
  that it is yet to come to. One `MergeTurn` is one call of `merge_json`, or one null of
  its loop; the order of siblings is left open, which a map does not promise either;
* `set` takes a segment at a time, into an item (`StepToItem`), or into a key it creates
  where there is none (`StepToKey`), and then writes (`WriteLast`). `at` is `node`;
* `rewrite_links` walks in the same way (`Visit`) and at a text goes through the turns of
  `swap_authorities` (`TakeText`, `Swapping`, `PutText`), which are those of `LinkText`.

`usize::from_str` takes leading zeros and a plus and refuses more than `MaxIndex`, where
`array_index` takes neither; that is why `Indexed` is not `ArrayIndex`.

`JsonRfc` states RFC 6902 over a value that holds its values, and follows a path into it by
recursion. The two sides share no definition of what a path finds or how an array
moves. What RFC 7386 says of one place is short enough to say in `ScriptUtil` itself
(`MergedAsSaid`).

`LinkText` reduces characters to what decides a turn of the loop: a letter, a digit, the
colon, the slash, what ends an authority, the BMC's host and the proxy's. The host of the
BMC, an IPv4 address, is one character of those a scheme may hold and none it may begin
with. `SwapTurn` is one turn of the loop and `EndSwap` its end.

By design of the code, and so in the model: `util::set` with a last segment past the end
of an array, or no index, puts an object in the array's place, while such a segment in
the middle of a path is an error; a newline does not end an authority; a URL that stands in another's
authority, or whose scheme would begin with a digit, is left alone.

### 2.9 Inventory

`bmc` is what the BMC holds, and does not change; any GET of it may fail. A serial is
its source: the system's own, its UUID, or a digest over the manager. `told` collects
the serials given for the one machine. The second half, of a BMC that is not told apart
(`bmc = None`), is `boot_option.rn` reading interfaces through `expand_or_empty`.
`ResolveIds` is instantiated with one fiber and its own actions are taken, each with what
this BMC would have answered.

## 3. What is checked

| run | result | distinct states |
| --- | --- | --- |
| `Store` | passes | 549 thousand |
| `ScriptHost` | passes | 165 thousand |
| `ResolveIds` | passes | 5 thousand |
| `Supermicro` | passes | 1.8 million |
| `Bios` | passes | 66 thousand |
| `Exchange` | passes | 195 thousand |
| `Router` | passes | 172 thousand |
| `ScriptUtil` | passes | 483 thousand |
| `Inventory` | passes | 1.7 million |
| `SupermicroOrderNonEmpty`, `BiosMixedCase`, `ExchangeEncoding` | violated, see section 6 | - |

Most runs check one type invariant; those of `ResolveIds`, `Bios`, `Inventory` and
`ScriptUtil` are only proved. The other properties:

* `LockDiscipline`: whoever is between lock and answer holds the lock, and only they.
* `WithinCapacity`: the map never exceeds `MaxKeys`, at any instant.
* `Linearizable`: `Store` implements `AtomicStore`.
* `LockComesFree`: a lock taken is given up.
* `OnlyCompiledRuns`: nothing that does not compile is ever live or run, whatever was
  edited while the loader read.
* `ReloadIsFresh`: when the reload task is idle and nothing was edited since the last
  SIGHUP, what runs is what is on disk, unless that does not compile. A signal that
  comes during a reload is therefore not lost.
* `NamedScriptsStay`: a script a route names is missing only if its file was removed
  since the start.
* `ReloadReflected`: after the last edit and a SIGHUP the new scripts do go live.
* `WalkFindsTheHost`: the preferred system is always asked; a system that answered with
  a Bios is chosen, and else, all having been asked, the preferred one.
* `ProbedOnce`: one walk per request.
* `CallersHeadersArrive`: a relayed header arrives as the caller sent it on every path,
  and a credential is never the script's.
* `FramedOnce`: a body has one content type, and nothing hop-by-hop goes out.
* `RewrittenIsClean`: what was rewritten and returned shows no link to the BMC.
* `LengthIsTrue`: the declared length is that of the body sent.
* `KeepsContract`: `Exchange` implements `Gateway`. However many calls are under way, what the
  BMC is asked is faithful to the caller, and nothing is asked or awaited once the caller has
  its answer; the caller gets one answer; and a 200 that passes for the BMC's is one that the
  BMC gave during this exchange and the handler still held.
* `EveryWaitEnds`: no silence of the BMC holds a branch of a handler or a caller for ever,
  whatever the other branches do.
* `SequenceTakesEffect`: a lock or unlock sequence that was acknowledged throughout, and
  disturbed by nobody, leaves the three reads in agreement from any starting state.
* `NoFalseSuccess`: a 204 for a boot override means that the BMC applied it.
* `ResetForgets`: a factory reset leaves nothing of what any script stored.
* `ActsAtMostOnce`: one request never makes the BMC act on its write twice.
* `AnswersTellTheTruth`: success means it happened once, 404 and 503 that it did not.
* `CapitalSdShowsPending`: what Bios/SD shows was pending while it was read, on
  firmware that spells BIOS in capitals.

* `MostSpecificWins`: a request goes to the claiming route of the file with the longest
  literal prefix, and to the first declared of those that tie.
* `RestrictionHolds`: the default script gets what no route is for, whatever the method;
  a 405 is exactly a path all of whose routes refuse the method.
* `AllOrNothing`: a call that fails, at whatever operation or segment, leaves the handler
  what it had.
* `GrowthBounded`: an operation adds at most the largest value supplied or
  `MAX_COPY_NODES`, so a patch cannot double a document over and over.
* `PatchMeetsRfc`: to every document on its way, each operation does what RFC 6902 says,
  and fails exactly where the RFC or the limit on copies says so.
* `MergeMeetsRfc`: a merge leaves at every place of target, patch and result what RFC 7386
  says: the patch's value, nothing under a null, an object, or the target's own.
* `SetLands`: what `util::set` wrote is what `util::at` reads there; all that is lost stood
  under the target or under a value on the way that could not be gone through; and it
  fails only on the empty path and on an array too short.
* `SlicesInOrder`: the swap never slices a text backwards or past its end.
* `NoTargetLinkLeft`: no link to the BMC is left in a swapped text, but inside the
  authority of another link, and a swapped Location names no one but the proxy.
* `DocumentHoldsNoLink`: nor in any text of a rewritten document, however deep.
* `ForeignKept`: a text in which no link names the BMC is as it was.
* `SerialsAgree`: the machine has one serial in every answer of Systems and of Chassis,
  unless a failed GET was taken for an answer (`missed`, see section 6).
* `ExpandedWhole`: a script gets a collection with all its members, or an empty one.

### Bounds

* `Store`: two clients, three keys of which two are under the prefix, room for two, two
  values, one key and one value that are refused. Two clients make every pair of calls
  overlap; three keys against room for two give a full map, an overwrite of a full map, a
  refused growth and a removal of two steps. The proofs cover every other size.
* `ScriptHost`: two scripts, one named and one not, three texts of which one is broken,
  one request, two edits (`MaxEdits`) and two starts (`MaxStarts`). Two edits suffice to
  edit during a load and again during the reload the first signal caused; requests share
  nothing but the units.
* `ResolveIds`: collections of up to three systems (`MaxListed`), which may repeat an id
  or lack `System_0`; three calls in a row (`MaxCalls`).
* `Exchange`: a header of each class (`Headers`); two kinds of `Callers`, so that each header is
  once sent and once not, with and without the script's own (the proofs cover every set of
  headers); two branches and two requests begun or forwarded (`Branches`, `MaxCalls`), so that a
  second request is built, sent or answered while the first is under way or its answer is held.
* `Supermicro`: two clients, one manager whose id also names a system, room for three
  keys so that the lockdown triple fits and any other key makes a write fail, one
  restart (`MaxRestarts`).
* `Bios`: two clients, two values, either spelling, reliable or not.
* `Router`: files of up to three routes (`MaxRoutes`) out of 25: patterns that are exact,
  below, beside and above one another, that tie, and one that is no glob; for any method,
  for some, for one in lower case. Seven paths, two methods. Three routes give a tie with
  a third in between.
* `ScriptUtil`: four documents, patches of up to two operations out of every kind, path
  and value, so that the second may undo or need the first; fifteen pointers, with an index
  at, before and past the end, with `-`, with a leading zero, with keys that need escaping;
  paths of `set` also with a plus and with an index over `MaxIndex`. Two operations
  reach every pair; the proofs cover longer patches. The run starts with a handler, or with
  the swap of a text, which may also be a Location (`LinksInit`): texts of up to five of nine pieces,
  which is two URLs and what may stand around them.
* `Inventory`: every BMC of two systems and two managers, any subset of serial and UUID in
  each, with and without a Bios; up to three interfaces (`MaxNics`). The serial and the
  boot option are explored apart, since they read nothing in common.

Deadlock is checked except in `ScriptHost`, where the operator may stop the process for
good, `ResolveIds`, where a handler comes to its end, `Router`, where a file may be
refused, and `ScriptUtil`, where a call is over.

### Fairness

* `Store`: weak fairness of what a client does under the lock, no more. No store function
  awaits or blocks there, so a thread that runs gets out. Nothing is assumed about who
  gets the lock next: a `Mutex` promises no order.
* `ScriptHost`: weak fairness of the reload task's steps and of its first poll. They
  only compute and read files. Handlers, callers and the operator owe nothing.
* `Exchange`: weak fairness of the client's timer of each request and of the stream that is
  relayed at the end. `upstream_client` sets it for every request of its own, and it covers
  connecting, the head and the body. The BMC owes nothing, and neither does the handler.

## 4. What is proved

Eight modules of proofs, each for every value of the constants of its modules, the bounds
of the last section included, under the assumption each of these names. The assumptions
say that `None` and its like are no other value, that bounds are naturals, and which
constant is a subset of which. That of `LinkText` says that the texts are texts, of any
length; that of `ScriptUtil` that the documents are trees, of any shape, and that what a
pointer or path is split into are names of keys (it is texts in the code; that splitting a
text yields texts would take an induction over its length).

| theorem | property | what it takes beyond the property |
| --- | --- | --- |
| `StoreProofs` `TypeCorrect`, `LockHeldInside`, `NeverOverCapacity` | `TypeOK`, `LockDiscipline`, `WithinCapacity` | what a client under the lock knows (`KnowsInside`) |
| `StoreProofs` `StoreIsLinearizable` | `Linearizable` | a refinement mapping, `IInv` on both sides of a step |
| `ScriptHostProofs` `HostTypeCorrect`, `CompiledRuns`, `FreshAfterReload`, `NamedStay` | `TypeOK`, `OnlyCompiledRuns`, `ReloadIsFresh`, `NamedScriptsStay` | `AtRest`, `Fresh`, `Stay` |
| `ScriptHostProofs` `RoutesTypeCorrect`, `MostSpecific`, `Restriction` | `RouterTypeOK`, `MostSpecificWins`, `RestrictionHolds` | `InStep`, `Arranged` |
| `ResolveIdsProofs` `IdsTypeCorrect`, `HostIsFound`, `OneWalk` | `TypeOK` (no run), `WalkFindsTheHost`, `ProbedOnce` | `Walking`, `Cached` |
| `ExchangeProofs` `ExchangeTypeCorrect`, `CallersHeaders`, `OneFrame`, `Clean`, `TrueLength` | `TypeOK`, `CallersHeadersArrive`, `FramedOnce`, `RewrittenIsClean`, `LengthIsTrue` | `Arrives`, `Framed`, `Kept` |
| `ExchangeProofs` `ContractKept` | `KeepsContract` | a refinement mapping, `IInv` on both sides of a step |
| `SupermicroProofs` `SupermicroTypeCorrect`, `SequencesLand`, `NoFalseClaims`, `ResetsForget` | `TypeOK`, `SequenceTakesEffect`, `NoFalseSuccess`, `ResetForgets` | `Progress` |
| `BiosProofs` `BiosTypeCorrect`, `NoDoubleWrite`, `TruthfulAnswers`, `ReadsShowPending` | `TypeOK` (no run), `ActsAtMostOnce`, `AnswersTellTheTruth`, `CapitalSdShowsPending` | `Sound` |
| `InventoryProofs` `InventoryTypeCorrect`, `OneSerial`, `AllOrNoMembers` | `TypeOK` (no run), `SerialsAgree`, `ExpandedWhole` | `Apart`, `Walking`, `Truthful`, `Served`, `Expanding` |
| `ScriptUtilProofs` `NoSlicePanics`, `NoLinkIsLeft`, `ForeignIsKept` | `SlicesInOrder`, `NoTargetLinkLeft`, `ForeignKept` | `LoopInv` |
| `ScriptUtilProofs` `NoLinkInDocument` | `DocumentHoldsNoLink` | `RewriteInv` |
| `ScriptUtilProofs` `UtilTypeCorrect`, `NothingOnFailure`, `GrowthIsBounded` | `UtilTypeOK` (no run), `AllOrNothing`, `GrowthBounded` | `UtilInv`, `GrowthInv` |
| `ScriptUtilProofs` `MergeIsRfc` | `MergeMeetsRfc` | `MergeInv` |
| `ScriptUtilProofs` `SetIsWhereAtReads` | `SetLands` | `SetInv` |

Each is proved the same way. `IInv`, or in `ScriptUtilProofs` one invariant per call, is
the property strengthened until it is inductive;
one lemma shows that `Init` implies it, one per action that a step keeps it, and the
theorem joins these. The strengthenings, and why each is needed:

* Store: that the room a `set` saw is still there when it inserts follows from the lock
  being held in between; that a holder is not working on a poisoned map follows from where
  poison comes from. `KnowsInside` says both, and that the map is finite, which
  cardinalities need. In the refinement the case that matters is `RetainDrop`: each key
  it drops is already gone from `Visible`, because only the lock's holder can be removing.
* ScriptHost: `ReloadIsFresh` speaks of the moment a load is over, so the invariant has to say
  what a load under way has got right: as long as nothing was edited, every file it is
  past equals the one on disk (`Fresh`), and a named one it is past is missing only if it was
  removed (`Stay`). `AtRest` says which variables idle in which phase.
* Router: the table is the file under a permutation (`Arranged`) that is
  descending and stable. That the first claiming entry of such a table outranks every
  claiming route of the file is then a fact about permutations. How a pattern matches is
  not looked into, so the theorem holds of any glob semantics.
* ResolveIds: what is left to probe and what was heard make up the collection
  (`Underway`), no system heard of so far has a Bios, and position 0, the preferred, goes
  first. That a finite set of positions has a least is the library's `WFMin`.
  `HostIsFound` holds with any number of branches; `OneWalk` assumes that there is one,
  which is the handler that awaits each call, and with two it is false (section 6).
* Exchange: the properties speak of what goes out and of what is answered, the invariant
  also of what the handler holds (`Kept`): a streaming response is never JSON, and what was
  rewritten is clean, through buffering and finishing, until a header is added to it. The
  refinement of `Gateway` needs no more than that. `Stage` forgets where the handler is, and
  the abstract `relayed` is whether the handler holds, or any branch reads, a response that
  passes for the BMC's (`Relays`). The steps of a branch touch no other (`BranchStep`). All
  the handler does besides its calls stutters, but for what gives such a response up; a
  request opens with `Forward` or `Dispatch`, ends with `Reply` or `SendFails`, and `Finish`
  and `Fail` are the one answer, with which every branch ends.
* Supermicro: `Progress` says at which of its three writes the admin is, that what it has
  left is the rest of the sequence, and that, undisturbed, the writes before it are what a read
  shows. A write of another client disturbs; a boot order of another client does not,
  and is harmless because no two scripts share a key (`KeysDistinct`).
* Bios: `Sound` says that until its answer a request was not acted on, which is what makes
  the retry safe, and that `bios_sd` has but one attempt, at the capitalised name.

* Inventory: two requests share nothing but the BMC, and their answers agree because it does
  not change. So the invariant names what every walk must come to (`Machine`, the first
  system in the order of probing that has a Bios, and `MachineManager`) and says that
  what a walk has heard, cached or returned is that, as long as no fetch failed (`Truthful`):
  all positions with a Bios are still ahead of a walk that probes. `Served` then has every
  serial told equal to the one `Serial` of the machine, and needs to know that a manager is
  asked for only where the machine has neither serial nor UUID. `Expanding` says that what
  was fetched and what is left over make up the listing.
* Link text: what a written link comes to depends on what is still to read, as an authority
  may go on past the cursor. The invariant therefore speaks of the text that would result if
  the loop stopped here (`Whole`, what is written followed by what is left to read), and
  says that no link to the BMC begins in its written part, but those inside another's
  authority (`Swept`). A link could also come about where the written part meets the rest;
  `AtEdge` excludes it: at the cursor no scheme goes on, since a turn ends behind a `://`
  or before what ends an authority. `SlicesInOrder` follows from `AtEdge` alone: the walk
  back over a scheme cannot pass the cursor. For `ForeignKept` the written part is the
  beginning of the text itself. That a set of offsets has a least and a greatest is the
  library's `WFMin`; no induction over texts is needed, since the loop is one.

* Documents as trees: every operation is a `Put`, a `Without` or a renumbering, and a lemma
  each says that it leaves a tree and how many places it adds. Renumbering is the one that
  takes work: that moving the later items up or down by one is one to one, keeps
  prefixes, and leaves no gap is proved once for both directions (`RenumberedAs`), from the
  number of items of an array, which needs that positions without a gap are an interval.
  A move is a removal and then an insertion in what is left, so the pieces just compose.
  During a merge `UtilInv` also has to say that no pending place is below another
  (`Apart`) and that whatever contains one in the copy can hold it (`Merging`), since a
  sibling's turn must not take the ground from under it. `GrowthInv` is `GrowthBounded`
  and what is held at the start.
* Rewriting a document: a place is clean or `Due`, at or below a pending one; a text in
  hand satisfies the invariant of the loop above, so that `NoTargetLinkLeft` is what makes
  it clean when it is put back.
* Merge patch: `MergeSoFar` cuts the places in two. Those at or below none that is pending
  meet the RFC already; those below one are as the target had them, unless something
  above them had to become an object. A turn moves one place from the second kind to the first, and what
  stands below a decided place moves with it.
* Deep write: `SetSoFar` says that up to `at` either nothing has changed, or the walk stands on an
  object that it made itself and that is still empty; that `util::at` leads there as well; and
  that what is gone stood in the way (`Framed`). A change above `at` could make a
  segment index what was a key, so that the read has to be carried along with the write.

These proofs about places need no induction: prefixes of a sequence do what the recursion
of the code does.

Model-checked only: `LockComesFree`, `ReloadReflected` and `EveryWaitEnds`, since
liveness under fairness is out of the prover's reach; and `PatchMeetsRfc`, since its
reference follows values by recursion, and what a recursive definition computes for every
input is out of reach too. What is proved of a patch is that it leaves a document, how
much it adds, and that it happens as a whole or not at all. How a pointer is split and
unescaped is a fold over its characters: no theorem depends on what it yields, only
`PatchMeetsRfc` does.

## 5. What is not modelled

* TLS, certificates, the accept loop's sockets, HTTP framing: library code.
* The Rune VM: a handler is taken for any sequence of API calls.
* Logging, redaction of log records, clipping, formatting.
* Configuration parsing and the command line: they run once, before anything else.
* Base64, digests, the clock, the environment, reading a JSON file.
* Alternation (`{a,b}`) in patterns: which of them a pattern is does not change how
  routes are ordered or chosen.
* A second `content-type` on a response the script built, which `with_header` appends
  beside the one the response has.
* The accessors of requests and responses, `bmc::path_of` and `bmc::sleep`: they change
  nothing. A `sleep` is an await like any other.
* `bios.rn`'s read of Bios itself, which decorates a document, and the Systems and
  Chassis collections, which only forward.
* Several values under one header name. `relay_headers` keeps them all and `dispatch`
  inserts them one over the other, so that the last one arrives; `forward` appends them.
* Scripts that build one document and keep nothing: what they call is covered by
  `Exchange`.

What the model takes from outside `src/` and `scripts/` is marked external in
`PROJECT.json`: the callers, the operator, the BMC and its firmware, Rune's `join` and
`select`, hyper dropping a handler, tokio's coalescing of signals, and `Mutex` and
its guard. Each is modelled by what the code relies on and no more.

## 6. Where the code and its own words part

Three are runs that TLC must find violated, and findings in `PROJECT.json`:

* `SupermicroOrderNonEmpty`: an empty boot order can be written and is served, although
  it is "non-empty either way" (`scripts/supermicro/systems.rn:103-104`).
* `BiosMixedCase`: on firmware that spells it `Bios`, a write through `bios.rn` lands
  and `bios_sd.rn` still shows nothing pending.
* `ExchangeEncoding`: `bmc::inbound` relays the caller's `Accept-Encoding`, which
  `bmc::forward` drops because nothing here decompresses.

A fourth is the other way round: `EveryWaitEnds` holds, where a comment says that
buffering an event stream waits for ever. The client's total timeout ends it.

Others are visible in the models and have no run of their own:

* The settings copy of a system shows a fixed boot order (`system_settings.rn:56`),
  although "the pending copy always reads back as the running one" (`systems.rn:105`).
* Two branches of a handler that ask for ids at once both walk the BMC, and may come to
  different ids, although ids are "probed once per request" (`README.md:43,50`). `OneWalk` needs its
  assumption for this.
* `bmc::forward` fails with an error when a JSON body breaks off after its head
  (`script_bmc.rs:412-416`), although a transport failure comes back as a response
  "rather than an error" (`README.md:39`).
* `test` of a JSON patch tells 1 from 1.0 (`script_util.rs:555` compares values, not numbers),
  where RFC 6902 has them equal. `PatchMeetsRfc` has no numbers.
* A subrequest "takes its own permit" (`script_bmc.rs:580-581`), but there is no permit to
  take: nothing bounds how many calls are under way at once, and the model bounds them only
  by `Branches`.
* With a GET that is refused, or a probe that fails, Chassis takes the system for one
  without a serial and answers 200 with another serial than Systems (`chassis.rn:39`),
  although the two are to be one (`chassis.rn:22-23`, `tests/e2e.rs:4546-4549`).
  `SerialsAgree` excludes exactly this with `missed`.
* Two systems of one BMC that have neither serial nor UUID share a digest, since it is
  made of the address and the manager.

## 7. Plan

Done: every part that keeps state, the router, the JSON functions and the rewriting of
text, the serials and the expansion of collections, each with its proofs. What is left, in
this order:

1. `Exchange` with several values under one header name, to tell `relay_headers`, which
   keeps them all, from `dispatch`, which keeps the last.
2. An abstract specification of the settings behind two spellings, one register that each
   request reads or writes at most once, which `Bios` is then shown to implement.
