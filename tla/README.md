# Game Bits in TLA+

A verification development for [Game Bits](../src/README.md), a C++ library of
independent parts for writing games. It models the parts whose behaviour is
hard to test: those that run on several threads, that call back into user code
while they change their own state, or that hand out pointers to what they own.
Paths below are relative to `src/src/gb/` unless they start with `src/`.

Contents: the [inventory](#inventory) of the library, what is
[modelled](#what-is-modelled) and how it corresponds to the code, the
[runs](#runs) and their bounds, the [proofs](#proofs), the
[disagreements](#disagreements-between-code-and-documentation) found between the
code and what it says of itself, and the [plan](#plan).

## Inventory

| component | state it keeps | operations | hard behaviour | correct when |
|---|---|---|---|---|
| job system (`job/`) | fibers, a fiber state per running job, counters with waiters, three lock-free queues, the number of fibers | `Run`, `Wait`, the loop of each thread, the destructor | a waiting job gives its thread to another fiber; stacks migrate between threads; the hand-over happens after the switch; no queue orders anything with another | no stack is executed twice, no fiber or job is lost, a wait ends exactly when its counter is at zero |
| fibers, threads (`thread/`) | which thread a fiber is attached to, names, data | create, switch, delete; join, detach | the test for "running" and the save of a context are not one step; handles of threads that end while they are joined | a switch never loads a context nobody saved |
| message endpoint (`message/message_endpoint.*`) | handlers by type, the queue of messages received during a handler, the flag of the handler being called | `SetHandler`, `ClearHandler`, `Receive`, destructor | the lock is released around the handler, which may set, clear, send or destroy | a mailbox: one message at a time, in order, each handled once |
| message system (`message/message_system.*`) | endpoints and channels, subscribers and subscriptions, deferred changes, the threads dispatching to each node | add, remove, subscribe, unsubscribe, send, dispatch | dispatch recurses over subscriptions without the lock; changes and removals meanwhile are deferred or awaited | the two directions of a subscription agree; nothing that is freed is used; destructors return |
| dispatchers (`message/message_dispatcher.*`) | queues of messages, a thread | `AddMessage`, `Update`, `Cancel` | cancelling with messages queued and others arriving | every message is dispatched or destroyed, in order |
| message stack (`message/message_stack_endpoint.*`) | a stack of handler sets, an order per type | `Push`, `Remove`, dispatch | handler sets end and are removed while a message passes | a message reaches the sets in order until one takes it |
| game state machine (`game/`) | registered states, one active branch, the pending transition | `Register`, `ChangeState`, `Update`, destructor | every callback may request another change, in the middle of a transition | one well-formed branch; the last request happens; an update is complete and ends |
| weak pointers, contexts (`base/weak_ptr.h`, `base/context.*`, `base/validated_context.*`) | a pointer with a count of locks; values by type and name, with a parent | lock, invalidate; set, release, validate, complete | invalidation waits for locks; replacing a named value takes several locked steps | nothing is used after invalidation; names and values agree |
| resources (`resource/`) | resources by type and id, names, reference counts, managers | `Load`, `Get`, references, release, delete, sets | a reference is counted in two steps, release and deletion call back, lookups run beside deletion | no resource is deleted while referenced or used afterwards; names and ids agree |
| containers, allocators (`container/`, `alloc/`) | chains of buffers, free lists, views with an origin | push, pop, allocate, free, move a view | growth and reuse at the boundaries of a buffer | a queue; no block handed out twice; a view shows what was written |
| files (`file/`) | protocols by name, a tree of folders and files, open files with a position | open, read, write, list, copy, delete | partial failure of recursive operations; an open file blocks others | the tree is well formed; positions and sizes agree; chunk offsets point at their data |
| parser, config (`parse/`, `config/`) | token positions, rules, a tree of values | lex, match, convert | backtracking, conversions between types | a match is the first one in the grammar's order; what is written can be read |
| render system (`render/`) | scenes, materials, meshes, buffers with local and device copies, a draw list | begin and end a frame, edit, draw | a buffer may be edited while older frames are still drawn | the device sees the last contents edited before the frame |
| Vulkan backend (`render/vulkan/`) | two frames in flight, their fences and buffers, garbage collectors | begin, render, present, recreate the swap chain | failure half-way through a frame; objects released while in use | nothing is freed while a frame in flight uses it |
| images, collision, imgui, SDL, test support, example, templates | | | pure arithmetic, glue, or not part of the library | not modelled |

How they interact: the game state machine validates a *context* for each state
it enters and calls the states. Messages are cloned into a *dispatcher*, whose
thread takes the *message system* through its nodes and calls the *endpoints*,
which call handlers; endpoints and stacks hold *weak pointers* to the system and
to handlers. Resources are loaded through *contexts* and *files*, hold each other
in *resource sets*, and the *render system*'s resources are such resources, whose
device objects the *Vulkan backend* owns. Jobs run on *fibers*, allocated from
*pool allocators*.

`PROJECT.json` lists every component with its sources and, under `hazards`, each
place where the code can go wrong in a way a test would hardly reach.

## What is modelled

### Job system: `Fiber`, `FiberJobSystem`, `JobScheduler`

`FiberJobSystem` is one pool of threads that execute fibers, with its counters;
`Fiber` is the part of the platform it is built on.

* A fiber is a number; `pc[f]` is where its code is: in `JobMain` (`loop`, `poll`,
  `exit`), in a job, in `DoWait` (`attach`, `detach`, `switch`, `resumed`), or in
  `CompleteWait` (`complete`). The program counter belongs to the fiber and not to
  the thread: a fiber that is switched out keeps it, and goes on with it on
  another thread. `current` says which fiber a thread executes.
* A switch takes three steps, as in `thread/win_fiber.cc`: the target is attached,
  the fiber left is detached, then the contexts are exchanged. Between the last two
  the fiber that is being left looks suspended although its thread still executes
  it. `Fiber` holds exactly the flags that `SwitchToFiber` and `DeleteFiber` test.
* `pendingJobs`, `pendingFibers` and `unusedFibers` are bags: the code's
  `moodycamel::ConcurrentQueue` promises no order between producers.
* A job may run others, with any counter, and wait for a counter, `MaxWaits` times.
  A counter is incremented and a job enqueued in two steps.
* `DestroyWhenIdle` says whether the system is destroyed only when no job is left,
  which its tests always ensure.

`JobScheduler` is the abstract specification, without fibers: a job is new, queued,
running, waiting, ready or done; it starts once, and leaves "waiting" only when the
counter's jobs are done. `FiberJobSystem` implements it, with `Status` as refinement
mapping (`ImplementsScheduler`).

### Messages: `Mailbox`, `MessageEndpoint`, `MessageDispatchers`, `MessageSystem`, `MessageStacks`

`MessageEndpoint` is one endpoint: `Receive` is a loop, and the state of the thread
in it (`frame`) says which message its handler has and which is next in the queue.
The mutex is released only around the handler, so one action is one locked section.
The handler that runs is moved out of the map and put back over whatever `SetHandler`
stored meanwhile; the history `asked` says what the program asked for last, and is
`Moved` from such a `SetHandler` on, which the return undoes.
`AlwaysHandled` restricts `ClearHandler` to types with no message queued: it
separates what holds under that usage from what does not. `Mailbox` is the abstract
specification: messages arrive, are taken in order, one at a time, and stop when
the mailbox is closed.

`MessageSystem` has the nodes, their subscriptions, and a stack of dispatch frames
per thread, with the `visited` set each dispatch carries. A frame goes through
`receive`, `locking`, `handler` and `subscribers`; `Leave` applies what was deferred
when no thread is dispatching to the node any more. The destructor of an endpoint is
four steps of its thread (`removing`, `removal`): the wait for its own handlers, the
`RemoveEndpoint` that looks the node up, the wait there with the mutex released, and the
erasure by the iterator that was found before, which an insertion meanwhile makes
`stale` where `Rehashes` admits it. How a handler treats a message
is left to `MessageEndpoint`, when a message is dispatched to the dispatchers: any
dispatching thread may dispatch any message at any time.

`MessageDispatchers` has both dispatchers, the polling one as its `Update` and the
threaded one as its loop. An action is one section under the dispatcher's mutex or one
`Dispatch`, and batches are taken, dispatched and left by whoever cancels.
`MessageStacks` is a stack of handlers over an endpoint, for one type of message: the
steps of `HandleMessage`, of `Push`, of the callbacks and of the destructors interleave
as their mutexes allow; the endpoint's destructor tells its handlers one by one, after it
gave up the mutex. Four things a careful program avoids are guards, named in its
header: pushing handlers again that were removed, destroying handlers inside their own
callback, destroying the endpoint while a message is between the endpoint and the
stack's mutex, and setting callbacks of handlers on the stack of an endpoint whose
destructor runs. The history of a message is the order it goes in, the handlers that
were on the stack when it came (`due`) and those that were tried; `asked` is as for the
endpoint.

### Game states: `GameStates`, `GameStateMachine`

`GameStateMachine` follows `Update` from callback to callback: the mutex is held
everywhere else, so whatever changes state runs while `pc` names a callback, between
two updates or during the validation of a context. One action `ChangeState` is the
request of a callback and of another thread; `OtherThreads` admits the window in
which only another thread can come. `GameStates` is the abstract specification: a
branch that grows and shrinks by one state at a time, towards the last change
requested. The mapping reads the branch off the parent and child pointers. The history
`updated` has the states whose `OnUpdate` was called, in order, since the last transition
began or the update did.

### Base: `WeakPtrs`, `Contexts`, `ValidatedContexts`

`WeakPtrs` is one object that a scope invalidates, the count and mutex of `WeakPtrData`
and several locks per thread, which are taken, copied, moved and assigned over.
`Nested` lets a thread take a second lock while it holds one: then an invalidation that
comes between waits for the first and the second for it, so the runs have `Nested`
false. `Contexts` is one context that two threads set and release values of; `calls` is
the stack of `SetImpl` calls a thread is in, since a name that changes its type clears
the old value in a call of its own, after the lock was given up. `ValidatedContexts`
passes a context with a parent through contracts, each a set of constraints on keys.

### Files and texts: `Paths`, `TextFiles`, `FileSystem`, `ChunkFiles`

`FileSystem` has the trees of two protocols and the calls of a program on paths: what
`FileSystem` checks, what `FileProtocol` does by default, what `MemoryFileProtocol` and
`LocalFileProtocol` do themselves, and the copies from one protocol to another. The host
below the local protocol may fail to remove something (`held`): a recursive delete then
leaves it, what is above it and any part of the rest (`fsRemoveAll`), and succeeds. A call
is a function from trees to a result, so the same calls are also compared between the
two protocols, on every tree with no open file that is reached (`ProtocolsAgree`). `Paths`
is one call of one of the path functions, on paths of parts: where the flags forbid a
protocol, `p:` is a segment like any other, which has no root behind it and which `..`
removes (`Parsed`). `TextFiles` reads the lines of a text
through a buffer of two characters, and `ChunkFiles` writes chunks with extra data, over
buffers of its own, which are padded, or of the caller, which are not, and
reads back as much of the file as was written.

### Parsing and config: `Lexers`, `ParserRules`, `Parsers`, `TokenValues`, `Configs`

`Lexers` is a content with its lines, the tokens each line caches, and every call that
moves the position; the regular expressions are a table from pieces of text to tokens.
`ParserRules` is the tree of items with its validation and text form, `Parsers` matches
it to a sequence of tokens, and reads grammars with the grammar of grammars.
`ParsesAreDerivations` is the reference definition: what a parse returns is a derivation
of the grammar, and where there is none it fails. `TokenValues` has integers in scaled
words, and strings; `Configs` the tree of values, with its conversions, and the text it
is written to and read from. The text of a float keeps `Digits` significant digits (six in
the code), rounded half to even, and has an exponent when its whole part has more, so that
it is read as a float and no longer as an integer: a float reads back as `Rounded`.

### Resources: `ResourceSystem`, `ResourceSets`, `ResourceFiles`

The actors are pointers, a `ResourcePtr` or a slot of a `ResourceSet`, each with the
call that works on it; calls on different pointers come from different threads. One
action is one section under a mutex or one access of the atomic `ref_count_`, so
`RemoveRef` is split where the code is: it reads the count, then decrements or
releases. A release goes through `release`, `handler`, `finish` and `delete`; a
manager that keeps its resources (`Cached`) may call `MaybeDelete` at any time
meanwhile. A load is `reserve`, `loading`, the creation of a resource by the loader,
and `naming`; a save reserves a name, then applies or releases it.

Two assumptions about callers are guards: a loader returns a resource it created
(`ResourceFileReader` may instead return one it found, which nothing holds until the
caller does), and a resource is not saved under a new name while another call loads
or saves it (`SavesAlone`). Without the first `NothingDangles` fails, without the
second `NamesAgree`.

`ResourceSets` has two sets over every small graph of dependencies, and removal with
and without dependencies; what a resource depends on never changes. `ResourceFiles`
reads files that load one another, to any depth, with a failure after any chunk, and
saves resources under other names: one action is one step of `Read` or one of `Write`.
Its history `unused` has what a read made that succeeded without it, and left behind.

### Frames: `VulkanBackend`, `VulkanFrames`

`VulkanBackend` is the thread that calls `BeginFrame` and `EndFrame`, and the GPU.
`BeginFrame` waits for the fence of its frame, collects the next of three garbage
collectors, and acquires an image, fails, or goes on to `RecreateSwap`; the end of a
frame takes two steps, since `Submit` waits for another fence. A submitted frame makes
its copies (`GpuCopy`), then draws until it finishes (`GpuFinish`); its copies may be
made while the frame before is still drawn, which is what the code's barrier permits.
`memory` says what each Vulkan buffer contains, or that it is destroyed.

`VulkanFrames` adds the render buffers, one of each volatility, with one value for its
contents, and the descriptor sets bound to it. A set or an edit takes the decisions of
`EnsureHostBufferIsWritable` and `EnsureDeviceBufferIsWritable`, allocation failures
included; a frame ends with the rendering of every buffer drawn in it. One value for the
contents is enough because of how the library uses its buffers: it sets them whole, or
edits a view, which keeps the rest. `RenderBuffer::Clear` and a `Resize` that grows, which
write a part only, are called by nothing (`Mesh` resizes to 0) and are not modelled; what
they would do is among the [disagreements](#disagreements-between-code-and-documentation).

The code does not deal with everything that can happen. Six such *mishaps* are named
in the model, and a behaviour ends at the first that `Followed` does not contain: two
`BeginFrame`s that fail one after the other rotate the collectors past a frame in flight
(`skipped`); a frame that is not presented leaves its render state (`unpresented`); a
host buffer written between frames may still be copied by the last frame but one
(`writtenInFlight`); a buffer is drawn while a view of it holds back what was set
before (`drawnInEdit`); the end of an edit finds no device memory (`editLost`); a
per-frame buffer cannot be mapped and the frame draws old contents (`unmapped`). When one
is followed, one of `UsedExist`, `DrawsLatest` and `CopiesApart` fails: the passing
run shows that nothing else makes them fail.

### Rendering: `RenderMaterials`, `RenderResources`, `VulkanTextures`, `VulkanBindings`

`RenderMaterials` registers types of constants, vertices and scenes, makes a material
type of shaders, and a material, and saves and loads both, in a session that registered
the same types or others; its complete types are those whose vertices and vertex shaders give
each shader the base types and counts it reads, at the locations it reads. `RenderResources` has meshes with their views, textures as
they are saved and loaded, draw lists, and the part of the backend that turns the draws
of a frame into commands, the data of each scene bound before what it draws; a program is
a sequence of calls from the set `Calls`.
`VulkanTextures` is a texture of each volatility, or an array, that is written in
regions or layers, read by layers and edited while two frames are copied and drawn. `VulkanBindings` is the
factory of binding data: slots of uniform buffers on one free list, descriptor sets for
each frame, and what is bound in them when a frame is recorded.

Their *mishaps* are named as above. Textures: `contained` (a region is lost),
`rows` (a narrow region is copied as one piece), `partial` (an image was replaced while
only a region of it is copied), `mips` (mip levels of pixels never written), `overrun`
(`Get` of a layer, or the save of an array, copies mip levels behind the caller's pixels),
and `writtenInFlight`, `drawnInEdit`, `editLost` as before. Materials: `shared` (a material
has the values of its type), `uncombined` (bindings of the scene are not combined with
the shaders'), `typeByIndex`, `sizes` (constants read from a file by index alone),
`config` (part of it is not saved), `changed` (other types in this session),
`nullTexture`. Bindings: `moved`, `unset`, `ignored` (constants of `kStaticWrite` are
never written), `sameAddress` (a texture made where another one was). Draw lists: `setBack` (what was set for the last draw is set again
over something else, and taken to be in effect), `clash` (data the current pipeline has no
place for is bound).

### Containers: `Queues`, `BufferViews`

A queue is the ring of buckets with the front and back pointers and `push_end` as the
code has them; a bucket is a number. `BufferViews` writes once, for any number of
dimensions, what the three classes write out; their one difference, from where a
one-dimensional view counts the positions it clears, is kept (`FromNewOrigin`).
`MCMessageSystem` composes them with the message system, a composition that reaches no
recursive operator.

## Runs

Twelve runs check thirty-one components: `MCMessageEndpoint`, `MCMessageSystem`,
`MCGameStateMachine`, `MCResourceSystem` and `MCRenderSystem` compose components that
do not touch each other, with a variable `component` that is chosen at the start. A
behaviour is one of that component, and the properties of the others are true of
components as they were made; so a run checks each of them as a run of its own would.

Each passing run checks every property on every reachable state of its instance, and
each property fails on small changes of the code that are named beside it in
`PROJECT.json` (the operators marked "Mutant"), so it constrains the model: a property
that speaks of several components has changes in each of them.

| run | instance | shows |
|---|---|---|
| `job_safety` | 2 threads, 3 jobs, 2 counters, 5 fibers, symmetric | `FiberExclusive`, `SwitchesSucceed`, `NoStrandedWaiter`, `FiberAccounting`, the inductive invariant `JobSystemInv`, types included, and `ImplementsScheduler` |
| `job_scheduling` | 2 threads, 3 jobs, 1 counter | `JobsStart` and `WaitsEnd`, under fairness |
| `job_shutdown` | destroyed while jobs run | `WaitBlocks` is violated |
| `endpoint_delivery` | an endpoint: 2 threads, 4 messages of 2 types, 2 handlers; a dispatcher: 2 threads, 2 messages; an object: 2 threads with 2 locks each; a context, or contracts | the endpoint is a `Mailbox`, `KeepsWhatWasAsked`; `EndedIsQuiet`, `DispatchedInOrder`, `ContextsHold`; `MessagesArrive`, `CallsReturn` under fairness |
| `endpoint_unhandled` | a type that has no handler | `HandledOnce` is violated |
| `message_dispatch` | 1 dispatching thread and another one, 2 endpoints, 2 channels, 2 messages, 5 calls; or 2 dispatching threads, 2 messages, 4 calls, insertions that rehash; or a stack of 2 handlers with 2 callbacks; or a queue of 5 pairs of capacities; or a view of 3 shapes | `SubscriptionsAgree`; of one dispatching thread `FreedLast`, `IterationsStable`; `StacksServe`, `ContainersAgree`; `RemovalsEnd` under fairness |
| `message_threads` | 2 dispatching threads | `SubscribersStable` is violated |
| `game_update` | a game: 3 states with a tree of parents, 5 changes, 2 updates; or a text, a lexer, a config, or one call on paths, grammars or tokens | `OneBranch`, `CallbacksAreSafe`, `ImplementsGameStates`, `UpdateIsComplete`; `UpdatesEnd` under fairness; `TextsAgree`, `ParsesAgree` |
| `resources` | 4 pointers, 2 resources, one of them kept by its manager, 2 names; or 1 render buffer of any volatility, 4 Vulkan buffers, 2 images, 3 frames, 2 writes, no mishap followed; or 2 sets of 4 resources; symmetric | `RefAccounting`, `NothingDangles`, `NamesAgree`, `LoadedOnce`, `ManagerLeavesNothing`; `UsedExist`, `DrawsLatest`, `FencesGuard`, `CopiesApart`; `SetsHold` |
| `resource_release` | 2 pointers | `ReleasedWhenUnreferenced` is violated |
| `frames_unpresented` | the frames of `resources`, frames that are not presented followed | `UsedExist` is violated |
| `rendering` | one of nine components: resource files, protocols, chunk files, textures, materials, bindings, meshes, saved textures, draw lists | `FilesAgree`, `RenderingAgrees` |

The bounds, and why they are enough:

* *Jobs.* Three jobs and two threads let one job wait for a second while a third
  takes the thread the first left; one of the waits may be resumed by the thread
  that registers it, by another, or at once. Two counters allow waits that cross.
  `MaxFibers` does not bind: each wait needs at most one more fiber, so `NumThreads`
  plus the number of jobs is the most that is ever created. `MaxWaits` is one per
  job; a job that waits twice only repeats. The symmetry is on jobs and counters,
  which nothing tells apart; the liveness run uses none.
* *Endpoint.* Two threads collide once; with four messages two can be queued behind
  one in a handler while a fourth arrives.
* *Message system.* Two endpoints and a channel besides the broadcast channel
  make a cycle of subscriptions and a node reached twice in one dispatch; five calls
  create both endpoints and a channel and leave two for changes during a dispatch. With
  two dispatching threads four calls create both endpoints and let the handlers of both,
  each on its own thread, destroy the other's endpoint: the circle of waits that
  `RemovalsEnd` excepts is reached, and so is a removal that waits while an endpoint is
  created.
* *Game.* Three states give branches of depth two with a sibling and a parent to
  choose, one of them global and the others created on entry; five changes abort a
  transition in any callback and abort the one that aborted it.
* *Resources.* No bound but the sets: ids are used again, so every behaviour is infinite.
  Four pointers are a releasing one, one that takes a reference meanwhile, one that
  gives one up, and the manager's call; two names are enough for a renaming, and the
  second resource for two that want one name. The frames that share the run use the
  pointers as Vulkan buffers and the names as images, so that one symmetry serves both.
* *Frames.* In three frames the first frame's fence, command buffer and device
  buffer are used again while the second is on the GPU, and every collector comes
  round; frames that fail add more rounds. Four Vulkan buffers are a device and a host
  buffer and a replacement of each; none left is the failure of an allocation. The
  buffer is created before the first frame, and neither edited nor deleted after the
  last. Two images let the frames take them in either order.
* *Dispatchers, locks, stacks.* Two messages are one in the batch and one behind it; two
  locks a thread are one moved onto another; two handlers are one removed from below or
  above the other.
* *Contexts.* Two threads and three objects let one replace what another is about to
  clear. Three keys are a name, the same name with another type, and a type alone; two
  validated contexts can hold one context, or be assigned from one another.
* *Texts.* Three segments are enough for "..", what it removes and what is before it;
  five characters through a buffer of two put a line's two end characters on both sides
  of a block twice. The lexer's texts are two, with comments over lines, a minus before
  integers in each position, and an error; the position moves without bound. Six-bit
  words have four digits overflow them in every way. Floats are written with one
  digit, and integers are -16 to 15, so that there are floats whose text is another number,
  or has an exponent, and whole ones that are read back as integers or as floats. Six grammars, chosen for what their
  comments in `MCGameStateMachine` say, meet every token string up to length four;
  configs have up to three values.
* *Sets.* Three resources of one system and one of another, any two dependencies among
  them, and two sets: a chain, a cycle, and a dependency that the other set shares.
* *Files.* Four folders and files give a copy of a folder with a child, and its target,
  or, while there is one protocol, a folder with two children, which can be deleted in
  part; two protocols, one of which cannot create folders. Files of resources load each other
  in a circle, have parts, or cannot be read.
* *Rendering.* Textures have 2 by 2 pixels, 2 layers and three regions, one of which is
  inside and two of which are clipped; 2 writes and 3 frames. Binding data is made and
  drawn in seven layouts, each with the number of data and frames that fill two groups
  of slots or rebind a set in both frames. Meshes and saved textures are called 5 times,
  draw lists 4 times, from sets of calls that reach every branch.
* *Containers.* Capacities are those that grow or not, from none or some; up to 4
  buckets and 7 slots, so that a bucket of two slots or more is filled in its middle with
  two others in the list. Views have one to three dimensions and origins before, behind, beside and far
  from one another.

Deadlock is not checked (`CHECK_DEADLOCK FALSE`): each of the systems stops when its
bounds are used up or its one call is made, and a job system is allowed to end with
jobs that wait for a counter nobody decrements. Where something must go on, a liveness
property says so.

Fairness. The pool's threads loop without blocking, and the operating system runs
each of them: weak fairness of `ThreadStep` for each thread, and of the second half
of a `Run` by the outside thread. Nothing forces jobs to be run or the system to be
destroyed. For messages, dispatches go on and handlers return, and a wait on a
condition variable ends once its condition stays true; a dispatcher's thread runs, and
nobody has to call `Update` or `Cancel`. A mutex lets a thread that waits in, in the
end, and a weak lock is given up; nobody has to take one. For games, `Update` goes on
and callbacks return; nothing forces a change to be requested. The components without
liveness properties have no fairness.

## Proofs

Eight modules hold 38 theorems, 37 of which `PROJECT.json` lists with what they
establish. TLAPS checks them for every value of the constants that the modules' named
assumptions admit (types, null values outside the sets, sets that are counted finite):
any number of threads, fibers, jobs, messages, endpoints, states, pointers, resources,
render buffers and frames, any contexts and contracts, any resources of a set and their
dependencies, any capacities of queues and any sizes and dimensions of views. A module
`XProofs` extends `X`, or the module that composes `X` with the small components of its
run, for then its theorems are about that composition; each has an inductive invariant,
first checked by TLC, a lemma for each action that keeps it, and the theorems.

Thirty of the forty properties of the passing runs are theorems. Where a theorem has a
hypothesis on a constant, the hypothesis says how the component is used, the passing
run has it, and TLC shows what happens without it:

| hypothesis | means | without it |
|---|---|---|
| `DestroyWhenIdle` | the job system is destroyed when no job is left | `job_shutdown`: a thread that leaves its loop frees the fiber it executes |
| `AlwaysHandled` | a handler is not cleared while its type is queued | `endpoint_unhandled`: messages are handled twice |
| `OneDispatcher` | one thread dispatches, handlers send through its dispatcher, and insertions keep iterators valid | `message_threads`: of two dispatches the first to end changes the other's subscribers; `NothingFreedInUse` fails as well |
| `QuietDestroy` | nothing requests a change of a machine that is being destroyed | a change that a callback of the destructor requests is made, and the machine is destroyed with that state active: `OneBranch` fails |
| `~OtherThreads` | only callbacks and the owner request changes | a change requested while a context is validated is forgotten |
| `NoFrameLost`, `NoDrawInEdit`, `NoMishap` | the mishaps listed below end the behaviour | `frames_unpresented`, and the modules' comments |

### Jobs: `FiberJobSystemProofs`, `JobSchedulerProofs`

* `TypeSafety`: `TypeOK`, whenever the system is destroyed.
* `Invariance`, `FiberExclusion`, `SwitchSafety`: `IInv`, and from it `FiberExclusive` and
  `SwitchesSucceed`, which make the fibers' hand-over safe without any lock.
* `Accounting`, `NoLostWaiter`, `NoLostFiber`: `JobSystemInv`, and from it
  `NoStrandedWaiter` and `FiberAccounting`.
* `Implements`: the fibers implement `JobScheduler`, step by step.

`FiberExclusive` is not inductive: that no two threads execute one fiber depends on
where a fiber that is not executed may be found. `IInv` says so in twenty-two parts: a
fiber is unused only when no thread executes it, is about to switch to it, or will
return it to the unused ones; a switch in progress owns its target, and no other switch
does; a waiting job is registered in one place (handed over in its successor's data,
among a counter's waiters, about to be woken, pending, or being resumed); once its
registration is visible to others, nobody executes its fiber. The last part is why
`CompleteWait` runs on the *next* fiber: the job is registered only after the switch.

`AccountInv` adds what is counted: a counter is the number of unfinished jobs that were
run with it, and a job is in exactly the place its phase says. A waiter that was left
behind would be among a counter's waiters while the counter is zero and nobody is
between its decrement and the waking of the waiters; the invariant excludes it. With
it every step maps to one of `JobScheduler` or to a stutter, since a wait returns only
with a counter whose jobs are done.

### Message endpoint: `MessageEndpointProofs`

`Invariance`, `Quiet`, `Kept` and, with `AlwaysHandled`, `Implements` of `Mailbox`.
`IInv` says that `calling_handler_` is set exactly while one thread is in a handler, that
a handler moved out of the map is the one being called, and that what is queued is
behind the message being handled and finds its handler. So a message's place in the
queue is its place in the mailbox, whichever thread's loop comes to it. `Quiet` is the
endpoint's part of `EndedIsQuiet`. `Kept` is an invariant, `KeepsWhatWasAsked`: every type
has the handler that was last set or none if it was last cleared, or has that handler
moved out while it runs, whatever is set and cleared in the call and on other threads;
except after a `SetHandler` for the type of the handler that runs, when the type has some
handler, but not the one asked for. So a clear that nothing follows is never undone.

The same module proves what the run states of the small components beside the endpoint.
A behaviour is one of one component, so `AllInv` is the conjunction of their invariants
and a lemma for each says that the steps of the others leave it alone.

* `Ended` and `InOrder`, for dispatchers and weak pointers. `DispatcherInv` says of each
  dispatcher that the messages dispatched, those in the batch and those queued increase,
  each part before the next, and are with the destroyed ones all that were added; and why
  no part overtakes another (`LoopInv`): a batch is swapped in only when the one before is
  empty, and what a thread left in its batch is drained only once it has left its loop.
  `PointerInv` says that the count is the number of the locks that are taken, that one
  that found the object is there only while the pointer is set, and that the pointer is
  cleared before the object is gone. The locks taken are finitely many, since each was
  counted; the threads need not be.
* `ContextsAreSound`, for contexts and contracts. `ContextInv` says that the value of a name
  is of the type the name has, and that each object has one owner, a value, a call or
  the program: a thread is in one call of `SetImpl`, or in a second within it that only
  clears, and the object it carries is that of the first. `ContractAssumption` is about
  the constraints of a program: a value that must come out is not scoped.
  `validated_context.h` says that the one "will be added" and that the other "cannot exist
  beyond the completion", so that nothing fulfils a contract that asks for both.

### Message system: `MessageSystemProofs`

`Agreement` has no hypothesis: with any threads dispatching and any depth of dispatches,
`SubscriptionsAgree`. Its invariant relates the three sets of a node, what is
subscribed, to be added and to be removed: those to be removed are subscribed, those to
be added are neither, and what an endpoint has subscribed to is the result of both. An
endpoint that is waited for stays known however its iterator fares.
`NothingFreed` and `Stable` need `OneDispatcher` and a second invariant, of the stack of
dispatches: its nodes are different, visited, and marked as being dispatched to, and
only the last frame is not between two subscribers; a removal is made by a thread that
dispatches nothing, or from a handler of another endpoint. What happens with two
dispatching threads, or when a handler dispatches on top through another dispatcher, is
outside of both.

`Serves` is about the stacks of handlers that share the run, for any handlers and
callbacks, pushed, cleared, removed and destroyed in any order. `HandlersInv` says that
handlers are on the stack once, that those on it, or about to be, know it and the others do
not, unless they were removed, that the endpoint handles the type of every callback that
is on its stack, and that the handlers that are being called exist. Two more parts are
about the histories: the callback of handlers is the one that was last asked for, with the
endpoint's exception (`CallbacksAsked`); and what a message has yet to try is what is due
and not tried, in the order of the stack, so that nobody is passed over, tried twice or
after one that handled it (`TriedInOrder`, `TriedOnce`).

### Containers: `ContainerProofs`

`Contained` is `ContainersAgree`, for queues of any capacities, growing by any amount, with
any number of buckets, and for views of any size in any number of dimensions, whatever
origins are set (`QueueSizes`, `ViewSizes`).

* *Queues.* `QueueInv` says where the elements can be (`Placed`): of the bucket that
  `front` is in, of the one `back` is in, and of every other, each with the marks
  `push_end` and `pop_next` of a bucket that was grown in its middle, the slots that are
  taken are those `Occupied` computes from the marks alone. It says too what the marks mean
  (`Marked`: a bucket may be pushed to when its first slot is free, and it has a
  `pop_next` while elements of the round before are left behind its `push_end`), that
  `Advance` leads from each element to the next one pushed and from the last to `back`
  (`Ordered`), that the list of buckets is closed both ways (`WellMade`), and that all
  slots are counted (`Sized`). A push has four cases, on in the bucket, into the next
  bucket, into a new one after it, and into a new one from its middle; a pop three. Each
  is a lemma: `PushesWithin`, `PushesOn`, `PushesAfter`, `PushesMarked`; `PopWithin`,
  `PopAtEnd`, `PopAtMark`. What `Elements` collects is a function on numbers, and equal to
  the elements by the least number at which two such functions differ (`PassesOne`).
* *Views.* `ViewInv` says that the index of a position, from the origin and modulo the
  size, holds the element of that position. A move by less than the size in every
  dimension wraps the offset so that a position in view keeps its index (`OffsetMoves`);
  the strips of the dimensions cover what leaves the window, each position in that of its
  least dimension, and nothing else (`StripsCover`); and the position each covered element
  is cleared for is the one that comes into view at its index (`ViewMovesNear`).

### Game states: `GameStateMachineProofs`

`Invariance`, `Safe` and `Complete` have no hypothesis; `Tree` has `QuietDestroy`,
`Implements` has `~OtherThreads`. The invariant has a part for each question: what is
active is a branch, linked both ways (`BranchInv`, the branch itself is chosen, and
lemmas about its ends use that a set of numbers has a least element); what is wanted fits
it, though it was checked when it was requested (`WantedInv`); the state each callback
works on is where the transition left it (`ProcessInv`); active states have instances
(`InstanceInv`); what is above the state being updated was updated (`UpdateInv`); a machine
that is being destroyed only exits states (`DyingInv`). `UpdateIsComplete` is an action
property: when `Update` returns, no change is pending, and the states updated since the last
transition began are the active branch, each once and from the top down. In the refinement the branch shrinks at `exit` and grows at `enter`, and all
other steps stutter or end a change.

### Resources: `ResourceSystemProofs`

`Invariance`, `ReferenceCounting`, `SafeDeletion`, `NamesSafety`, `LoadsOnce` and
`ManagerCleanup`, for managers that keep resources or not. `IInv` has thirteen parts. A
pointer that is about to release, delete or publish a resource relies on a state the
resource was in before; the parts say why nobody changes it meanwhile: a resource is new
only for the one call that creates it; in state `Releasing` or `Deleting` it has exactly
one call that completes this, and no references but that call's own; a name that is
reserved belongs to one call, so `naming` and `saving` may complete without a look at what
others did. That a resource with a count of 1 has no reference, and with a count of 2
only the caller's, is the lemma `CountMeans`: with `RefAccounting` it is all the code's
comparisons with 1 and 2 rest on. Pointers are finite since references are counted with
`Cardinality`.

`ResourceSetsHold` is about sets of resources, for any dependencies, cyclic ones included.
`SetInv` says that the references counted for a resource are the sets that have it and
that a set's members are of its system. `Reach` is the least set that has what it starts
from and what that depends on, which is where the code's traversal ends (`ReachIsClosed`,
`ReachIsLeast`). Of what the resource needs, itself included, a removal leaves exactly what
some member that it does not need reaches (`RemoveAlsoIsExact`). The sets are
finite, since the references they hold are counted (`SetAssumption`).

### Frames and buffers: `VulkanFramesProofs`

Four invariants, each resting on those before it:

* `FrameInv`, with no hypothesis (`FramesInvariant`, `Fences`): where commands are and what
  their fences say, and that every Vulkan buffer that exists has one owner, a render
  buffer or one collector. `FencesGuard` follows whatever fails.
* `UseInv`, if no frame is `skipped` or `unpresented` (`NoFrameLost`): what a frame uses is in
  no collector that is emptied before the frame is done. It counts the collectors
  against the frames: `BeginFrame` empties the one filled three calls ago, and the fence
  it has waited for is that of the frame before the last; one call that fails costs one
  collector, a second one in a row would cost too many. Hence `Used`: `UsedExist`.
* `CopyInv`, if besides nothing is `drawnInEdit` (`NoDrawInEdit`): a device buffer that waits
  to be copied to is used by no frame but one that is done when the copying frame
  begins, because its `renderFrame` is older, or because it is new. Hence `Apart`:
  `CopiesApart`.
* `ValueInv`, if besides nothing is `writtenInFlight`, `editLost` or `unmapped` (`NoMishap`):
  host buffers are only copied from, device buffers only copied to and drawn, and of a
  per-frame buffer each frame uses its own (`RolesInv`); copies are made in the order of
  the frames (`OrderInv`); and what a Vulkan buffer *will* contain once all frames have
  made their copies (`WillBe`) is what each recorded draw needs (`DrawsInv`) and, for each
  render buffer, the last value written, unless that is still to be copied, mapped or
  ended with an edit (`LatestInv`). When a frame is drawn it has made its copies and no
  other may copy there, so what will be is what is. Hence `Latest`: `DrawsLatest`.

The hypotheses say which mishaps end a behaviour; with none followed, as in `resources`,
they hold. A behaviour in which none of them happens is never cut short, so the theorems
are about all of those.

### Model-checked only

* Liveness, which the prover does not handle: `JobsStart`, `WaitsEnd`, `MessagesArrive`,
  `CallsReturn`, `RemovalsEnd`, `UpdatesEnd`.
* `ParsesAgree`, `TextsAgree`, `FilesAgree`: `Lexers`, `Parsers`, `Configs`,
  `FileSystem` and others define recursive operators, which the prover does not take, and
  what they compute would be proved by induction over texts, trees and grammars, with
  theorems that no installed prover can instantiate.
* `RenderingAgrees`: it compares the calls of six components with a reference, for many
  kinds of values; the models of materials, meshes and textures read and write files and
  fold over sequences of calls, which would be proved by induction over data.

## Disagreements between code and documentation

* `job_shutdown`: `Wait` is said to block until the counter is zero; while the
  system is destroyed it may return at once, after a switch to a fiber that another
  thread still executes.
* `endpoint_unhandled`: an endpoint is said to receive a message once; when a queued
  message has no handler, the ones queued before it are handled again.
* `message_threads`: subscribers are said not to change during a dispatch; of two
  threads that dispatch to one node, the first to end may erase one.
* `resource_release`: the last reference removed is said to trigger the release; when
  two threads remove the last two at once, both read a count of 3 and neither does.
* `frames_unpresented`: the garbage collectors are said to destroy what no code uses any
  more; after a frame that could not be presented, the next one records copies from
  buffers they have destroyed.

The modules follow the code in what comes next too. No run refutes a sentence about
it, either because no sentence is precise enough or because a property would say no
more than the line itself; where a model leaves it out of the inputs, its comment says so.

*Messages and jobs.* The return of a handler stores it over what `SetHandler` stored for its
type during the call, which is lost; after a `ClearHandler` and a `SetHandler` in the call the
cleared handler is back (`message_endpoint.cc:91-94`, and the same for the callbacks of
handlers on a stack, `message_stack_endpoint.cc:33-36`). Two handlers on two threads that
destroy each other's endpoint wait for each other for ever (`message_endpoint.cc:23`,
`message_system.cc:98`); `RemovalsEnd` excepts threads that wait in such a circle. `RemoveEndpoint`
finds its iterator before it waits with the mutex released and erases by it afterwards
(`message_system.cc:91`, `127`); an endpoint or channel created meanwhile may rehash the table.
A handler that destroys an endpoint its own thread dispatches through, further down the
stack, does not wait for another thread that dispatches to it (`message_system.cc:111`), which
goes on to use the endpoint.
`MessageStackEndpoint::Remove` leaves the handlers' pointer to the
stack, so that they cannot be pushed again (`message_stack_endpoint.cc:97`), and a
dispatch on another thread may use the endpoint its destructor is leaving
(`message_stack_endpoint.cc:69`). The limit of job data handles differs by one between
allocation and use (`job_system.h:241`); fibers are counted before their creation may
fail (`fiber_job_system.cc:309`).

*Game states.* A change that another thread requests while a context is validated is
forgotten when the context is invalid, though "only the final change will happen".
`OnUpdate`, "called once every frame" (`game_state.h:241`), is called again for states that
stay active over a transition that `OnUpdate` of another one requested: `update_id` is
compared and never assigned (`game_state_machine.cc:317`).

*Base.* Two locks of one weak pointer on one thread wait for an invalidation that waits
for the first (`weak_ptr.h:283`). A `ValidatedContext` that ends with an unmet output
constraint leaves its scoped values (`validated_context.h:42-44`); clearing the scoped
value of a name and one type removes that of another type under the same name; assigning
to a `Context` that has values forgets to delete them (`context.cc:16-23`).

*Files.* `Register` says it replaces a protocol (`file_system.h:61`) and refuses
(`file_system.cc:67-69`). Copying a folder under itself through two protocol names
does not end. The copy of a folder that does not exist succeeds. `kReset` leaves the size
of a memory file (`memory_file_protocol.cc:211`). The local protocol refuses to create a
folder that exists even recursively (`local_file_protocol.cc:394`), reports an empty
current path at its root (`local_file_protocol.cc:501-514`, against `file_system.h:91-97`),
and takes `/a/bc` to be inside `/a/b`. A stream that failed once fails for ever.
`NormalizePath` does not end on a segment that begins with a dot and is neither `.`
nor `..` (`path.cc:429-453`); `PathMatchesPattern` takes the last occurrence of a piece, and so
misses `bab` for `*b*a*`. A recursive delete of a local folder that is done in part
returns the error value of `remove_all`, which is true (`local_file_protocol.cc:440`), though
"if only a partial delete is done, this should return false" (`file_protocol.h:240-241`). A
chunk written from the caller's memory is not padded, while the offsets of extra data are
counted from its size: behind a buffer whose size is not a multiple of eight they lead to
the word that has the padding (`chunk_writer.cc:111`).

*Parsing and config.* With two contents, `RewindLine` and `RewindToken` compare a line
within its content with one across all contents, and are not "clamped to the beginning". Reading a cached
error token again yields a symbol. `isnormal` refuses `0.0`. Whether a left-recursive rule is
reported depends on the order of a hash map (against `parser_rules.h:85-86`); items that a
failed unnamed alternative stored stay; `%end*` repeats for ever. A float is written with
six significant digits (`text_config.cc:183`, `config.cc:423`), so 3.14159265 reads back as
3.14159; a float without a fraction is read back as an integer, unless it is so large that
its text has an exponent; infinities are not read back at all.

*Resources.* Adding a resource a set already holds does not add its dependencies. A write
that fails has already emptied the file. A chunk's reader is called even when the entry
is invalid. A resource that a file's read made and its main resource does not depend on is
left invisible when the read succeeds: nothing deletes it, and it keeps its id
(`resource_file_reader.cc:268`).

*Containers.* `Queue::Copy` grows by a slot each time, and a queue that may not grow
writes through a null pointer in `push` when full (`queue.h:401-415`). `MeshView::RemoveTriangles` returns a
number of indices, where `mesh_view.h` says triangles.

*Rendering.* Materials created from one type share the values that "may be overridden
after the material is created" (`render_system.h`). A material type takes its bindings from
its shaders without the "union ... using the most permissive data volatility". The raster mode
and the depth test of a configuration are not saved; a null texture does not replace a
default one; the type of a binding is read by its index alone. The draw-list interpreter
forgets state that "will persist until it is explicitly changed" (`draw_list.h`;
`vulkan_backend.cc:1301-1341`). A texture forgets a dirty region that begins
above a new one and ends before the new one does, as if it were contained in it
(`vulkan_texture.cc:174-179`), and copies a region of packed rows as one block, as if the
texture were no wider (`vulkan_texture.cc:622`). `Get` of an array whose textures have mip
levels copies these too, where the caller has "width*height pixels" (`texture_array.h:99`,
`vulkan_texture_array.cc:203-212`), so the save of such an array writes past the end of its
pixels (`render_system.cc:1585-1593`). A `Resize` that grows a static buffer,
or a `Clear` of a part of it, writes into a new host buffer without what the old one held
(`vulkan_render_buffer.cc:97-115`, `211-230`), though "the new space will be filled"
(`render_buffer.h:70`); nothing in the library calls them. Constants of bindings that are written once never reach the device,
and resizing a buffer clears only a part of an aligned value. Descriptor sets return to no
pool. `BeginFrame`s that fail advance
the garbage collectors each time, for one and the same fence, so that a second one in a row
collects what the other frame in flight may still use.

## Not modelled

* *Within modelled components.* Job data handles, the names of fibers, threads, endpoints
  and states, log and trace output; failures of `CreateFiber` and `CreateThread`;
  the handlers' own data; the regular expressions of the lexer, whose tokens
  are the smallest set that tells its rules apart, and the reading of
  floating-point numbers, which are scaled integers here; the conversion of
  operating-system paths; what a resource's chunk holds, which is one value;
  shaders, windows and the properties of the device; the initialization of the backend.
* *Memory.* An action is atomic, and the atomics of the job system are taken to be
  sequentially consistent. Where two threads use data without a lock, the
  model makes each use a step, and no outcome beyond the orders of these steps.
* *Components.* The pool allocator, `Array` and `OffsetArray` could be modelled, and are in the plan.
  Images are pixel arithmetic, collision is floating-point geometry, which TLC
  does not evaluate; imgui, the Vulkan objects, pipelines and windows are sequences of external calls without
  a state of their own; the rest of `base/` is types and compile-time code. The example, the
  templates and third-party code are not the library. `PROJECT.json` lists each as
  `not_modelled` with its reason.

## Plan

What is left, the most valuable first:

1. The pool allocator: its buckets and free lists against a set of blocks, and `Array`
   with `OffsetArray` against a function on integers.
2. Two resource files read at once by two threads, whose nested loads meet; a change of game
   state by a second thread.
3. Proofs about what does not compute recursively among the small components: that the
   slots of binding data are allocated once (`VulkanBindings`).
4. Larger instances where one actor more could matter: three fibers that wait for one
   counter on two threads, three messages in a stack of two sets.

Small sequential components share a run, in which each behaviour exercises one of
them. Modules that will be proved about declare no recursive operator.
