# Formal verification of JPJson

TLA+ models of JPJson (`src/Source/json`): its concurrent core, the parser with the
buffers and generators below it, the converters, the writer and the smaller
components; checked with TLC on small instances, and proved with TLAPS where a proof
is within reach.

## 1. The system

JPJson parses JSON text that arrives in pieces on any thread. A client calls
`start`, feeds `NSData` buffers with `parseBuffer:` (nil is the end), may call
`cancel` or `isRunning`, and receives documents in handler blocks. A synchronous
front end parses a whole text in one call, and a writer serializes Foundation
objects.

| Part | State it keeps | Operations | Talks to |
|---|---|---|---|
| `utility/synchronous_queue.hpp` | one cell, a flag, three semaphores | put, get, acquire (with and without timeout), give, commit | producers, worker, cancel |
| `ObjC/semaphore.hpp`, `mutex.hpp` | a libdispatch semaphore | signal, wait, wait(timeout) | the queue |
| `ObjC/JPAsyncJsonParser.mm` | `idle_` (one token), `killed_`, `finished_` | start, parseBuffer:, cancel, isRunning, the worker block | all of the parts above and below |
| `ObjC/CFDataBuffer.hpp` | a retained CFData, a view of its bytes | copy, move, assign, seek, swap | passes through the queue |
| `utility/syncqueue_streambuf.hpp`, `istreambuf_iterator.hpp` | current buffer and position | underflow, seek | gets buffers from the queue |
| `parser/parse.hpp`, `unicode/unicode_detect_bom.hpp` | document count, result | encoding detection, `parse_loop` | iterator, parser, actions |
| `parser/parser.hpp` | position, error state, string and number buffers | one recursive function per grammar rule | iterator, actions |
| `ObjC/JPJsonParser.mm` | nothing between calls | runWithBytes, parseString:, parseData: | detection, parser, actions |
| `ObjC/JPSemanticActionsBase.mm`, `SemanticActionsBase.hpp`, `parser/semantic_actions_base.hpp` | options, canceled flag, error, handler blocks | begin, end, error, finished, cancel, properties | dispatches blocks on the handler queue |
| `ObjC/JPStreamSemanticActions.mm` | a delegate | one message per event | the client |
| `ObjC/RepresentationGenerator.hpp`, `CFDataCache.hpp`, `utility/arena_allocator.hpp` | stack of elements, markers, string cache in an arena | events of the parser | CF objects |
| `parser/value_generator.hpp`, `value/`, `utility/variant.hpp` | stack of values, markers | events; copy, move, assign, emplace, swap | values |
| `unicode/`, `endian/` | conversion state between chunks | convert, traits, byte swaps | parser, writer |
| `ObjC/JPJsonWriter.mm`, `generator/` | result of the writes so far | serialize every kind of object | stream buffers |
| `ObjC/NSDataStreambuf.hpp`, `NSMutableDataStreambuf.hpp`, `NSStreamStreambuf.hpp` | memory and two areas; a counter | read, write, seek, grow | writer |
| `json_path/`, `utility/base64.hpp`, `value/decimal_number.hpp` | components; nothing | push, pop, write; encode, pack | their clients |
| `utility/mpl.hpp` | nothing: the compiler evaluates it | algorithms on lists of types | `variant`, `value` |
| `utility/lru_cache.hpp` | the last results of a function, in the order of their use | call, insert, purge | the function, which may call the cache |
| `utility/simple_log.hpp` | a level, the names of the process and the thread | log in three calls of the C library | every thread that logs |

What is hard about it, and which modules take it up:

1. The plain members of the synchronous queue are protected by the order of
   three semaphores alone, on normal and on timeout paths (`SyncQueue`).
2. A put that times out after it delivered leaves its item and a signal behind
   (`SyncQueue`, `AsyncParser`).
3. `start`, `cancel` and `isRunning` all take the idle token for a moment; `cancel`
   races the worker for the buffers and waits for it, while the worker may wait for
   the handler queue; the flags are read and written without a lock (`AsyncParser`).
4. The bytes arrive in any division, the encoding is found by going back and forth
   over the first of them (`InputStream`, `SharedBuffer`).
5. Errors at any depth, strings in chunks, buffers at their limits, actions used
   again after a failed run (`JsonParser` with `StringStorage`,
   `RepresentationGenerator`; `ValueGenerator`, `StreamActions`).
6. Characters divided between chunks, ill-formed ones, the fast path of the
   converters (`Unicode`).
7. Sinks that refuse a write, growing memory with pointers into it (`JsonWriter`,
   `DataStreambuf`, `StreamDevices`).
8. Copies that throw, sources that are parts of their targets (`Variant`), the type
   that overload resolution finds for an argument (`JsonValue`), memory that is shared
   (`StringCache`), a cache that is changed by the function it calls (`LruCache`).
9. Limits of number types (`Numbers`), bits shared by options (`ParserOptions`), lines
   that several threads write in pieces (`Logger`).

`PROJECT.json` lists the components with their status, and every hazard at its
line with the properties that cover it.

## 2. Modules

| Module | Role |
|---|---|
| `Channel` | abstract: a channel with at most one item in flight |
| `SyncQueue` | the queue, one step between two semaphore operations, with its most general client |
| `SyncQueueProofs` | theorems about `SyncQueue` |
| `MCSyncQueue` | instances of `SyncQueue` for TLC |
| `AsyncParser` | the parser object, its clients, its worker and the handler queue; composed with `SyncQueue` by INSTANCE |
| `AsyncParserProofs` | theorems about `AsyncParser`, from those of `SyncQueueProofs` |
| `MCAsyncParser` | instances of `AsyncParser` for TLC |
| `StringStorage` | sizes, chunks and limits of the string and number buffers, as operators |
| `RepresentationGenerator` | the handlers of the semantic actions, as operators on one record |
| `ValueTree` | abstract: a tree of values that grows by keys, values and complete containers |
| `JsonParser` | the recursive-descent parser, the parse loop and `runWithBytes`, over the two modules above |
| `JsonParserProofs` | theorems about `JsonParser` |
| `MCJsonParser` | instance of `JsonParser` for TLC |
| `CodePoints`, `Unicode` | predicates on code units; the converters, and `convert` over chunks |
| `Encodings` | byte orders, byte order marks, the traits of the encodings |
| `InputStream` | from bytes in buffers to code units: detection, the queue's streambuf, the front ends' `run` |
| `JsonWriter` | `JPJsonWriter` with its sinks, and `write_value` |
| `ByteStream`, `DataStreambuf` | abstract stream in memory, and the two stream buffers that refine it |
| `StreamDevices` | the sources and sinks over Foundation's streams |
| `Variant` | the discriminated union inside `json::value`, statement by statement |
| `TypeLists`, `JsonValue` | the algorithms on lists of types; `json::value` on top of the union |
| `ValueGenerator` | the semantic actions that build a `json::value` |
| `StringCache`, `SharedBuffer` | the string cache on its arena; the buffers of the queue and their references |
| `LruCache`, `Logger` | the cache of a function's results; the lines of the logger |
| `StreamActions` | events to a delegate, below either front end |
| `ParserOptions` | options, properties and flags, and the settings they become |
| `PathComponents`, `JsonPath` | abstract path, and the flattened one that refines it |
| `PathExpression` | a path's expression from infix to postfix |
| `Numbers`, `DecimalNumber`, `Base64` | numbers from text to value and back; packed number texts; base64 |
| `VariantProofs`, `UtilityProofs`, `StreamProofs`, `StreamActionsProofs`, `JsonPathProofs` | theorems about these components |
| `MCComponents` | one run for the components that share no state |

### SyncQueue

`sync_`, `send_`, `recv_`, `empty_` and `storage_` are the members of the class.
`pc[t]` is where thread t stands: idle, blocked on a semaphore (`waitSend`,
`waitSync`, `waitRecv`) or between two semaphore operations (`store`, `publish`,
`take`, `holding`, `signalSync`, `signalSend`). One action is the code from one
such point to the next. `put`, `put(timeout)`, `get`, `get(timeout)`, `acquire`
and `acquire(timeout)` share their steps and differ in whether `Expire` is
possible. A libdispatch wait with a timeout expires only if there is no signal
left for it, so `Expire` needs a count of zero. `give` and `commit` may only be
called by a thread that holds an acquired item: "the behavior is undefined"
otherwise. `got` and `result` are what the calls return. `abandoned` is a history
variable that counts `TIMEOUT_NOT_PICKED`; `MaxAbandoned` bounds it, since each
such put leaves a signal in `sync_`.

### AsyncParser

`loc[t]` is where a thread stands in the methods of `JPAsyncJsonParser`, the
queue's `pc[t]` where it stands inside the queue; `InQueue` is a step there.

| Code | Actions |
|---|---|
| `start` | `StartRefused`, `StartTake`, `StartKilled`, `StartDispatch` |
| worker: streambuf | `Fetch`, `Receive`, `Underflow` |
| worker: detection, parser, `parse_loop` | `Detected`, `DetectedBomOnly`, `Throw`, `ParseBegin`, `ParseCanceled`, `ParseNotCanceled`, `EnterDocument`, `ParseFails`, `ParseEnd`, `LoopSucceeds`, `LoopContinues`, `ExtraCharacters`, `Finished` |
| worker: end of the block | `Drain`, `Drained`, `Release`, `SetFinished` |
| handler queue | `RunBlock` |
| `parseBuffer:` | `ParseBuffer`, `ParseBufferTimeout`, `ParseBufferYes`, `ParseBufferNo` |
| `cancel` | `CancelTry`, `CancelWasIdle`, `CancelKill`, `CancelActions`, `CancelDrain`, `CancelDrained`, `CancelOffer`, `CancelOffered`, `CancelAsk`, `CancelAwait`, `CancelReturn`, `CancelAwaitTimeout` |
| `isRunning` | `IsRunning`, `IsNotRunning` |

The text is abstract: a buffer is nil or a number, its position in what the
producer sent. What the parser finds in it is a free choice among the outcomes
of the code (an error, the end of a document, the end of the buffer). `input`
says what the worker has in hand, `phase` which part of the run it is in. Inside
a document a failing parser may report its error to the actions once, twice or
never, because the recursive functions differ in that.

A block that the worker dispatches synchronously blocks it at `inBlock` until
`RunBlock` has run that block. A canceller in `OnHandler` calls `cancel` from a
block, and the handler queue runs no other block until `cancel` returns.

All four handler blocks are assumed to be set, and the handler queue to exist.
`killed_`, `finished_` and `canceled_` are read and written atomically and seen
at once. In the code they are plain: what a compiler or a processor may do with a store
that no barrier orders is outside of the model.

### The document: JsonParser

The text is not fixed in advance: `cur` is the character at `p_`, chosen when the
parser first looks at it. `stack` is the recursion of `parse_array` and
`parse_object`, `pc` where the innermost function stands, `err` and `told` whether it
failed and whether the actions have heard of it. `sa` is the generator's record,
`buf` and `num` the sizes of the two buffers. What stays of a failed run in the
generator is there when the next one begins (`stale` remembers that).

| Code | Actions |
|---|---|
| `runWithBytes` | `Run`, `Refuse`, `Clear`, `Reuse`, `Cancel` |
| `parse_text`, `parse_array`, `parse_object`, the list of members | `Document`, `Containers` with `EndValue`, `MemberError`, `ListError`, `Unwind` |
| `parse_value`, literals, numbers | `Scalars` |
| `parse_string`, escapes | `Strings`: a chunk that does not fit goes to the actions (`Write`) |
| `parse_loop` | `Loop`: `Parsed`, `LookBehind`, `LoopEnd`, `NextDocument`, `ExtraCharacters` |

### The other components

Each has a module that reads for itself: a header with the code it models and what
it leaves out, its state under the names of the members, one action per operation or
statement, and its properties at the end with their exceptions. `MCComponents` puts
them side by side; `part` says which one a behaviour is about. They do not
interact through state: what one hands to another is among the inputs of the other.

## 3. Runs

| Run | Expect | Instance | Shows |
|---|---|---|---|
| `syncqueue` | pass | 2 producers, 2 consumers, every call, 2 items, 2 abandoned puts; 78 000 states | exclusive cell, asserts hold, no mutual wait, signals counted, refinement of `Channel`; with a sole producer no capacity, put OK means taken; offered items are taken, producers return |
| `stale_sync` | violation | 1 producer with timeouts, 1 consumer | put returns OK before its item is taken |
| `calls` | pass | 2 starts, 2 workers, 1 canceller, 1 producer, 1 isRunning; or 1 producer of 3 buffers, 2 documents, 6 settings; 1 204 000 states | one idle token, cancel leaves no worker, order of the handler blocks, buffers read without gap and none lost that was accepted |
| `live` | pass | 1 start, 1 canceller, 1 producer; 86 000 states | nil ends a run, cancel ends it and returns, parseBuffer: returns |
| `bom_only` | violation | 1 producer of 2 buffers | byte order mark then nil: the parser waits again |
| `after_cancel` | violation | 1 canceller | blocks run after `cancel` returned |
| `on_handler` | violation | 1 canceller on the handler queue | `cancel` and the worker wait for each other |
| `early_cancel` | violation | `cancel` racing `start` | the idle token is lost and `cancel` does not return |
| `document` | pass | texts nested 2 deep, 2 elements, strings of 3 units, numbers of 4 characters, 5 settings, reuse of the actions; 414 000 states | events build the tree, strings and numbers whole, failures reported, nothing built after an error, every character consumed |
| `sorted_keys` | violation | `JsonWriter` of `components` | an object written with `JPJsonWriterSortKeys` is not sorted |
| `buffer_leak` | violation | `SharedBuffer` of `components` | a CFData that a buffer held when it was assigned to is not freed |
| `components` | pass | 20 components on their own inputs; 713 000 states | see below |

The properties of `components` are those of its parts:

| Property | Parts: definition |
|---|---|
| `Decodes` | `Unicode`: Decodes, Transcodes; `Encodings`: Serializes; `PathExpression`: Converts; `DecimalNumber`: Unpacks, Validates; `Base64`: Recodes |
| `InBounds` | `Unicode`: StaysInRange; `DataStreambuf`: InMemory |
| `ReadsText` | `InputStream`: ReadsText, RefusesOnly; `StreamDevices`: EndsWhereItEnds |
| `WritesValue` | `JsonWriter`: WritesValue; `Numbers`: Rereads |
| `ReportsLosses` | `JsonWriter`: ReportsLosses; `StreamDevices`: Counts |
| `Refines` | `DataStreambuf` refines `ByteStream`, `JsonPath` refines `PathComponents` |
| `BuildsValue` | `ValueGenerator`: BuildsValue; `Numbers`: Holds |
| `KeepsWhatIsHeld` | `Variant`: HoldsObject; `JsonValue`: SaysWhatItHolds; `StringCache`: KeysIntact; `SharedBuffer`: Shares; `LruCache`: CachesRecent |
| `ActsAsAsked` | `StreamActions`: Notifies; `ParserOptions`: Configures; `Logger`: WritesLines |

### Bounds

Concurrent core. Two producers and two consumers are the fewest with which one thread
can take another's signal on either side; two abandoned puts leave two stray
signals at once. In `syncqueue` one producer puts with a timeout and one without, and the
second consumer gets and acquires with a timeout: `Expire` may happen and need not, so
a call with a timeout has all behaviours of the same call without one. `NoCapacity`
and `PutOKMeansTaken` speak of the behaviours in which one thread alone has put so far and
has abandoned nothing (`Rendezvous`), `PutReturns` of those of a sole producer; another
producer may take its signal, and an abandoned item stays (`stale_sync`). Two starts and two workers let a run follow a run and overlap
it if the token failed. Three buffers let a timeout fall between two others. In
`live`, two abandoned puts are enough: in that instance no third put could be
abandoned anyway, so the bound removes no behaviour. In `calls`, reaching `MaxAbandoned`
only removes behaviours, which matters to no safety property. `MaxWaits` is 10 in
the code and 0 in the runs: with it `cancel` gives up sooner, which includes every
outcome of giving up later. The runs switch the deadlock check off: the system stops
when its clients make no further calls.

`calls` has two kinds of behaviours (`Clients`, an action constraint): with the
strictest settings everybody calls, and one buffer of one document is enough to order the
calls against the run; with every setting that the parse loop tells apart and nobody
canceling, one run parses three buffers of up to two documents. Starts and workers are
interchangeable and symmetry is used; it checks no liveness property.

`document`. Two levels and two elements suffice for every pair of a container and
its parent, and for a first, a next and a last element. The string buffer begins with
room for 1 unit, grows to 2 and sends chunks of 2: with strings of 3 units every way
to fill, grow and send happens, also with a pair on the boundary. `NumberSize` is 4
instead of 256, so that a number can reach the limit. `MaxLeft` 1 lets a failed run
leave an element or a marker behind; the next run shows what that does.

`components`. The fast path of `convert` starts at 5 units instead of 24; texts have
up to 4 units and some have 6 or 7, over code units at each boundary of their class, divided
into chunks anywhere. `InputStream` has every division into up to 3 buffers of texts
in 5 encodings with and without byte order mark and of 11 ill-formed ones.
`JsonWriter` escapes in pieces of 2 units (real 128), writes buffers of 2 (1024), and a
sink refuses at most twice. `DataStreambuf` has 3 characters of memory, first
allocation 2. `Variant` has two variables, one element of an array, and types whose
copy throws. `JsonValue` has two variables, the default policies and a client's, integral
types of 1 to 3 bits; the algorithms of `TypeLists` are compared with what they
mean on all lists of up to 4 of 3 types. `ValueGenerator` nests two deep with strings of two parts.
`StringCache` has keys of 0 to 3 characters over blocks of 8 bytes, so that a key fits,
fills or exceeds a block. `SharedBuffer` has two buffers over two CFData.
`StreamActions` has delegates that implement nothing, some and all. `ParserOptions` has
each option alone, all pairs of 7 that interact, two calls in a row, 4 builds.
`JsonPath` has 4 keys, 2 indices, 3 components. `PathExpression` has every sequence of
4 tokens and 16 long ones. `Numbers` has types of 5, 8 and 11 bits instead of 32 and 64
and numerals at the powers at which they and their digits end. `DecimalNumber` has
room for 4 characters (real 46), texts up to one more. `Base64` has all texts of
4 bytes from the extremes and full groups. `Encodings` has the code points at the ends
of every length. `StreamDevices` has two devices over two streams of two bytes.
`LruCache` has 3 keys for a capacity of 2, a function that calls the cache twice deep, and
4 uses. `Logger` has two threads and 3 messages on three levels, one of them above what is
compiled.

### Fairness

A thread that can run does (the scheduler runs every dispatched block), timed
waits expire, the handler queue runs its blocks. Semaphore waits are strongly
fair: libdispatch wakes waiters in order, so a waiter is not passed over for
ever. `give`/`commit` after `acquire` are weakly fair as the comment of `acquire`
asks for one of them. The client of a parser calls `start`; nothing is assumed about
whether it ever calls `parseBuffer:` or `cancel`, nor, in `SyncQueue`, about calls
or timeouts. The parser itself is weakly fair as a whole: it
works on as long as it has text.

In `JsonParser` the parser is weakly fair as a whole: it is one sequential program. The
components are checked for safety only.

## 4. Proofs

A theorem holds for every value of the constants. Where the constants need an
assumption, it is a named operator of the component's module (`StreambufConstants`,
`PathConstants`, ...) and a hypothesis of the theorem; `MCComponents` assumes each of
them of its instances, so that TLC evaluates them in `components`.

### The concurrent core

`SyncQueueProofs` holds for any finite set of threads, any items, any assignment
of calls to threads and any bound on abandoned puts.

* `TypeCorrect`: types, and semaphore counts never negative.
* `SlotInv` is the inductive invariant. `CellExclusive` alone is not inductive:
  it does not say where the right to the cell is while no thread has it.
  `RightInv` says that `send_`, `recv_` and the owner share exactly one right,
  `ContentInv` that the holder of the right determines whether the cell is full.
  From it follow `CellIsExclusive` and `AssertsNeverFail`.
* `SignalsAreCounted`: `SignalsMatch` is inductive together with `SlotInv`. One
  lemma, `CountStep`, says how moving one thread changes the number of threads at
  a set of points; each action then is arithmetic.
* `NeverMutualWait`: with nobody at an owner point and `recv_` zero, `SlotInv`
  puts the right into `send_`, so the cell is empty and the producer waits for
  `sync_`; `SignalsMatch` then says its signal is there.
* `QueueIsChannel`: the refinement. `PutStore` is Offer, `GetTake` is Take,
  `AcquireCopy` is Look, `Commit` is Remove (it needs the conjunct of `ContentInv`
  that an acquired item is still the one in the cell), `GetNothingOffered` is
  Miss, every other step leaves the channel as it is.
* `RendezvousHasNoCapacity`, `RendezvousPutIsTaken`: under `ProducersApart` (a thread that
  puts calls nothing else). `ProducerInv` says that whoever has put is a producer and that
  the cell holds the item of a sole one. `stale_sync` shows that the second fails
  once a put was abandoned.

`AsyncParserProofs` holds for any starters, workers, producers, cancellers and askers,
any number of buffers and documents and every setting of the constants.

* `QueueInParser`: every step of the parser is a step of `SyncQueue` or leaves the
  queue alone, so the parser implements `Queue!Spec` and the theorems above carry
  over (`QueueIsSafe`).
* `TokenIsKept`: `IdleToken` compares `idle_` with the number of threads that hold the
  token. It is inductive only with `WaiterInv`: a worker waits for one block at most, and
  whoever a block's waiters are is blocked there. Otherwise `RunBlock` could resume a
  worker that is gone and make it a second holder.
* `CancelIsFinal`: with `CancelInv`, `killed_` is set wherever a canceller stands
  behind the place that sets it. It is never reset, so no worker is dispatched any more,
  and a cancel that took the token excludes, by `IdleToken`, the worker that was left.
* `BlocksInOrder`, an action property: `ChainInv` relates the handler queue's blocks
  to what the run has sent, `PhaseInv` the worker's point to the phase of its run.
* `TextsAreRead`: with one producer and a text that is not a byte order mark alone
  (`OneProducer`; `bom_only` shows the other case), `TextInv` gives the number of the
  text in each of the places on its way: outside the queue, in its cell, in the worker's
  hands. The three follow from one another as long as the first run reads and nobody
  has canceled.

### The document

`JsonParserProofs` holds for texts of any depth and width, strings and numbers of any
length, all initial sizes and limits of the buffers, every set of options, and any
reuse of the actions.

* `IInv` has twelve conjuncts. `StackInv`: the recursion is as deep as the program
  point says. `MarkersInv`: the generator's markers nest, point into its stack and are
  at least as many as the open containers. `PhaseInv`, `GoodInv`, `HeldError`: where an
  error can be pending, and that parser and actions agree on it. `NestInv`: after a clean
  start markers and containers correspond one to one. `BufferInv`, `DataInv`: what was
  read and not yet handed over is in a buffer or in the generator. None is inductive
  alone, since what a handler does depends on the markers and whether it is called on the
  error.
* From it: `TypeCorrect`, `NothingBehindTheEnd`, `KeysAreWhole`, `DataIsWhole`,
  `EndIsComplete`, `SilenceIsRejection`, `VerdictAgrees` and, for every step,
  `ErrorsEndBuilding`.
* `TreeIsBuilt`: parser and generator implement `ValueTree`. `TreeInv` says that as long
  as there is no error the open containers, with what the generator has collected for
  each, form a proper tree that awaits what the program point is about to give it;
  `KindInv` that keys are read in objects only. Each handler is then one step of the tree
  or none.

### Components

* `StreamProofs`
  - Stream buffers, under `StreambufConstants`: `Areas` says how the six pointers
    and the high mark lie in the memory while no fault was met. It gives `StaysInMemory`
    and makes `StreambufIsStream` hold: reading, writing, putting back, seeking and growing
    are the steps of `ByteStream` of the same name.
  - Devices, under `DeviceConstants`: `StreamDevicesCounts` and
    `StreamDevicesEndsWhereItEnds`. The invariant follows the transfer that is under way:
    what the stream has passed already and the device not yet counted, and what the call
    will answer.
  - Converters, under `UnicodeConstants`: `ConversionStaysInRange`. The checked
    converter's fast path stops three units before its end, and `CheckedFastInv` says
    where it can pass that limit; its only overruns are the two of section 6, which the
    property names: an empty chunk behind a kept part of a character, and the
    replacement in a long chunk. The unchecked one compares with nothing but the end: it is safe because a well-formed
    text has at each place the units that its leads announce (`UncheckedInv`).
* `UtilityProofs`
  - Shared buffers, under `SharedConstants` (finitely many): `BuffersShare`.
    `CountInv` compares each retain count with a cardinality, the number of holders;
    one lemma says how that changes when one buffer changes what it holds. It is at
    least that number, and equal to it unless an assignment dropped the CFData.
  - Base64, under `Base64Constants`: `Base64Recodes`. `BaseInv` says that the characters
    of the round that is under way have the bits of its bytes, and those written before
    the bits of all bytes before it; so reading back returns the bytes, in any length.
  - String cache, under `StringCache`'s `CacheConstants`: `CacheKeepsKeys`. The characters of each key
    end before `ptr_` or lie in another block, and the counters of the arena are sums over
    its blocks, which the lemmas take one block at a time.
  - Result cache, under `LruCache`'s `CacheConstants`: `LruCacheCachesRecent`. Each record
    was used later than the ones before it, and unless a result came for a key that had
    come meanwhile (`doubled`), the keys that are not there were used earlier than all;
    that needs the order and the times together.
  - Logger, under `LoggerConstants`: `LoggerWritesLines`. The pieces a thread has
    written follow from the step it is at, and the name in the header is that of one of
    the threads that found none.
* `StreamActionsProofs`
  - Stream actions, under `ActionsConstants`: `DelegateIsTold`, for every set of
    events a delegate implements. The invariant separates runs that have not failed
    (`QuietInv`), those that have an error (`ErrorInv`), and those where the delegate's own
    error was the first (`FirstInv`).
  - Options, under `OptionsConstants` (a request names known options, and at most one of
    each choice): `OptionsConfigure`. `Match` relates every setting to what the calls and
    setters so far asked for, but for those that an option with a shared bit has touched
    (`mixed`); it is preserved because the bits of a request name exactly the options
    of the request, but for the four that share bits.
* `JsonPathProofs`, under `PathConstants` (a cell holds a character or more, keys are
  sequences): `PathIsFlattened` and `PathBegins`. `LayoutInv` says that each component
  has its own cells, behind those of the ones before it; without it a key that is
  assigned could change another component. Lemmas about quotients and remainders find a
  character's cell.
* `VariantProofs`
  - The union, under `VariantConstants` (the two special values are no values of an
    object): `ObjectIsHeld`. `HoldsObject` speaks of the time between two calls; `Busy` says
    for each statement that is left of a call what the variants, the tags and the local
    variable hold there, relative to the objects at its start. Six stages: assignment of
    the same type, of another one in place, on the side, emplace, and the two kinds of swap.
  - `json::value`, under `JsonConstants`: `ValueSaysWhatItHolds`. The assumption says of
    each list of policies that its seven types differ and that `index_of` and `at` find
    them, since what a fold computes for every list needs induction; `TypeLists` is
    compared with its meaning by TLC. The lemma `SelectIs` is overload resolution: a
    viable argument converts to one type of the list, the one of its kind.
    The invariant says of each variable that its object stands for the value that
    was meant, of containers for each element.

### Only model-checked

* All liveness: `OfferIsTaken`, `PutReturns`, `EOFStopsParser`, `KilledStops`,
  `ParseBufferReturns`, `CancelReturns`, `Progress`. Fairness and ENABLED are out of the
  prover's reach.
* What recursive definitions compute, which needs induction over data: `Decodes` with
  `Unicode` (which characters come out), `Encodings`, `PathExpression` and
  `DecimalNumber`; `WritesValue` and the writer's part of `ReportsLosses` with `JsonWriter`
  and `Numbers`; the part of `ReadsText` about `InputStream`; `BuildsValue` with
  `ValueGenerator` and `Numbers`; the algorithms of `TypeLists`.
* `MCComponents` puts modules with RECURSIVE operators side by side, so its properties
  cannot be stated in a theorem as they are. Of their parts, those of `InBounds`,
  `Refines`, `KeepsWhatIsHeld` and `ActsAsAsked` are all proved, and
  `EndsWhereItEnds` of `ReadsText`, `Counts` of `ReportsLosses` and `Recodes` of `Decodes`.

## 5. Findings

1. A put that timed out as not picked up leaves a signal with which the next put
   returns OK too early (`stale_sync`).
2. A byte order mark alone followed by nil leaves the parser waiting (`bom_only`).
3. Error and completion blocks run after `cancel` returned (`after_cancel`).
4. `cancel` on the handler queue may not return (`on_handler`).
5. `cancel` between the two checks of `start` loses the idle token and never
   returns (`early_cancel`).
6. `JPJsonWriterSortKeys` never sorts, against `JPJsonWriter.h:37` (`sorted_keys`).
7. The assignments of `CFDataBuffer` forget the CFData they had, so that `underflow`
   leaks every buffer of the asynchronous parser but the last, against
   `JPAsyncJsonParser.h:199` (`buffer_leak`).

Three more places disagree with a comment or an assert of their own file. No run
demands what those say, and no property that passes takes the code's behaviour there for
the right one: each makes no claim at that place.

* `value_generator.hpp:352` makes a string in several chunks from the last chunk's memory,
  with the length of all, while the comment at 351 says "copy from tmp buffer to the stack".
  `BuildsValue` says of such a string only its kind and its length.
* `parse_begin` of the value generator asserts that its stack and its markers are empty
  (`value_generator.hpp:197-198`); after a failed run without `clear` they are not. The
  model is the build without asserts, which goes on.
  `BuildsValue` says nothing of that run.
* `json_path/parser.hpp:234-237` says that operators "higher or equal" are popped; the code
  at 246 compares with `<`, so that operators of equal precedence associate to the right.
  `Converts` compares meanings in which the operands of `|` and of `+` are lists, so that
  it holds for either grouping.

## 6. Deviations

What the code does that a reader of its interface would not expect. Each is in the
model as the code has it, and the property it concerns names it as its exception, so
that it covers the rest of the hazard only: `DataWhole` says nothing of strings with
`cacheDataStrings`, `CompleteUnlessStale` nothing of a run behind a failed one (`Verdict`
does), `Configures` nothing of options that share a bit, `Notifies` nothing of an error
that the parser never reports.

Parser and front ends (`JsonParser`, `InputStream`, `StreamActions`, `ParserOptions`)

* In a UTF-32 text the parser does not get past a character above ASCII inside a
  string: `unicode_converter.hpp:1597` returns without stepping over it, and the
  character is appended without end.
* An escaped character that the filters reject makes an array fail without a report;
  an error inside nested objects is reported once per object.
* `parse_begin` does not clear the generators' stacks: after a failed run without
  `clear`, `parse_end` throws for a correct text.
* With `cacheDataStrings` a string in several chunks keeps the last one only
  (`RepresentationGenerator.hpp:899`), and a number made a string begins with the rest.
* A byte order mark divided off a code unit's boundary: the parser starts inside it.
  An empty buffer right behind a mark is passed over, anywhere else it is the end. A
  string given as UTF-16 leaves its encoding to the detection; `parseData:encoding:`
  ignores its encoding.
* The end of an element or a member is sent to the delegate also when it failed. The
  worker's `catch (...)` replaces the error that was set, reports again and sends no
  completion. `JPStreamSemanticActions` has no `cancel`, so the asynchronous parser's
  cancel does not reach it. A canceled synchronous run may return NO without an error.
* Two options have bit 19, two bit 18 (`JPJsonCommon.h:98`); of the extensions the
  else-if chain sets one, and two of them another than the one asked for; the log level
  "debug" reads as "warning" in a build without `DEBUG`.

Conversion (`Unicode`, `Encodings`, `DecimalNumber`, `Base64`)

* `convert` with `ReplaceIllFormed` passes the end of its range when it resumes a
  partial character in a long chunk that has no start of another one, and does not
  end for an invalid UTF-32 unit; `convert_unsafe` with a state reads a resumed
  character twice.
* An empty chunk behind a kept part of a character is read beyond its end: the parsers
  jump to the label of their state, behind the comparison of `first` with `last`
  (`unicode_converter.hpp:692-702`), and `convert` does not check (`unicode_conversion.hpp:102`).
* The converters to the escaped form write `\u` too often above the basic plane, and
  the one from UTF-16 is right for one character only.
* `iterator_encoding` assumes the host's byte order. `is_valid_json_number` of a range
  takes a character behind the digits; `decimal_number` forgets whether the exponent
  was `e` or `E`; base64 takes trailing bits that no encoder writes.

Writer and streams (`JsonWriter`, `StreamDevices`, `DataStreambuf`)

* Control characters without a letter are escaped with a newline in place of the
  reverse solidus, the second hex digit is wrong above 9 (`generate.hpp:331`).
* Lost separators, layout and string parts are not reported; a pair across the end of a
  piece reads past the string; `JPJsonWriterSortKeys` never sorts (section 5).
* The second sink writes for ever to a stream that failed (`NSStreamStreambuf.hpp:403`);
  a failed read answers 0, which the reader takes for the end.
* `NSDataStreambuf` for output allocates two bytes whatever it is given
  (`NSDataStreambuf.hpp:251`).

Values and memory (`Variant`, `ValueGenerator`, `StringCache`, `SharedBuffer`, `JsonPath`, `PathExpression`, `Numbers`)

* A variant assigned from its own element reads it after it was destroyed; an `emplace`
  that throws leaves the tag of an object that is gone.
* `seek` of `CFDataBuffer` from a moved position leaves a wrong size.
* `pop_component` of `intrusive_json_path` pops the root, the other one refuses; a key
  pushed from the path's own storage is copied from memory that is gone.
* An extra parenthesis of a path expression is copied or empties the stack.
* Fractions with 16 or 17 digits become doubles without the warning
  (`RepresentationGenerator.hpp:989` compares with `max_digits10`), not a number and
  infinity are written as `nan` and `inf`, chars 0 and 1 as `false` and `true`.

## 7. Plan

1. The stages of `JsonWriter` that need no recursion, in a module that its proofs
   can reach.
2. What `Decodes` and `WritesValue` say for texts of every length, once a prover for
   induction over data is at hand.
3. Liveness of a stream of documents over `AsyncParser` and `JsonParser` together.

## 8. Not modelled

* The callbacks that CF containers get, the performance counters and the builds with
  `JSON_OBJC_REPRESENTATION_GENERATOR_USE_JSON_PATH` of the representation generator:
  they do not change its stack, or no build defines the macro.
* The ownership of the handler queue and deallocation with threads inside a parser,
  which the client's retain rules exclude.
* `atomic.hpp` (no part includes it), `flags.hpp` (names for bit operations), the names of
  the process and the executable before a line of the logger, the automaton of
  `json_path/parser.hpp` (does not compile, or is inside `#if 0`).
* Hash functions, formatting of descriptions, the libraries below (boost's spirit and
  iostreams, Foundation, libdispatch), which are modelled as their callers use them.
* `unused/`, tests, benchmarks and examples.
