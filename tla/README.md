# A verification project for rsyncAgent

rsyncAgent is a Windows service written in C++ on the Poco libraries. Web pages
talk to it over HTTP on the local machine: it signs, encrypts and verifies with
the USB key (UKEY) that is plugged in, and it relays transactions between the
pages, a cloud service and the user's phone. This directory holds TLA+ models of
its concurrent and persistent parts, TLC configurations that check them on small
instances, and proofs that TLAPS checks for every instance.

`PROJECT.json` lists the components, the runs, the theorems, the mutants (one
deliberate bug for each checked property), the source lines of each definition,
the hazards and the findings. Paths of the form `src/src/...` are relative to the
repository's parent directory; below, file names are relative to `src/src`.

## 1. Inventory

| component | state | operations | interacts with |
|---|---|---|---|
| Device watcher, `AdaptiveRecevier` | none of its own; writes the property `engine.mode` and the session container | `runTask`, `CheckDeviceDBEnv`, `cancel` | UKEYMonitor (another process) through the SQLite table `DeviceSet` and the named event `DeviceChangedEvent`; the HTTP threads, which read what it writes; the main thread |
| Key session lookup, `Utility::getSC`, `getSession` | the session container | lookup by engine | the watcher, every handler that needs the key |
| Command, `routes/Command.cpp` | the answer under construction | `execute`: run, or one of five catch clauses | all handlers |
| Cloud pushes over MQTT, `mqtt/MQTTAsyncClient`, `CloudEventRecevier` | the connection, `clientId` | connect loop, `messageArrived`, `connectionLost`, `cancel` | the cloud, the decision cache, the note queue |
| Cloud pushes over WebSocket, `mqtt/WSQTTHandler` | the connection | `onReadable`, heartbeat `onTimeout`, `onShutdown` | the same |
| Decision cache, `TokenManager` | an `AccessExpireCache`, 10 minutes | `add`, `get` | receivers, `CloudGetAuth`, `CloudGetSignResult` |
| Note queue and page threads, `WSQTTServiceHandler`, `WebSocketRequestHandler` | `NotificationQueue::defaultQueue()`, one reactor per page | `onReadable`, `onWritable`, `onError`, `onShutdown` | receivers, browser pages |
| Configuration, `ConfigParameters`, `ConfigParamsByBussSys`, `restoreProperties` | the layered configuration, `%TEMP%\KCODE.ini`, the registry | set, restore | the cloud commands, which send `authCode`; other programs |
| Agent start and stop, `rsyncAgent.cpp` | the shared thread pool | `main` | all |
| Key operations, key encryption (`routes/Key*`, `CertLogin`, ...) | the key's login state and PIN counter, plaintext and cipher files | one handler each | session, and the user who exchanges keys |
| Verification with fallback (`VerifySignByP7*`, `VerifySignByP1Ext`) | none | local, then remote | session, verification server |
| Cloud commands (`routes/CloudAPI`) | the request each thread serves; output files | template, request, check, answer | the cloud, configuration (`authType`, `clientId`), decision cache, SM2 |
| SM4 data and files (`routes/sm4`, `Encrypt*`, `Decrypt*`) | files; the key that a page was answered with | chunk loops over the cipher | the property `keysize` |
| SM2 encryption (`Utility::sm2_encrypt`) | what it allocated, `flag`, `k` | one call | cloud commands, OpenSSL |
| QR code image (`GreateQRCode::saveBmp`) | the bitmap's data | index arithmetic | the QR code library |
| Request routing (`RequestHandlerFactory`) | none | a table from paths to handlers | all handlers |
| Log channels (`MQTTAsyncChannel`, `CustomChannel`), QR code library, certificate parsing, texts, legacy `UDevice` | see `PROJECT.json` | | |

What is hard about it:

* **Interleaving without locks.** The watcher holds a mutex while it publishes,
  and no reader takes it. Pages' threads share one note queue. HTTP threads set
  the same property concurrently.
* **Order.** A decision is stored before its note is queued; `engine.mode` is
  written before the session is added; the properties are restored before the
  server starts. Nothing but the order of statements enforces these.
* **Failure in the middle.** SQLite, the key, the registry, a file and the cloud
  can each fail between two writes, and most failures are swallowed.
* **Ends.** The process can end between any two writes; an unprotected assertion
  in a library thread ends it; threads end, leak, or wait for each other.

What makes each component correct: the watcher misses no change and what it publishes
agrees with what it read; a notified page finds its decision; a note is sent at most
once and in order, and not left in the queue; the authorisation code that was
acknowledged is the one in use, before and after a restart; an answer says success
only of a success; cancelling ends a task; a page that left gives its thread back. A
command on the key answers for the key that the page named; a PIN costs one try; a
verdict is somebody's; a command that the cloud did not grant leaves neither data nor
a file behind; what was encrypted can be decrypted; the agent stops when it is told
to, and leaves nothing running.

## 2. Modules

| module | models | extends |
|---|---|---|
| `CommandResponse` | the code that `Command::execute` answers with for each class of exception | |
| `DeviceMonitor` | UKEYMonitor's event, the watcher step by step, its cancellation, and the handlers' two-step lookup | `CommandResponse` |
| `CloudEvents` | a push on its way from the cloud to a page, over both transports | instantiates `NoteDelivery` |
| `NoteDelivery` | abstract: what the agent promises of decisions and notes | |
| `ConfigStore` | the authorisation code in config, `KCODE.ini` and registry, with crashes | |
| `CloudSession` | eighteen cloud commands, the cloud, and the decision that comes back | `CommandResponse` |
| `KeyOperations` | the commands on the key and the verifications, with exchanges of the key | `CommandResponse` |
| `AgentLifecycle` | the main thread, the tasks, the thread pool and the connection, over several runs | |
| `Sm4` | the block cipher, for every width and table | |
| `Sm4Commands` | the four commands that encrypt and decrypt files and data | `Sm4` |
| `Sm2Encrypt` | the control of `sm2_encrypt` | |
| `QrBitmap` | the index arithmetic of `saveBmp` | |
| `MC...` | the instances that TLC checks | the module |
| `...Proofs` | the theorems of a module; those of `NoteDelivery` are in `CloudEventsProofs`, those of `Sm4`, `Sm4Commands` and `QrBitmap` in `AlgorithmProofs` | the module, `TLAPS` |

### DeviceMonitor

`pc` follows `runTask` and `CheckDeviceDBEnv`: *select* (the SELECT and the test
of its result), *shutdown* and *clear* (the branch without a key), *setmode* and
*add* (the branch with one key), *sleep*, *wait*, *woken*. Each statement that
touches state seen by another thread is an action of its own, because the mutex in
the code excludes nobody. `SelectFails` and `AddFails` are the ways into the catch
block. `quit` follows the main thread through the three calls of `cancel`. `req`
holds a record per HTTP thread: `ChooseVerifier` reads `engine.mode` for
`VerifySignByP1::run` and `VerifyInSoftware` acts on what it read, so that the watcher
may publish a key between the two; `ReadMode` and `GetSession` are the two halves of
`getSession`. `opened` remembers that a session was ever added, and `late` that a
request came after that.

External behaviour is taken from how the code uses it: `DeviceChangedEvent` is a
Poco `NamedEvent`, which is reset by the one wait it releases and otherwise stays
raised; `Task::cancel` interrupts `sleep` and not `wait`; the session container
has no entry, an open one or one that was shut down for each engine, `get` throws
for the first and the last, and `add` throws for the last. The operations on a
session are not modelled here. The model assumes that no page sets `engine.mode`
through `ConfigParameters`, which accepts any property name.

### CloudEvents

A push has a number, in the order in which the cloud issues them, a transaction,
and whether it is good. The receiving thread is `messageArrived` or
`WSQTTHandler::onReadable`, which do the same in two steps: `ReceiveGood` stores
the decision and `EnqueueNote` queues the note. A bad push (an error code, no data,
not JSON) throws: over WebSocket it ends the connection for good
(`ReceiveBadWebSocket`), over MQTT it ends the process, since the MQTT library's
thread has no handler (`ReceiveBadMqtt`, which also starts the process again).
`forgotten` records the transactions whose stored decision expired or was lost in
this way, so that the properties can except them.

The thread of a page is *running* in its reactor; `OnWritable` takes a note and
`SendNote` sends it, with the lost note of a page that left; `OnReadableGone` and
`OnReadableStops` stop the reactor, which finishes its round (*stopping*), and
`OnShutdown` returns the thread. `OnError` deletes the handler and leaves the
reactor running (*leaked*).

### ConfigStore

`at` follows a request through `ConfigParameters::run`: for `authCode` *set*,
*kcode*, *registry*, *answer*; for `bussName` *cloud*, *setcloud*, *registry*,
*answer*. The two failures differ as in the code: that of `KCODE.ini` is answered
with an error, that of the registry is swallowed. `Crash` ends the process at any
point; `Restore` is `restoreProperties`. `KCODE.ini` is represented by the code its
line begins with and the length of what the line holds: Poco's `FileStream` opens a
file for reading and writing without truncating it. Three history variables say
when two copies are allowed to differ: `clean` (a request met no other one and no
failure), `acked` (the last code answered with success) and `lost`. Codes are not
empty: setting the empty code is setting none.

### NoteDelivery

The abstract specification has three variables: the decisions accepted of which no
page was told, the answer of each transaction, and what each page was told.
`CloudEvents` implements it with a refinement mapping (`Promise`): *pending* is the
note about to be queued, the queue and the notes that page threads hold, *answer* is
the cache, *told* the contents of the pages' inboxes. A note that is dropped with a
page, an expiry and the end of the process are `Lose`. The mapping is total: no
history variable was added for it.

### CloudSession

All cloud commands run the same code with other fields, so a command is a row: which
transaction fields it sends, whether the cloud opens a transaction, which fields it
extracts before and after it seals and writes. `req` holds a record per thread; its
`at` follows *mixValue* (template), *sendRequest* (round trip), *reply* (`success()`,
`extract()`, output), *rest* (the other extracts). `ReplyFails` and `ExtractFails` are
the ways out, with the code of the catch clause that takes the exception (a refusal
without `message` or `code` leaves with another exception than one that has them, and
with code 0), or `Drop` where none does (`std::stoi`, constructors, the `execute` that
`CloudGetSealList` has of its own). `CloudGetAuth` and `CloudGetSignResult` read the
cache. The cloud is external: it keeps, for each transaction, which agent it was told
to push to, and the user decides at any time. `authType` has texts that
`CloudSealAuth`, which reads a bool, and `CloudGetAuth`, which reads a number, take
for the same thing, for different things (`00`), and for nothing.

### KeyOperations

The watcher is reduced to `Publish`, which takes the session of the inserted key at
any time after an exchange; `DeviceMonitor` has its steps. A row says what a command
calls on the session it took: whether it compares the key's container with the one
the page named, whether it takes a PIN, what it obtains. Each call is an action, and
`Exchange` may come between any two; a call on a key that is gone fails.
`CompareCert` is the test of the certificate behind `@@@` in `KeyDecryptData` and
`KeyDecryptFile`. `KeyDecryptFile` goes on from `Decrypt` to `WritePlain`, though not
for a text without a certificate: the file may not open, is truncated, and is then
written whole, in part or not at all, which nobody tests. `Encrypt` has the same of
the cipher file. The
handlers that are not implemented are actions that answer so.

### AgentLifecycle

`main` follows `rsyncAgent::main`; `Start` and `Dies` begin and end the process.
`Threads` counts what of the pool is in use: the watcher, the receiver, pages. `link`
is the connection, over MQTT (with the task's loop *sleep*, *test*, *connect*) or
over WebSocket (a reactor of its own thread, one attempt, a heart beat). `cancel` of
the receiver and its loop are concurrent. `NoThreadAvailable` is the start of the
receiver that finds the pool taken by pages: main throws, and the process ends.

### Sm4, Sm4Commands

A word is the set of its one bits, so that `^` is the symmetric difference and a
rotation moves positions. `Sm4` has no recursion operators but recursive functions,
for the proof. `Sm4Commands` reads and writes a disk of three paths chunk by chunk. A
word takes the place of a byte, a block has 4 instead of 16, a chunk `Chunk` instead
of 128. Undefined behaviour is a choice: what `sm4_setkey` reads behind a key that is
too short, and what `<<` prints of a chunk without a zero (`Behind`). Source and
target may be one file, which the constructor truncates.

### Sm2Encrypt

`pc` follows the call: the caller's buffer `c2`, then the function with nine
allocations, the key, the loop, the output, the clean-up. [k]G is its k, and the key
stream a constant function of k, of which only some prefixes are zero. `flag` starts
*unset*, and the test then has either outcome.

### QrBitmap

`Pos` is the position that `saveBmp` computes, in 32-bit integers (`Int32`), as are the
width, the line and the size of the data. The scale is an integer of the configuration
handed over as a float, exact up to 2^24 pixels. `MaxWidth`, 26754 pixels, is the
widest bitmap whose bytes an int counts.

## 3. Runs

| run | instance | result |
|---|---|---|
| `device_monitor` | three keys of two engines, two changes, one HTTP thread | 6 properties hold, 233695 states |
| `failure_is_not_ok` | the same | violated: a page gets code 0000 for a request that found no session |
| `multiple_devices_refused` | the same | violated: a second key is plugged and the first one's session goes on serving |
| `cloud_events` | two transactions, two pages, two pushes | 8 properties hold, the refinement of `NoteDelivery` among them, 86393 states |
| `config_store` | a longer and a shorter code, one business name, two pages, any number of requests and crashes | 2 properties hold, 28342 states |
| `kcode_is_the_code` | the same | violated: the shorter code is followed by the end of the longer one |
| `cloud_session` | one thread that serves any number of commands, one transaction, five texts of `authType` | 4 properties hold, 50376 states |
| `refusal_is_not_success` | the same | violated: a refusal without a message is answered 0000 |
| `key_operations` | two keys, two tries, one thread that serves every command, envelopes for either key with either certificate or none | 6 properties hold, 289513 states |
| `agent_lifecycle` | a pool of three, three pages, both transports, two runs | 6 properties hold, 1158 states |
| `sm4_commands` | words of three bits, four rounds, chunks of two blocks, texts of 0 to 9 words with at most one zero, keys short, fitting and too large | 3 properties hold, 34018 states |
| `sm2_encrypt` | messages up to three bits, a curve of order 4, streams that are zero, zero at first, and not | 4 properties hold, 2314 states |

**Bounds.** Two changes of three keys allow a removal followed by an insertion, an
exchange for a key of the same engine or of the other, two keys at once, and a change
during each step of the check for the previous one; the initial set of keys is
arbitrary. One HTTP thread is enough for the properties about requests: the handlers
modelled only read. Two pushes allow one transaction to be decided twice, two notes to
compete for two pages, and a good push before or after a bad one; two pages are the
least that compete. In `ConfigStore` nothing is bounded. In `CloudSession` one thread
serves commands without end, so that every sequence of two or more commands of one
transaction is there, with decisions, expiry and changes of `authType` at any time;
two threads share nothing but the cache, whose operations are single actions. In
`KeyOperations` the interleaving that matters is a command with exchanges, for which
one thread is enough; that two pages which share the PIN counter change nothing is
proved, for any number of threads and of tries (`NamedKeyIsTried`). A pool of three has
room for both tasks and one page, and three pages can hold it all; two runs are the
least of which one follows the other. Texts of 0, 1, 4, 5, 8 and 9 words fall short of a
block, fill it, pass it, and the same of a chunk; the proof of the cipher has no bound.

**Properties of the passing runs.** `NoLostChange` and `EventuallyPublished` are the
safety and the liveness of "no change is missed"; both except a check that threw,
because the code does not repeat it, and `EventuallyPublished` applies to no key and
to one key, because the code takes no action for more. `SettledAgreement` relates the
two published places to the rows last read. `FallbackOnlyWithoutKey` says that no
request which came after a key was first registered is verified in software, even when
the key was pulled since: `engine.mode` is never reset. `CancelEndsTask` says that the
task ends wherever the cancellation finds it. `NoteAfterCache`, `DeliveredOnce`,
`DeliveredInOrder` and `AnswersMoveForward` state the delivery; `NotesAreTaken` and
`PageThreadEnds` its progress. `AckedCodeKept` states what the acknowledgement of a
code is worth, and lists when it is worth nothing. `KeepsPromise` is the refinement.

`DecisionComesBack` says that the user's decision reaches the cache of this agent,
for every command that opens a transaction: a command that forgot `clientId` would
break it. `EffectsWereGranted` says that data and files come only of requests
that the cloud granted. `CredentialAsAsked` says that two handlers with two conversions
of one text agree. `AnswersOfNamedKey`, `EnvelopeOfNamedKey`, `RefusalKeepsPlaintext`,
`OneTryOfNamedKey` and `VerdictComesFromAVerifier` hold across exchanges of the key,
on the assumption that a session is bound to the key it was opened on.
`StartsOrEnds`, `PoolIsUsed`, `NothingOutlivesMain` and `AgentStops` are about start
and stop, `PushesResume` about the connection. `FileComesBack` states what decryption
gives for a file, with the chunk that is always one too many; `DataComesBack` and
`CipherDecrypts` the same of data and SM2, `OnlyC2Leaks` and `EncryptionEnds` that
the clean-up covers every failure and the loop ends. `CommandEnds` is the end of the
chunk loops.

What these properties except is what the code does not give, and worth knowing: the
data commands cut a chunk at its first zero byte and read beyond it when it has none
(`DataComesBack`); a read error spins for ever (`CommandEnds`, *spinning*); an empty
text is encrypted for ever (`EncryptionEnds`, *hung* in `CloudSession`); an exception
without a code makes a verification answer 0000 (`VerdictComesFromAVerifier`, which
leaves it to `FailureIsNotOK`); a page that stays open keeps the agent from ending
(`AgentStops`); a refused connect ends the receiver for the rest of the run
(`PushesResume`), and a page that waits for a thread is not woken by that
(`PoolIsUsed`); requests that overlap, and failing writes to `KCODE.ini` or the registry,
leave the copies of the code apart (`AckedCodeKept`); a request that read `engine.mode`
before a key was registered is verified in software beside its session
(`FallbackOnlyWithoutKey`); zero written otherwise than `0` means two things
(`CredentialAsAsked`); a granted command that fails later may have replaced the file
already (`EffectsWereGranted`); a plaintext file that cannot be written is left empty or
cut, and the answer may be 0000 (`RefusalKeepsPlaintext`); the buffer `c2` of an SM2
encryption is freed by nobody (`OnlyC2Leaks`). And of a command that a page sends before
the receiver is started no property speaks: it names the `clientId` of the properties
file, which gets this agent no push.

**Findings.** The four violated runs compare the code with what its own comments
say; `PROJECT.json` quotes them. `RAR_OK` is glossed as success, but a
`NotFoundException`, whose code is 0, is answered with it, and so is a refusal of the
cloud that lacks its message or its code. `RAR_NODEVICE` and
`RAR_MULTIPLEDEVICE` are defined and answered by no handler. `KCODE.ini` is
described as one line with the code.

**Fairness.** Weak fairness of each thread of the agent: the watcher, the main
thread once it was asked to terminate, each HTTP thread in the middle of a request,
the receiving thread, and each page thread's `onWritable`, its sending, its noticing
that the page left, and its shutdown. It says no more than that the operating system
schedules runnable threads, and that a local socket whose peer left becomes
readable; the reactor serves all ready events in each round. UKEYMonitor is assumed
to raise the event after it wrote the table. `AgentLifecycle` has weak fairness of the
main thread, the tasks, the end of an attempt to connect and the reactor's timeout,
and strong fairness of a successful attempt: the cloud is not out of reach for ever.
`CloudSession` has weak fairness of a push in flight, and `Sm4Commands` of the thread
that runs a command; `Sm2Encrypt` adds strong fairness of each random number, since a
generator that avoided one for ever would be none. Nothing else is assumed of users,
the cloud, the network, or failures. `ConfigStore` and `KeyOperations` state safety
only.

`CHECK_DEADLOCK FALSE` is set in `CloudEvents.cfg` and `AgentLifecycle.cfg`. In the
first the system may stop: when every page thread has leaked through `onError` and the
WebSocket to the cloud is dead, no part of it can take a step. In the second the agent
is off after the last run that the bound allows.

## 4. Proofs

The proofs hold for every value of the constants that satisfies the assumption
named in each module: every set of keys, engines, HTTP threads, transactions, pages,
envelopes and codes, every size of the pool, of a chunk and of a word, and every
number of changes, pushes, runs and tries. Every safety property of the passing runs,
the action properties and the refinement included, is a theorem. The assumptions ask
for no more than types and that the sets something is drawn from are not empty
(`CloudSessionAssumption` is `Trans # {}`: a request names a transaction).

Each invariant below was checked by TLC before it was proved, on the instance of its
module's run; `FileInv` and `DataInv` on a smaller one (one key character, `Keysizes`
= {4}, texts of 0, 3, 4 and 8 words), since they compare whole files.

* `DeviceMonitorProofs`: `TypeCorrect`; `NoWakeUpIsLost` (`NoLostChange` is inductive
  with the types: the rows differ only after a change, which leaves `unsignalled` or
  `event` set until the task is about to look); `AgreementBetweenChecks`, by an
  invariant that says, for each step of a check, which half of the publication is
  already done; `NoFallbackAfterKey`, from the invariant that `engine.mode` is set once a
  session was opened, and that a request which came later did not read it unset.
* `CloudEventsProofs`: `TypeCorrect`; `NotifiedPageFindsDecision`, from `NoteInv`
  (pushes on the wire increase and are later than all taken; every taken push is
  cached, replaced by a later one, or forgotten); `NoNoteTwice` and `NotesInOrder`,
  from `OrderInv`, which adds that the queue increases and that whatever a thread
  holds or a page received is earlier than whatever is queued. `DeliveredOnce` is
  not inductive by itself: it does not exclude that a note still to be queued equals
  one already delivered. `AnswersForward`, from `CacheIsBehind`: what a transaction is
  answered with is earlier than every push still on the wire. `PromiseIsKept`, the
  refinement of `NoteDelivery`, step by step of `CloudEvents`: `OrderInv` makes an
  accepted decision later than all that are pending or told, and `CacheIsBehind` makes
  `Accept` only move forward.
* `ConfigStoreProofs`: `TypeCorrect` (which needs that a request in progress is about
  a code); `AckedCodeIsKept`, with the exceptions above, from `AckedInv`: a clean
  request is alone under way and its writes stand; while nothing is lost the registry
  holds the acknowledged code except between a write and its answer.
* `AgentLifecycleProofs`: `TypeCorrect`, `PoolIsShared` and `NothingIsLeft`, all from
  `StageInv`. Its part `Stage` says for each point that the main thread has reached
  which tasks, pages and connections there can be, and `LinkIsKept` to whom a
  connection belongs: to the receiver's loop, or to the reactor while the agent
  serves. Without them nothing says that a round of the receiver which connects after
  `cancel` disconnected is still waited for. Threads are counted by the library's
  theorems about finite sets.
* `KeyOperationsProofs`: `NamedKeyAnswers`, `NamedKeyIsTried`, `NamedKeyDecrypts`,
  `PlaintextIsKept` and `VerdictIsGiven` from `KeyInv`. What holds of a request
  (`OnItsWay`) is said of the session it took and never of the key that is plugged, so
  that an exchange and another thread's steps leave it alone: after the container was
  compared the session is that of the named key, after `CompareCert` that of the
  envelope's certificate, and before the call nothing was spent, written or handed on;
  a request that comes to `WritePlain` has a text that the named key decrypted.
* `CloudSessionProofs`: `NoEffectUngranted`, from `SessionInv`:
  by how far a request came, it has no effect yet or has been granted.
  `SameCredential`, an action property, from `AskedByType`: what was asked for is what
  `authType` says in the conversion of `CloudSealAuth`, until a page sets it anew.
* `Sm2EncryptProofs`: `AnswersDecrypt` and `AllButC2IsGivenBack` from `EncryptInv`:
  what is held is what the allocations made so far gave; the point, the stream and k
  are of one draw whenever `flag` is clear; without an error code the clean-up follows
  an output of all three parts. `XorTwice` is the algebra.
* `AlgorithmProofs`, on the cipher: `DecryptionInverts`. The keys of `sm4_setkey_dec`
  are those of `sm4_setkey_enc` in reverse; by induction over the rounds the array of
  decryption is the array of encryption in reverse, since exclusive or with one word
  undoes itself, whatever the round function is. The recursive functions are shown to
  exist and to take their values in words first.
* `AlgorithmProofs`, on the commands: `TypeCorrect`, that `Types` holds.
  `FilesComeBack`, from `FileInv`: what was written so far is a whole number of
  chunks, each of its blocks was made with the page's key of a block that begins with
  the text's words (`Ciphered`), and what is still to be read is the rest of the text
  (`Rest`); of a decryption the same (`Deciphered`). A sealed file is a whole number
  of chunks, so that no read of a decryption comes up short before its end.
  `DataComeBack`, from `DataInv`: data shorter than a chunk is read at once; the
  ciphertext's first zero is the one behind its blocks, and so the text's first zero
  the one behind the text (`DataRound`).
* `AlgorithmProofs`, on the bitmap: `WritesInside` and `PixelsApart`, for every
  size, border and scale that make a bitmap of at most `MaxWidth` pixels a side, from
  the monotonicity of the product: `DataIsCounted` and `PosInside` say that no integer
  wraps. Of a wider bitmap the size of the data does, which `saveBmp` does not test.

Model-checked only: the liveness properties (`EventuallyPublished`, `CancelEndsTask`,
`NotesAreTaken`, `PageThreadEnds`, `DecisionComesBack`, `EncryptionEnds`,
`CommandEnds`, `StartsOrEnds`, `AgentStops`, `PushesResume`), which TLAPS cannot prove
under fairness. The library's induction theorems take an operator as a parameter,
which the provers cannot instantiate; where a proof needs induction over data (the
rounds of the cipher) it takes the least counterexample of an explicit array instead,
and what the chunk loops compute needs none, because the loops are steps of the
specification.

## 5. Not modelled, and the plan

Further proofs worth having: the safety half of what the liveness properties promise
(for each of them the invariant that the thread which is to move is not blocked), and
refinements of `CloudSession` and `KeyOperations` to a specification of one atomic
command.

Not modelled:

* vendored, generated or declarative: the QR code library, the COM and driver headers;
* used by no other file: the log channels, `MQTTNotification`, `UDevice` and
  `StrategyCollection`, the classes `EncryptFile` and `DecryptFile` (the handlers
  create the `...BySM4` ones);
* without state of their own: certificate parsing, texts by language, the handlers
  that echo and redirect, `GetTransid` and the other cloud commands that keep nothing;
* external: the key and its driver, the cloud, the verifying service, UKEYMonitor, the
  MQTT library, OpenSSL's curve and hash, Poco's thread pool and configuration. They
  are modelled from how the code uses them.
* left out of a modelled part: the properties other than `authCode`, `bussName` and
  `authType` that a page can set; what `saveBmp` does with a bitmap wider than `MaxWidth`;
  messages that a session without persistence loses while the agent is not connected
  (`cleansession` in `MQTTAsyncClient::connect`; `CloudPush` of `CloudEvents` counts
  what arrives on the wire).
