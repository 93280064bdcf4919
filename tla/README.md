# A formal model of the backend gateway service

The backend gateway runs on a vehicle's telematics control unit.  It obtains a
JSON web token from the backend, decides once per start whether a software
update takes place, and then offers two SOME/IP services to the other processes
of the vehicle: one forwards requests to the backend, one downloads files.  This
directory holds TLA+ modules that model the program, TLC configurations that
check them on small instances, and proofs of theorems that hold for every
instance.

All source paths below are relative to `src/build_src/`; `json.hpp` is
`dependencies/nlohmann/json.hpp`.

## The system

| Component | State | Operations | Module |
|---|---|---|---|
| Token acquisition (`src/Authenticator.hpp`) | `m_token`, `challenge.bin`, `decrypted_data.bin` | `getNewJWToken`, `requestChallenge`, `decryptChallenge`, `sendChallengeSolutionGetNewToken`, `getToken` | `Authenticator` |
| Token storage (same class) | `m_jwtToken`, `jwt_token_storage.bin` | `storeToken`, `readToken`, `checkTokenValidity` | `TokenStorage` |
| Singleton (same class) | `m_instance` | `getInstance` | `AuthenticatorInstance`, `FirstUse` |
| Start-up and OTA procedure (`src/main.cpp`) | `otaMtx`, `OTAstarted`, `OTAtimeOut`, the compose file, the datagrams to the OTA client | `main`, `RequestJWTokenWaitTillAcquired`, `startOTAProcedure`, `skipUpdate`, `startUpdate`, the threads `ie_thread` and `OTAtimer` | `GatewayStartup`, `OtaDecision`, `OtaRestarts` |
| Internet connectivity (`src/Internetconnectivity.hpp`) | `internetConnectionState` | `checkInternetConnection` | in `GatewayStartup`, `PostRequests` |
| Service adapter (`dependencies/someipService/`) | `m_blocked_`, `m_is_registered_`, `m_mutex_`, `m_condition_` | constructor, `init`, `start`, `run`, `offerServices`, `onState` | `ServiceAdapter` |
| Backend service (`src/main.cpp`) | one detached thread per request | `sendPostRequestToServer` | `PostRequests`, `RequestService` |
| Download service (`src/main.cpp`) | one detached thread per request, the files they write | `downloadFileService` | `DownloadRequests` |
| The whole process | all of the above that `main` puts in an order | `main` | `Gateway` |
| HTTP client, global state (`dependencies/http_client/HttpRequest.cpp`) | `s_isGloballyInitialized`, libcurl's own count | constructor, `initHttpRequestsGlobal`, `cleanHttpRequestsGlobal` | `HttpGlobalInit`, `FirstUse` |
| HTTP request and builder (`dependencies/http_client/`) | headers, body, multipart parts, response | builder calls, `send`, accessors | `HttpRequest` |
| JSON library (`dependencies/nlohmann/json.hpp`) | a text, the value it becomes, buffers | `parse`, `dump` | `JsonLibrary` and the modules it instantiates |
| the handlers' use of it | a document, its strings on their way | `count`, `operator[]`, `erase`, conversions, `dump`, destructor | `HandlerDocuments` and the modules it instantiates |
| its binary formats | bytes, the value they become | `to_cbor` to `to_bson`, `from_cbor` to `from_bson` | `JsonBinary`, `JsonBytes`, `JsonCbor`, `JsonMsgPack`, `JsonUbjson`, `JsonBson` |

How they interact.  `main` starts `ie_thread`, which pings for ever and publishes
`internetConnectionState`; constructs the service adapter, whose constructor
starts the offer thread; starts `OTAtimer`; waits for connectivity and acquires
the token; takes `otaMtx` and runs the OTA procedure unless `OTAtimer` has
already sent "no"; and finally blocks in `start()`.  From then on vsomeip delivers
registration states to `onState()`, which wakes the offer thread, and messages
to the two handlers, each of which detaches a thread.  A request thread parses
the payload as JSON, forwards what is left of it, and puts the reply into a JSON
answer.  All HTTP goes through `HttpRequest`, which sets no timeout: every
exchange may last for ever.  An exception that leaves any thread ends the process,
and so does a stack that is exhausted, as `dump()` exhausts it on a document that is
nested deeply enough.

What is hard, and what makes each component correct:

- *Acquisition*: five fallible steps that hand over through files, most of
  whose failures nobody looks at, and a login that is performed twice.  A token
  that is held must be one the backend still honours, and what is presented
  must belong to the current challenge.
- *Storage*: crash recovery through a file.  What is restored must be what was
  acquired (it never is: the functions use a member no acquisition fills).
- *Start-up*: two threads decide for the OTA client under a mutex that one of
  them holds across HTTP exchanges.  The client must get one decision, consistent
  with the compose file, or none for a reason that can be named, also when the
  gateway is killed and started again around it.
- *Service adapter*: a condition variable whose flag is set without the mutex.
  Services must be offered after a registration, and eventually.
- *Request threads*: shared connectivity flag, shared process, shared files, the
  compose file among them if a client names it.  An answer must tell what happened;
  an error of one request should be its own (it is not: it ends the process).
- *First use*: double-checked locking, and a test-then-set around libcurl's
  global initialisation.
- *HTTP request*: an object that may be filled in any order and sent twice.
- *JSON*: hand-written scanners with many edges, raw pointers and fixed buffers.
  What is forwarded must say what was received.

## Modules

### The gateway

- `Authenticator`: one acquisition, an action per blocking call, the action
  being its return.  `authPc` is the program point in `getNewJWToken()`; the two
  files are kept by *age* relative to the round ("current", "stale", "junk",
  "none") rather than by content.  The ghosts `faulted` and `lastGranted` record
  a step that failed unnoticed and the backend's newest grant.
- `TokenStorage`: `INSTANCE Authenticator` plus the member `m_jwtToken`, the file
  and restarts.  The acquisition is interleaved with the storage functions
  wherever a single caller could call them.
- `OtaDecision`: the abstract promise to the OTA client, two variables and three
  actions.
- `GatewayStartup`: the core.  Threads `main`, `OTAtimer` and `ie_thread`, with
  `INSTANCE Authenticator` for the acquisition that `main` performs and
  `INSTANCE OtaDecision` for what it must implement.  `alive` becomes FALSE at
  `std::terminate` and freezes the rest.  A decision's one `send_to()` may fail, which
  the code puts into a variable it does not read; the ghost `sendFailed` remembers it.
- `OtaRestarts`: `GatewayStartup` killed at any point and started again, its
  datagrams lost or overtaking each other, and the client that receives them.
  The compose file lies on a volume and survives.  The downloads, which may write it
  too, are left out here and are in `Gateway`.
- `ServiceAdapter`: the owner thread, the offer thread and the library's
  state deliveries; condition wait, lost notifications and spurious wakeups are
  explicit steps.
- `PostRequests`, `DownloadRequests`: any number of request threads.  Payloads
  and replies are kinds ("good", "noRoute", "binary", ...), one for every branch
  or exception of the code, and "deep" for a well-formed payload that exhausts the
  stack when it is dumped.  A download's document is not dumped.  A file is a sequence of blocks, each named by its
  writer, so that mixing and truncation are visible.
- `RequestService`: the abstract promise to a client: an accepted request takes
  effect at most once, before its answer, and the answer is true of that effect.
  `PostRequests` implements it through a refinement mapping that reads the phase
  of each request off its program point.
- `Gateway`: `GatewayStartup`, `ServiceAdapter`, `PostRequests` and
  `DownloadRequests` in one process, in the order `main()` imposes: the adapter is
  constructed after boot, `start()` comes after the OTA section, and a message
  reaches a handler only when its service is offered.  One of the paths a download may
  name is the compose file (`ComposePath`): `composeFile` is what main made of it, and
  `writers[ComposePath]` says whether a download has opened it since.
- `AuthenticatorInstance`: `getInstance()`.  What an unlocked read of the pointer
  may return while another thread assigns it, a torn copy included, is a choice.
- `HttpGlobalInit`: constructing threads and one cleaner around the flag, over
  libcurl's reference count (external: modelled from libcurl's interface).
- `FirstUse`: both in the same threads, each of which obtains the instance and
  makes a request, main before there is another thread.
- `HttpRequest`: one request object, every order of builder calls, `send()` with
  libcurl's callbacks (redirects, pieces of a reply, one that breaks off), and
  the destructor.  Headers, body and parts are small sets; the history of the calls
  says what the caller meant.

### The JSON library

`JsonLibrary` runs one of its routines per behaviour; they share no state.
`HandlerDocuments` does the same with the three routines that a document meets once
it is parsed, whose correctness depends on no bound: these are proved.

- `JsonGrammar`, `JsonParser`: `sax_parse_internal()` with its stack of states,
  `json_sax_dom_parser` with pointers as paths into the value, and `dump()`;
  beside them the grammar of RFC 8259, written down independently, with the
  value of every text.
- `JsonScan`: `lexer::scan()` around tokens: byte order mark, white space,
  literals, the character that is put back, and the end of the input.
- `JsonStrings`: `scan_string()` as a function of a state and a byte, and
  `dump_escaped()` with its UTF-8 automaton and its fixed buffer as another; no
  state of its own.  `JsonStringTexts` runs both over whole texts, against UTF-8 and
  UTF-16 by their definitions (in `JsonLibrary`); `JsonForwarding` over strings of any
  length, a byte a step, from a request into the forwarded body or from a reply into
  the answer, and through the lexer of who receives it (in `HandlerDocuments`).
- `JsonNumbers`: `scan_number()`'s labels, the choice of the type with overflow
  at `Width` bits, `dump_integer()`, `remove_sign()`, `format_buffer()`.
- `JsonGrisu2`: the digits of a double: `diyfp`, boundaries, the table of powers,
  digit generation and rounding, with unsigned arithmetic that wraps.  The code
  is for doubles and significands of 64 bits; the module has both as parameters,
  and the other constants follow from them as they do in the code.
- `JsonDocuments`: the statements of the handlers and of the acquisition on a
  document, with what `count`, `operator[]`, `erase`, a conversion and `==` do to
  each type.
- `JsonDestroy`: the destructor that flattens a document onto a heap stack.  It and
  `JsonDocuments` are in `HandlerDocuments`.
- `JsonBinary`: the binary formats, which the library offers and the gateway does
  not use.  A value is written, the bytes are cut or get one more, and are read;
  or bytes nobody wrote are read, and the value written in its turn.  A writer and
  a reader are one step each, functions from `JsonCbor`, `JsonMsgPack`,
  `JsonUbjson` (with BJData) and `JsonBson` over the values, widths and IEEE 754
  bytes of `JsonBytes`.  The errors are kept by their number.

A component whose constants are plain values is checked as it is, with the
`.cfg` of its name, which says why its bounds suffice; `LostWakeup.cfg` checks
`ServiceAdapter`, and `DoubleGlobalInit.cfg` `HttpGlobalInit`.  `MCFirstUse` adds
a symmetry to `FirstUse`, and `MCJsonLibrary` (with `MCJsonValues`) the inputs to
`JsonLibrary`.  The theorems about a module are in the module of its name with
`_proofs`; those about `DownloadRequests` and `HandlerDocuments` share
`DownloadsAndDocuments_proofs`.  Definitions called "Mutated
form" are variants of the definition after them that a plausible mistake would
make of the code; no specification uses them.  They show that each property
can fail: with the variant in place of the original, TLC finds the property
violated.

## Runs

| Run | Instance | What it shows |
|---|---|---|
| `storage` | 2 tokens | A held token is the newest one granted although the first login's grant is discarded; what a login presents is fresh exactly when no step failed unnoticed; and across acquisitions, stores, reads and restarts no token is ever stored or restored: a token comes only from a login of this process. |
| `startup` | 2 tokens | A token that comes after the time-out never updates; the acquisition ends with the newest token, assigned once; the refinement of `OtaDecision`, and two liveness properties (below). |
| `ota_restarts` | 1 token, 3 starts | A "yes" reaches the client while the compose file is open only across runs, and a "no" never comes from a run that wrote the file. |
| `gateway` | 1 token, 2 services, 1 request, 1 download of 1 block into the compose file | What is posted carries the newest token; offers come after a registration and after every handler; what is sent and written for the OTA client is what `OtaDecision` allows until a download opens the compose file, and nothing after; `start()` is reached but for named reasons, and then services are offered in every window but one. |
| `post_requests` | 3 requests | The refinement of `RequestService`; every client is answered but for named reasons; a request that ends the process is unanswered, and what the backend knows of it tells how. |
| `downloads` | 2 downloads, 2 paths, 2 blocks | Only overlapping downloads of one path mix; only malformed requests kill. |
| `first_use` | 3 threads, 2 cleanups | One Authenticator; torn copies only in a race of threads that were there from the start; libcurl never torn down under a request, nor used before an initialisation is complete. |
| `http_request` | 4 calls, replies in 2 pieces | What goes out is what the calls mean, what a request that is sent once holds is its reply, and memory leaks only by a repeated `MultipartFormDataInit()`. |
| `json` | see below | Each routine of the JSON library that reads or writes a text, on every input up to a bound. |
| `documents` | strings of 4 bytes, a buffer of 14, documents of 6 values | What was parsed can be written again and is read by the receiver as it was; the serializer's buffer is not overrun, nor is the destructor's stack deeper for a deeper document; a document has the effect of its kind; every value is freed once. |
| `lost_wakeup` | 2 services | Violated: a registered application whose offer thread sleeps on. |
| `double_global_init` | 2 threads | Violated: two initialisations. |

The properties of `json` each speak of several routines:

| Property | Routines and what it says of them |
|---|---|
| `TakesJsonUpToNul` | parser, lexer, strings, numbers: what comes before the first NUL outside a string, or the whole if there is none, is accepted exactly if the grammar, UTF-8 and UTF-16 say so.  What stands behind such a NUL is ignored, against RFC 8259 and line 12230. |
| `ForwardsWhatWasRead` | the value is the text's, and `dump()` writes it again; only a reply that is not UTF-8 throws. |
| `ShortestDigits` | Grisu2: read back as the same double, with the fewest digits within its boundaries, the nearest of those. |
| `StaysInItsMemory` | the parser's pointers into the value, the table of powers. |
| `BinaryReadsBack` | the binary formats: what was written is read back as the same value, but for what a format cannot say (`Kept`), in every width and with every option of the writer; a text without its end, or with something behind it, is refused. |

and those of `documents`:

| Property | Routines and what it says of them |
|---|---|
| `ForwardedAsItCame` | strings: one that was parsed is written without an exception; what is written, a reply included, is read by the receiver as the bytes that came. |
| `WithinTheirMemory` | `dump_escaped()`: its fixed buffer is not overrun; the destructor: at most one call in itself, with every value in one place until it is freed.  Nothing is said of `dump()`'s own recursion, one call per level. |
| `HandledByKind` | the handlers: a document has the effect of its kind, which is all that the other modules know of it, and is forwarded as it came but for the route. |
| `AllFreed` | every document is freed in the end. |

Bounds.  Most modules are finite without one, because contents are kept as ages
and kinds.  Two tokens distinguish an earlier login's from the newest; a third
would play the part of one of them.  In `Gateway`, where one part meets another, there
is one token, one thread of each service, and one path, the compose file: the thread's
steps beside main, `OTAtimer` and the adapter are what is new there, and several
threads of a service, paths and blocks are in the runs of that service.  Three requests
let one die while a second is in flight and a third unanswered.  Two streams and two paths have every overlap;
replies of two blocks have every half-written state, and the initial file is one
block longer than a reply, so that a missing truncation shows.  `MaxCleans` = 2
bounds the calls of `cleanHttpRequestsGlobal()`: the second call is the one that
sees whether the first reset the flag.  In the JSON run, nine tokens have a
member beside a nested one; eight characters have a mark, a literal and a NUL;
the bytes of strings lie at both sides of every boundary of the code's ranges,
and so do the code units; a buffer of 15 bytes is emptied in every longer text;
integers of 8 bits overflow within five characters; Grisu2 runs for every number
of a type with 6 digits and 40 exponents, with significands of 14 bits.  The
binary formats write every value of `MCJsonValues`: integers at both sides of each
width up to 64 bits, lengths at both sides of each form (15/16, 23/24, 31/32,
255/256), each alone, twice in an array and twice in an object; their texts are
cut after each of the first twelve bytes (`MaxCut`) and before the last, and three
received bytes (`MaxReceived`) hold a container with a type, a count or a first
element.  `MaxCount` = 300 is longer than any text, so that a larger length always
meets the end of the input.  The run has half a million states and takes about
a minute.  In the documents run, sixteen bytes have every class of the UTF-8
automaton, a quote, a backslash, a control character, and enough digits for a
surrogate pair as two escapes; four bytes (`MaxBytes`) are the longest code
point; a buffer of 14 bytes, one more than the code asks to be left, is
emptied after nearly every code point; and six values (`MaxValues`) have a document three
deep with a neighbour at each level.

Fairness.  Every thread that can run is scheduled (weak fairness on its local
steps while the process lives).  No fairness is assumed of anything that
waits for another machine or another program: the return of an HTTP exchange,
the delivery of a vsomeip state, the arrival of a request, a ping's result, the
call of `start()`, and a spurious wakeup.  The liveness properties therefore name
the exchange that does not return as one of the ways not to make progress.

Deadlock is not checked where the process may end (`std::terminate`) or all
threads may have finished, and where a routine ends.

### What the runs say of the code

- The mutex does its work: `DecisionUnlessProcedureFails` and `OtaSectionEnds` hold
  under the lock's weak fairness, and `OtaPromise` for every interleaving.  The
  OTA client stays without a decision only if the process dies, an exchange of
  the procedure never returns, the procedure ends without a word (a failed exchange
  or a reply without "update"), in which two cases `OTAtimer` is silent as well since
  `OTAstarted` is set; or if the datagram could not be sent (`main.cpp:38` and 55
  leave `send_to()`'s error unread), was lost, or found no client.  The failed send is
  named in the property; what becomes of a datagram that was sent is in `OtaRestarts`.
- What the mutex cannot do is protect across runs: a "yes" that is still under way
  when the gateway is restarted may arrive while the new run writes the file.
  `OpenFileOnlyAcrossRuns` says that this is the only way for a "yes".  A "no" is no
  such guarantee: `NoFromRunsThatWroteNothing` says that the run that sent it did not
  write the file, but a run before it may have been killed while it wrote, and the
  client then meets a file that is still broken.
- Nothing keeps a client from naming the compose file as a download's path.
  `OtaPromiseUntilDownloaded` says that it can do so only once main serves, when every
  decision there will be has been made: the promise to the OTA client holds up to
  the first such download, and no decision is made over a file that a download has
  opened.  The download itself replaces the file, whatever the OTA client was told.
- `ServesAfterStartup` and `RegisteredIsOffered` belong together.  `onState()` sets
  `m_blocked_` and notifies without `m_mutex_`
  (`dependencies/someipService/ServiceManagerAdapter.cpp:70-71`); if that falls
  between `while (!m_blocked_)` and the wait (43-44), the offer thread sleeps on
  and the services are never offered, although the comment at line 41 says that the
  thread waits "until service is registered state".  `ServesAfterStartup` says that
  this window is the only one, and that a later registration repairs it.  In the
  program the thread is started seconds before `start()`, so the window is
  missed in all but the slowest schedules.
- `InitializedOnce` is contradicted by two threads that construct their first
  request together, where `HttpRequest.hpp:15-17` speaks of "an atomic operation
  to avoid multiple initialization if concurrent access occurred".  In the gateway
  `main` constructs the first request before request threads exist (`MainIsFirst`).
- `ServicePromise`: the gateway's own offline answer means that the backend was not
  handed the request, `null` that nobody knows.  A client cannot always tell the first:
  a backend that itself answers 502 with an empty body is passed on as the same JSON
  value, and then the request has been handled.  So the value alone does not make a
  repetition safe.
- The storage functions are without effect on tokens, by
  `StorageNeverCarriesAToken`.
- A request that was parsed is forwarded without an exception (`ForwardsWhatWasRead`,
  `ForwardedAsItCame`), but not whatever its depth: the parser keeps its levels on the
  heap, `dump()` recurs once per level (`json.hpp:18092`), and a well-formed request
  that is nested deeply enough ends the process in the thread that would forward it.
  A reply that is not UTF-8 cannot be put into the answer, and ends the process too.
  `KillerIsUnanswered` says what either leaves behind: the first kind has not been
  posted, and ends the next process if it is sent again; the second has been
  handled once, and is handled again if it is.

Two disagreements were met that no run is about.  `send()` returns a `CURLcode`,
0 on success, where its comment promises `true` (`HttpRequest.hpp:69-70`); the
callers compare with `CURLE_OK`.  And a NUL byte ends a payload for the parser
whatever follows it (`json.hpp:8889-8891`), where line 12230 says that "in strict
mode, input must be completely read".  `JsonScan` has the code's behaviour, and
`TakesJsonUpToNul` the exception in its name and its comment: that the run passes does
not mean that the whole payload was JSON.

## Proofs

TLC checks the properties on the instances above; the theorems hold for every
value of the constants.  Every safety invariant and action property of the
gateway's runs, and of `documents`, is one of them, with the type invariant of each
module.

| Module | For every | Theorems, besides `Invariance` and `TypeCorrect` |
|---|---|---|
| `TokenStorage_proofs` | set of tokens | `HeldTokenNewest`, `SolutionFresh`, `StorageHasNoToken`, `OnlyFromLogin` |
| `GatewayStartup_proofs` | set of tokens | `LateToken`, `NewestToken`, `TokenOnce`, `PromiseKept` (refinement of `OtaDecision`) |
| `OtaRestarts_proofs` | set of tokens, number of runs | `OpenAcrossRuns`, `NoTouchedNothing` |
| `PostRequests_proofs` | set of requests | `KillerUnanswered`, `PromiseKept` (refinement of `RequestService`) |
| `DownloadsAndDocuments_proofs` | set of downloads and paths, length of a reply | `OnlyLastWriters`, `MalformedOnlyKills` |
| the same, of `HandlerDocuments` | string, document and size of the buffer | `StringsAreForwarded`, `MemoryIsKept`, `KindDecides`; `DocumentsInvariance`, `DocumentsTypeCorrect` |
| `Gateway_proofs` | set of tokens, services, requests, downloads and paths, length of a reply | `MainFirst`, `ForwardedNewest`, `OfferedLate`, `HandlersFirst`; `OtaPromiseKept` (`OtaDecision` until a download into the compose file); `ServicePromiseKept`, `AdapterRefined` (refinements) |
| `FirstUse_proofs` | set of threads, number of cleanups | `OneInstance`, `TornInRaceOnly`, `LibraryUp`, `ReadyLate` |
| `HttpRequest_proofs` | number of calls and of pieces of a reply | `WireAsMeant`, `HoldsItsReply`, `ReinitLeaks` |

Assumptions on the constants: the backend never grants the empty string
(`NoToken`), and no token looks like a missing file; a reply has at least one
block, and neither what a file held before nor a hole is a download's block; there
is at least one run; the services of the requests and of the downloads are the
application's, no request is a download, and the compose file is one of the paths;
`string_buffer` has at least the 13 bytes that its comment asks for (512 in the
code), a document at least one value, and bytes are less than 256; the other
numbers are natural numbers.  Nothing is assumed of sizes: the sets of constants
may be infinite, and where a finite number is needed (the writers of a file, the
threads about to set the flag) it is part of the invariant.

### The arguments

Hardly a property is inductive.  Each module ends with the invariant `IInv` of its
proof, in named parts; TLC found each of them to hold on the run's instance before
it was proved (by adding `INVARIANT IInv` to the `.cfg`; of `JsonForwarding`'s only
the parts that ask for no run of the automaton, which range over too many functions
to be enumerated).  A proof shows that the initial states have it and
has one case per action for the steps.

- *Acquisition and storage.*  Before openssl runs, no solution is of this round, and
  the challenge is exactly if nothing failed unnoticed (`RoundInv` of
  `Authenticator`); a token is held exactly when the last call returned true, and
  then the newest (`TokenInv`).  Storage functions and restarts leave that intact.
- *Start-up.*  `LateTokenNeverUpdates` says nothing of `main` at "lock" with both
  flags FALSE.  `IInv` adds who holds `otaMtx` where (`LockInv`), at which points the
  flags can be set, that `OTAtimer` is born at the end of boot and done where main
  passes without having started the procedure (`FlagInv`), that a decision, sent or
  failed, has one author, who is past the sending point (`SentInv`), that only the
  procedure touches the compose file, open at one point (`ComposeInv`), and that a
  token is held exactly when the acquisition ended with "true" (`TokenInv`).
- *Restarts.*  `VolumeInv` relates the file on the volume to the run that wrote it
  last; `FlightInv` says of every datagram under way that it does no harm with the
  file as it is, and that its run, if it is this one, has decided and so changes
  the file no more; `ActedInv` is what the client has met.  The start-up's own
  invariant supplies the second.
- *Requests.*  Before its exchange has returned a request is neither posted nor
  answered, then the reply tells how often it was posted (`BeforeReplyInv`,
  `ReplyInv`, `DroppedInv`); the refinement mapping follows from that action by action.
- *Downloads.*  `SoleWriterInv` is the heart: who has had a path to itself stands
  where the file ends, so that its next block leaves no hole.  It needs
  that every open stream is among the writers of its path (`WritersInv`).
- *The process.*  `IInv` is the conjunction of the parts' own invariants and three
  facts about the order in which `main()` does things (`OrderInv`, `RequestInv`,
  `OpenedInv`).  The proofs of the start-up and of the requests are instantiated and
  cited, so that what remains is that no part changes what another's invariant reads,
  or does so as a step of that part: `ServicePromiseKept` and `AdapterRefined` say
  just this, and with `AdapterRefined` the adapter's theorems hold in the process.
  For `OtaPromiseKept` that is not enough, since a download writes what the start-up
  promises: a download's path is opened only while main serves (`OpenedInv`), and then
  neither main nor `OTAtimer` sends or writes any more (`ServingIsFinal`).  For a
  download inside the process only the types are proved, with what `OtaPromiseKept`
  needs; `ContentsFromLastWriters` and `OnlyMalformedKills` are proved of the service
  by itself.
- *First use.*  `OneAuthenticator` needs who is inside the mutex (`MutexInv`) and what
  the pointer was when they tested it (`PointerInv`); `TornOnlyInRace`, that the maker
  is a thread of the start (`OrderInv`).  `LibraryUpForRequests` needs that libcurl has,
  beside the initialisation that `curl_easy_init()` makes and nobody undoes, one
  for each thread about to set the flag and one more while a cleanup may come
  (`BalanceInv`): these are cardinalities, which an action changes by one.
- *HTTP request.*  The members are functions of the history of calls (`MembersInv`):
  all headers, the last body, the parts since the last init; libcurl's options
  are functions of the members (`EasyInv`); so the message is a function of the
  history, which `MessageIsMeant` shows to be the one meant.  The history's arguments
  are picked out by counting positions; `PositionsOfAppend`, `LastOfAppend`,
  `NthOfMore` and `ArgsOfAppend` say what one more call does to them.
  `FirstSendInv` follows the first exchange from its connection to its end.
- *Strings.*  Two hand-written tables must agree: the ranges that `scan_string()` asks
  for after a first byte, and the states of `decode()`, by which `dump_escaped()`
  throws.  `RequestInv` says that what is in `token_buffer` so far takes `decode()`
  along a run that never rejects, to the state that wants exactly the bytes the
  lexer wants; `ScanMoves` is that one step of the lexer extends the run, with the
  bytes of a `\u` escape as well as with those of the text (`Utf8Leads`), and
  `TakeByteStep` that the dump follows it.  `ReaderInv` says that what is written but
  not yet read takes the receiver's lexer to where it would be had it been given
  the bytes themselves; `EmittedReads` is that for each way a code point is written,
  and needs that one of several bytes is none of those that are escaped
  (`CodepointInv`: no overlong forms).  `RoomInv` is the room left in `string_buffer`,
  less by what an incomplete code point has taken.  The runs are functions whose
  existence is claimed, and each step extends or shortens one, so that no induction
  over a string is needed.
- *Documents.*  `AskedInv` says what the statements already executed have found of
  the document, `DocInv` that they changed it by the erasure alone; so `operator[]`
  adds nothing, and a conversion throws 302 or not at all.
- *Destruction.*  `PlaceInv` says that no value is in two places (among the members of
  one that lives, on a stack, or being destroyed) and `CallInv` that a nested call
  is of a value whose members were moved out before; `PlacesCounted` makes of
  that the cardinality in `EveryValueOnce`.

### What is model-checked only

- Liveness: `DecisionUnlessProcedureFails`, `OtaSectionEnds`, `AnsweredUnlessExcused`,
  `ServesAfterStartup`, `StartReached`, and `AllFreed`.  Temporal reasoning with
  fairness (and `ENABLED`) is beyond the prover.
- What the texts of the JSON library denote: `TakesJsonUpToNul`, `ForwardsWhatWasRead`
  and `BinaryReadsBack` compare a parser or a writer with a
  grammar or a value that is itself defined by recursion, on an input of any
  length.  That is an induction over the input with the property as its parameter,
  which the installed provers cannot carry out, and the modules are written with
  recursive operators, which the prover does not accept.  `ShortestDigits` is
  nonlinear arithmetic over products of significands and powers of ten, which the
  solver decides for single values only; no proof of it was attempted.
  `StaysInItsMemory` speaks of the parser and of Grisu2, and stays with them.  What a
  string is, byte by byte, needs no such induction, and is proved.
- The two disagreements, `RegisteredIsOffered` and `InitializedOnce`, which are false.

## Not modelled

- `strtod()`, which is the C library's: `JsonNumbers` takes it at its promise.
- Of `json.hpp`, which has 24.7 of the repository's 25.9 thousand lines, and beside
  the binary formats, what the program never calls: JSON pointer and patch, callbacks, comments,
  pretty printing, `ensure_ascii`, the lenient error handlers, iterators and
  conversions of user types, and the templates that choose between them at
  compile time.
- The build files, the container images and `vsomeip.json`; `test()`, which
  nothing calls.
- The receiving side: backend and vsomeip clients, but for the lexer they read a
  string with.
- The contents of tokens, payloads, replies and log lines; HTTP status codes,
  which the program passes on or ignores, but never looks at.
- A token's expiry: the program prints it and never renews a token.
- The depth at which `dump()` exhausts a stack, which is the platform's: `PostRequests`
  has it as a kind of payload, and the models of the JSON library have no stack.
- The end of a regular shutdown: `start()` returns only when the application is
  stopped, which nothing in the program does.
- Weak memory beyond `getInstance()`: the unsynchronised `bool` of the adapter is
  read as its latest value; the class of outcomes that matters, a test that misses
  a write, is there already as the lost notification.

## Plan

1. *Done*: all components of the gateway, their composition, restarts, the two
   abstract specifications, what the gateway runs of the JSON library, and its
   binary formats.
2. *Done*: the safety properties of every module of the gateway, for all values of
   the constants, and the refinements of the abstract specifications, in their
   components and in the whole process.
3. *Done*: what becomes of a document of any size once it is parsed: its strings,
   the handlers' statements and its destruction.
4. What remains of `StaysInItsMemory`: the parser's pointers, whose module would
   have to do without recursive operators, and Grisu2's table of powers; and the
   refinement of the client's view in `OtaRestarts` by an abstract specification of
   its own.
