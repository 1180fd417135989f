# docker-plugin-cpp in TLA+

This directory holds a model of docker-plugin-cpp in TLA+, the TLC
configurations that check it on small instances, and proofs that TLAPS checks
for every value of the constants. Paths such as `lib/src/uds_server.cpp` are
relative to the repository's root.

## The system

A docker plugin is a process that dockerd talks to over a unix domain socket
with HTTP requests. The library is single threaded: the application calls
`plugin::run` in a loop, and everything happens inside of that call.

| component | state | operations | talks to |
|---|---|---|---|
| `uds_server` (`lib/src/uds_server.*`) | `m_socket`, `m_connections`; locals of `run`: the `fd_set`, the iterator, the new connection | `bind`, `run` (select, accept4, one `handle_io` per ready connection), destructor | the kernel; `create_connection`, `on_connect`, `on_disconnect`, `on_read` |
| `uds_connection` | `m_socket` | `write` (loop over a blocking send), `close`, destructor | the kernel |
| `http_connection` (`lib/src/http_server.*`) | parser, `m_buffer`, two buffering flags, `m_headers`, `m_current_header`, the pending response (status, headers, headers sent, chunked) | `on_read`, the llhttp callbacks, `response_status`, `send_headers`, `send_data`, `end` | llhttp calls it; it calls `write` and `close` |
| `plugin` and `plugin_http_connection` (`lib/src/plugin.cpp`) | the registered drivers, `m_url` | `register_*`, `run`, routing in `on_message_complete`, `invoke_plugin_handler` | the drivers, the codec |
| serialize (`lib/src/serialize.*`) | none | `from_json`, `to_json` for every request and response | picojson |
| api types (`lib/include/docker-plugin-cpp/*/api.h`) | records, abstract drivers | none | |
| logger (`lib/src/logger.cpp`) | `min_level` | `log` | stdout |
| picojson (vendored), llhttp (fetched by CMake) | | | |
| sample volume (`sample_volume/`) | directories and time stamp files below `m_root`, `should_exit` | the eight calls of a volume driver, `main` | the file system, `plugin` |

What makes the code hard to test:

* *One thread, many clients.* Between any two system calls of `run` clients
  connect, send, stop reading and leave, and the rest of the process opens and
  closes descriptors. `run` decides from an `fd_set` that is older than the
  descriptors it looks up in it, and erases from the vector it iterates over.
* *Failure of a step.* accept4, recv and send fail; a connection is closed by
  the error path of `handle_io`, by the HTTP layer in the middle of a buffer,
  or by the destructor.
* *Progress.* The sockets are blocking for send; one thread serves everybody.
* *Streams.* A read ends anywhere in a request; requests are pipelined. One
  buffer serves url, header names, values and the body, and all state of a
  request and of its response must be gone before the next one.
* *Persistence.* The example driver keeps its volumes in several files that a
  crash leaves half written, and dockerd repeats what was not answered.

What makes each component correct:

* `uds_server`: descriptors and connection objects correspond one to one,
  hooks are paired, nobody ready is skipped or read without being ready, no
  client starves, `run` returns.
* `http_connection`: a handler gets the request that was sent and the client
  decodes the answer that was given, whatever the framing and the neighbours.
* `plugin`: the driver that a url names is called once, with what was sent,
  and its result or error reaches the client.
* sample volume: a volume that was created is there, with its content, until it
  is removed, across restarts.

`PROJECT.json` lists the components, and under `hazards` each hard spot at its
line with the properties that cover it.

## Modules

| module | what it is |
|---|---|
| `UdsServer` | the event loop: `uds_server::run`, `handle_io`, `uds_connection::write`, `close`, the destructor, with clients and the kernel |
| `ConnectionService` | what the event loop promises, abstractly |
| `UdsServerProofs` | theorems about `UdsServer` |
| `ServiceProofs` | `UdsServer` implements `ConnectionService` |
| `MCUdsServer` + `.cfg` | instances for TLC |
| `HttpConnection` | one connection of the HTTP layer, with the overrides of `plugin_http_connection` |
| `HttpExchange` | what a keep-alive connection promises, abstractly |
| `HttpConnectionProofs` | theorems about the requests that a handler is given |
| `HttpExchangeProofs` | theorems about what is written, among them that `HttpConnection` implements `HttpExchange` |
| `MCHttpConnection` + `.cfg` | instances for TLC |
| `Codec` | `from_json` and `to_json` of `lib/src/serialize.cpp`, as tables |
| `PluginDispatch` | `plugin.cpp`: registration, routes, `invoke_plugin_handler`, with dockerd and the drivers |
| `PluginDispatchProofs` | theorems about `PluginDispatch` |
| `CodecProofs` | theorems about what dockerd and a driver understand of each other |
| `MCPluginDispatch` + `.cfg` | instances for TLC |
| `SampleVolume` | the example driver: its handlers, `util`, and `main`, with the file system, dockerd and containers |
| `VolumeStore` | what a volume driver promises, abstractly |
| `SampleVolumeProofs` | theorems about `SampleVolume`, among them that it implements `VolumeStore` |
| `MCSampleVolume` + `.cfg` | an instance for TLC |
| `Endpoint` | the constructor of `plugin` and `uds_server::bind`: the socket file, and the processes behind it |
| `EndpointProofs` | theorems about `Endpoint` |
| `MCEndpoint` + `.cfg` | an instance for TLC |

### UdsServer

`pc` is the place in the code where the single thread is (the list is at the
head of the module); a step of the server contains at most one system call, so
that clients and the kernel act between any two of them. `m_connections`,
`m_socket`, `it`, `remaining` and `closed` are the variables of the code;
`ready` is the `fd_set` after select; `cur` is the connection `handle_io` works
on. `fdtab` is the process's descriptor table: system calls of the server go
through it, so a stale descriptor number would reach somebody else's
connection. `OtherOpen` and `OtherClose` are descriptors of drivers and of
other threads.

What `on_read` does is virtual in the code. Here a received buffer is a
sequence of segments that say what the handler does with them: keep a part,
answer a request (`write`), or reject (`close`). `HttpConnection` models what
is behind that.

The kernel's part is modelled as far as the code uses it: the lowest free
descriptor, a queue of `Backlog + 1` connections, EMFILE leaving the connection
in the queue, EINVAL for the uninitialised `addrlen` losing it, EOF and
ECONNRESET, EINTR only while nothing is ready, a send that takes any part of
what fits and blocks while nothing fits. `SendErrors` says whether send may
also fail while the client is still there (EINTR while it waits for room,
ENOBUFS, ENOMEM).

Bounds: `StreamMax` segments wait per client, `OutMax` units fit in a client's
buffer, a response has `RespLen` units, the rest of the process holds
`OtherMax` descriptors. A connection name is used again when its last use is
over, so that histories are unbounded. FD_SETSIZE is assumed to be above the
limit of descriptors (`FdsAssumption`), which the code does not check.

### ConnectionService

Clients are accepted in the order in which they connected or given up at the
door; the stream of each reaches its own handler in order and without gaps; a
connection ends only when its client has left and everything it sent was
delivered, or when the handler rejected. `UdsServer!Service` maps to it: the
kernel queue is `waiting`, the live objects are `connected`.

### HttpConnection

The variables `m_url`, `m_buffer`, `m_headers`, `m_response_status` and so on are
the members of `http_connection` and of `plugin_http_connection`; `call` holds
the local variables of `send_data` and `end`, and where the thread is between
two of their writes.

The parser is external. `parser` is where llhttp is: in which message, in which
part of it, in which field, at which unit of a text. A step of the model is one
callback of llhttp with one unit of a text, so that a read of the socket may end
between any two of them, or it is one write of a response, so that the client may
leave between any two of those. Units carry their origin, so that texts are equal
only if they are the same text.

What is written goes straight into `view`, a decoder of HTTP/1.1 responses as a
client has it: it follows the framing (content-length, chunked) and collects
complete answers. What is written after the client left is lost (`gone`), as in
`uds_connection::write`. The writes themselves, with their partial sends, are in
`UdsServer`.

A handler chooses a status of `Statuses` and then calls `send_data` with pieces
(`Pieces`), `end(data)` or `end()` in any order that ends, with at most
`AnswerMax` units; `Bodies` are what `end(data)` is given when nothing was sent
before it. `Shapes` are the forms of requests. `ChunkMax` stands for UINT16_MAX.

### HttpExchange

Requests are answered in order, each at most once, with the answer to what was
really asked, until the connection ends.

### Codec

serialize.cpp has one function for each type, written by hand. The module has
them as tables: a row is a field of the JSON object, the member of the struct
and the kind of the member. `FromJson` and `ToJson` read a table as the
functions do: a field that is missing or has another type leaves the default
initializer of `api.h`; a body that is no object throws `invalid_argument`;
`parse_ipam_data` keeps the elements of an array that are objects with something
in them, in their order, given by position rather than by a recursion;
`convert_map` returns for an object and throws for anything else, as its
inverted test does. JSON values are records with one field named after their
type; texts are opaque.

### PluginDispatch

`Routes` are the comparisons of `on_message_complete`. A request is handled in
one step, because nothing else runs meanwhile: it is answered with 404, not
decoded, answered by `plugin_activate`, given to the driver, or it ends the
process, when the driver throws something that is no `std::exception` out of a
noexcept function. Drivers are outside of the library: a call returns any value
of `Results` or throws any exception that the code tells apart. `last` is the
exchange until dockerd has read the answer. `announced` is what dockerd
remembers of Plugin.Activate. Nothing of it is forgotten when the process dies and is
started again with the drivers `AtStart`; `outdated` says that this has
happened. A driver that was registered later and announced is then asked for and not
found, which the run reaches and `AnnouncedIsServed` has as its only exception.

`Api` and `ApiNested` are the other side, the fields of the plugin API as dockerd
writes and reads them, those of the messages and those of the objects in them;
`ApiLeaf` and `SecondOf` say how values are written. None of it is taken from the
tables, `Leaf` or `ConvertTime` of `Codec`, so that the two can disagree at any
key: the mutants misspell a key of a pool, and exchange those of an
interface name. Shared are only the constructors of JSON values and the form of a row.

### SampleVolume

`entry` is the directory `m_root`: what is at the name of a volume and at the
name of its time stamp. A volume is a directory with paths of files and
directories in it; a stamp is a file with a number, or an empty one. Names are
sequences of the parts between the dots, so that a volume may be called
`a.create_ts` and stand where the stamp of volume `a` goes.

A step of a handler is one call of the file system: `is_dir`, `mkdir`, opening
the stamp, writing it; deleting one entry, `rmdir`, `unlink`. Each may fail,
with the consequence that the code draws: a failed `mkdir` or a failed deletion
is an error, a stamp that cannot be opened, written or deleted is not looked at.
`remove_dir` deletes a directory only after what is in it (`Deletable`), in the
order in which the file system lists the entries, that is, in any.

`main` is at `test`, `select` or `round`; `Signal` may come anywhere, and the
process may be killed anywhere (`Kill`). `run` is abstracted to `Take`,
`RunReturns` and `RoundEnds`, which `UdsServer` has in detail; requests are taken
in any order, which includes those of the code.

dockerd keeps one request for a volume under way, sends it again when the
connection breaks, and may give it up: the driver may then still handle it.
Containers write into volumes that are mounted. `promise` is history: what
dockerd may rely on after a create was answered with success. A repeated create
whose first try took effect before a crash is answered with 409; then dockerd
has no promise, and nothing in the driver could give it one.

`get` and `list` read the stamp. If it could not be read, the time is that of
the directory, which changes with every write, or, for an empty file and for a
volume whose name clashes, a number that was never initialised: `CreateTimes` is
then any number, and `Garbage` stands for those that are no time of anything.
`TimesKept` is about volumes whose stamp was written; of the others get and list
may report `Garbage`, and no property says otherwise.

### VolumeStore

A request takes effect at most once, between its begin and its answer; an answer
`ok` is given if and only if it did; nothing but a remove takes anything from a
volume, and a remove that fails may have lost part of the content.
`SampleVolume!Store` maps to it: the volumes are the names that are
directories, and the effect is `mkdir` or `rmdir`.

### Endpoint

The processes that are started for one address, by mistake, to replace one that
runs, or again after an end. Each goes through `socket`, `unlink`, `bind` and
`listen`, any of which may fail; a constructor that throws, the destructor and a
kill end it (`End`), and its socket file stays in place. `file` is what is at the
path: the file of a process, a stale one, or nothing. `replaced` is history: the
processes whose file another one has unlinked.

`request` is dockerd: a request stands for all attempts to have it answered, so
that a refused connection, a missing file and a connection that broke are
followed by another attempt. A process that was replaced keeps serving those who
had connected, as in the code.

## Runs

| run | checks | expected |
|---|---|---|
| `uds_loop` | `TypeOK`, `FdOwnership`, `PolledDescriptorsOpen`, `HooksBalanced`, `ReadySetNotStale`, `NoReadyConnectionSkipped` | pass |
| `uds_streams` | `WholeResponses`, `ImplementsService` | pass |
| `uds_live` | `RunReturns`, `NoStarvation`, `ClosedIsReleased`, `WaitingIsTaken` | pass |
| `uds_blocking` | `RunReturns` when clients need not read | violated |
| `uds_errno` | `ErrorsAreReturned` | violated |
| `http` | `TypeOK`, `RequestsIntact`, `ResponsesDecodable`, `ImplementsExchange`, `EveryRequestAnswered` | pass |
| `http_trailers` | `RequestsIntact` with trailer fields | violated |
| `dispatch` | `AnnouncedIsServed`, `OutcomeAgreed`, `RequestUnderstood`, `AnswerUnderstood` | pass |
| `dispatch_status` | `StatusIsUsed` | violated |
| `dispatch_options` | `RequestUnderstood` with options | violated |
| `sample` | `TypeOK`, `KeptUntilRemoved`, `TimesKept`, `ImplementsStore`, `ExitsWhenTold` | pass |
| `endpoint` | `TypeOK`, `FoundUnlessReplaced`, `AnsweredInTheEnd` | pass |

Bounds and why they are enough:

* `uds_loop` has three clients and two descriptors besides the listening
  socket, one of which the rest of the process may take. Three clients are the
  least with which one connection is accepted while another is erased and a
  third stands behind it; two descriptors make EMFILE and the reuse of a number
  within one call of `run` happen. Clients are interchangeable (symmetry).
* `uds_streams` has two clients, two segments each and responses of two units
  for a buffer of one: several segments come in one recv, a reject follows a
  request, a response takes several sends. Its send fails only for a client that
  has left (`SendErrors` is FALSE). `write` says SIZE_MAX of a failed send, and no
  caller looks at it: with `SendErrors` TRUE a client that stays loses the rest of
  a response, and `WholeResponses` fails within a few steps.
* `uds_live` has no symmetry, since it checks liveness; two clients are enough
  for one to starve the other.
* `http` has two requests: whatever one leaves behind in the members, the next
  one finds. That a third cannot find more is proved (below). Texts have two
  units, so that a span can be cut. Seven shapes of requests are combined with
  every order of calls that give at most three units, in chunks of two: an empty
  piece, a piece of one chunk, several pieces, a body with content-length that is
  longer than a chunk. The run does not check deadlock: a connection ends.
* `dispatch` sends every type of request with no member, each single member and
  all members filled (a notice's data only together with its type), bodies that
  are no JSON, no object, or have a field of another type, and an unknown url.
  Texts are named after the member they fill, so that two members cannot be
  exchanged unnoticed. Results are the blank and the filled struct. Not filled
  are members the codec is known to lose: options and auxiliary addresses (both
  go through `convert_map`, which `dispatch_options` shows), `ipv6_data` (the lines
  that should read `IPv6Data` read `IPv4Data` a second time), and a global address
  space other than the local one (which is written for both). As `Api` has all of
  these, `RequestUnderstood` and `AnswerUnderstood` fail as soon as one is filled.
  A driver that fails says why.
* `http` keeps the pieces that are sent in chunked mode within `ChunkMax`.
  `send_data` (http_server.cpp:197) writes every chunk from the same `data`, so
  that the client gets the first bytes of a longer piece again and again; the
  model has this, and `ResponsesDecodable` fails as soon as a piece is longer.
  No code of the repository calls `send_data` itself: all of it uses `end(data)`,
  which sets content-length.
* `sample` has two volumes, of which one has the name of the other's time stamp:
  all clashes there can be between two names. A volume may hold a directory and
  a file in it, the least for which the order of deletion matters. `MaxTime` is
  2, for a time that may be taken for an older one. Requests, kills, signals and
  failures are not bounded, except that every create takes a new second.
* `endpoint` has three processes: one that serves, and two that start at the
  same time and take the address from it and from each other. Two requests
  compete for a backlog of one.

Fairness. `uds_live` assumes `WF_vars(Server)`: the application calls `run` in a
loop, as plugin.h asks, and the server is one thread that runs while it can take
a step. It also assumes that clients read answers that wait for them;
`uds_blocking` drops that and finds that `run` no longer returns, because send
blocks. `WaitingIsTaken` has the premise that from some point on there is a free
descriptor: nothing in the code forces one. `http` assumes that the loop reads
what has arrived, which is `NoStarvation` of `UdsServer`.

`sample` assumes weak fairness of the process (`Handler \/ Main`: file system
calls return) and strong fairness of `RoundEnds`: a call of `run` serves what
select reported and returns, however much comes in meanwhile. That is
`RunReturns` of `UdsServer`, checked there under the premise that clients read.
`ExitsWhenTold` has the premise that containers do not write for ever: into a
volume that is being removed they could write as fast as `remove_dir` deletes.
`endpoint` assumes that whoever starts plugins starts an ended one again
(`Starting`), that dockerd tries again until it is connected and the kernel wakes
those who wait for a place in a backlog (strong fairness of `Connect`), and that
a process accepts and answers, which are `WaitingIsTaken` and `RunReturns` of
`UdsServer` and `EveryRequestAnswered` of `HttpConnection`. `AnsweredInTheEnd`
has the premise that calls of the system succeed and nobody is stopped from some
point on: a process that dies for ever answers nobody.

## What the violations show

* `uds_blocking`: accept4 makes blocking sockets, so a client that does not read
  stops the plugin for all others. README.md calls the library "designed single
  threaded, using select for handling io", and plugin.h calls `timeout` the
  maximum time to wait.
* `uds_errno`: a failed accept4 is dropped, and `run` returns 0; plugin.h
  promises the errno.
* `http_trailers`: a trailer field of a chunked request is collected in the
  buffer that holds the body, and the handler gets an empty body.
* `dispatch_status`: a driver that returns `error_response{409, ..}` is answered
  with 200; plugin.h says that the member sets the status, and only a thrown one
  does.
* `dispatch_options`: `convert_map` has its test inverted: options never reach a
  driver, and null, which docker sends for no options, gives a 500.

## Proofs

`UdsServerProofs` proves, for any sets of clients and descriptors and any
bounds, `TypeOK`, `FdOwnership`, `PolledDescriptorsOpen`, `HooksBalanced`,
`ReadySetNotStale` and `NoReadyConnectionSkipped` as invariants of `Spec`, from
the three assumptions that `UdsServer` states about its constants. None of them
is inductive alone. `IndInv` adds

* `PositionInv`: `m_connections` and the queue hold no connection twice and none
  in common, and `cur` is what `it` points at. Without it an erase could remove
  the wrong element.
* `SocketInv`: only the connection whose `handle_io` is under way can be without
  a descriptor.
* `ReadyInv`: for the connections that the loop has not reached, the `fd_set`
  still says what select said, they have not been served, and nobody else is
  still to be served. This holds although descriptors are closed and handed out
  again in the meantime, because a connection ahead of the loop keeps its
  descriptor open, so that its number cannot be given to another.

Each action has a lemma that it preserves `IndInv`; lemmas on `RemoveAt` and
`Append` say how positions move. `Invariance` combines them, and each theorem
follows from it.

`PluginDispatchProofs` proves `AnnouncedIsServed` of `PluginDispatch` for any
requests, results, errors and drivers at the start, from the three assumptions
of that module. It needs `StillThere`: a process that runs has the drivers of
main, and has all that it has announced itself. That rests on nothing in the
code taking a registration back. What an earlier process has announced may be
gone, if main does not register it, and the property says so.

`CodecProofs` proves the other three safety properties of `PluginDispatch`, on
top of its `IndInv`. What dispatch and the codec do with a value does not depend
on the value, so the theorems are for all members of all types, where the run
has one text for each. Each of the tables of `Codec` is compared with `Api` row
by row (`TablesFit`, `RequestTablesFit`): a key and a member have one row each,
it is the row that the API has, and `Err` is written by `error_response` alone.
The tables of nested objects are those of `ApiNested` (`NestedFit`), plain values are
written alike (`LeafLikeApi`, for times by `SecondIs`), and so are members of every
kind (`ApiMembers`). From there:

* `RequestsUnderstood`: reading undoes writing, for a leaf (`LeafRead`), a flat
  struct (`FlatRead`), an array of pools (`IpamRead`), a member (`MemberRead`) and
  a request (`RoundTrip`), and `convert_map` does not throw (`NothingThrows`). The
  hypothesis `RequestsAreMeant` says that dockerd writes its own API, and
  leaves out what from_json loses: the entries of maps (`dispatch_options` shows
  it), `ipv6_data`, which nothing reads, and pools and node data that are blank or
  not looked at.
* `OutcomesAgree`: an answer without `Err` is a success if its status is 200, an
  `error_response` if its text is empty too. The hypothesis `FailuresShow` says
  that a driver that fails gives a text, or throws with a status other than
  200. Without it the property is false: `dispatch_status` shows that the status
  of a returned `error_response` is not used.
* `AnswersUnderstood`: every response type is written as the API has it
  (`LikeApi`, `SpacesLikeApi`). The hypotheses are that a driver returns whole
  structs of its type (`ResultsAreStructs`), which C++ gives, with times that are
  not before 1970, and that its default address spaces are equal
  (`OneAddressSpace`), because to_json writes the local one for both.

The hypotheses hold of the instance of run `dispatch`.

`WholeResponses` is proved on top of `IndInv` (`ResponsesWhole`), under the
hypothesis that `SendErrors` is FALSE: `torn` grows only in `write`, whose loop
then ends when all is sent or when the client has left. Without the hypothesis
the property is false, as said of `uds_streams`.

`ServiceProofs` proves that `UdsServer` implements `ConnectionService`, for the
same constants (`ServiceImplemented`). `IndInv` says which connections are live,
`DeliveryInv` what `handle_io` knows of the stream of the one it works on: while
it has not read, nothing received waits to be worked through; it is about to drop
a connection only if the handler has rejected, or if the client has left and
nothing of what it sent is left in the kernel; and a closed connection receives
nothing more. Connecting, sending and leaving are steps of the service, accept4 is
`Accept` or, when it loses the connection, `Refuse`; what one recv takes is
`Deliver`, what a close throws away after a reject is `Discard`, the end of a
connection is `Disconnect`, and select, writes and the loop itself are stutters
(`ClientMapped`, `AcceptMapped`, `ReceiveMapped`, `ReadMapped`,
`DisconnectMapped`).

`HttpConnectionProofs` and `HttpExchangeProofs` are for any shapes, lengths of
texts, statuses, pieces and bodies, and any number of requests on a connection.
They use two hypotheses beyond the assumptions of the module, each of which is
exactly what the code fails without, and stated in the theorem that needs it:

* `NoTrailers`: no request has trailer fields. `http_trailers` shows what happens
  with one.
* `SmallPieces`: what a handler gives to `send_data` after the headers are sent
  chunked fits into one chunk (see the bounds of `http`).

The invariants are

* `TypeInv`, which adds to `TypeOK` that the parser is inside the body as long as
  it reports pieces of it, and that a handler has an answer to go on with. It
  gives `TypeOK` without any hypothesis.
* `RequestInv`: what `m_buffer`, `m_headers`, `m_current_header` and `m_url` hold
  at each part of a message, unit by unit: `m_buffer` holds the part of the text
  that the parser has passed and nothing else. It gives `RequestsIntact`.
* `ResponseInv` and `ClientSees`: how far the answer is written, as `call` and the
  members say it, is what the client's decoder expects next. `HistoryInv` keeps
  for a client that has left that it got a part of the answers. They give
  `ResponsesDecodable`.
* `AnswersInv`: answers are given one for each request, in order, and an answer
  that grows continues the text that was given for the same request.

`ExchangeImplemented` needs them all: a request that is written is `Ask`, the
write that completes an answer at the client is `Answer`, and every other step is
a stutter (`AskMapped`, `AnswerMapped`, `ExchangeStep`).

`EndpointProofs` proves `TypeOK` and `FoundUnlessReplaced` of `Endpoint` for any
processes, requests and backlog. The second is not inductive: a process owns its
file from `bind` on and is asked for only from `listen` on, so that `Owned` says
it of all that have bound.

`SampleVolumeProofs` proves `TypeOK`, `KeptUntilRemoved`, `TimesKept` and
`ImplementsStore` of `SampleVolume`, for any names, clashing or not, any paths
and any `MaxTime`, from its two assumptions. The inductive invariant adds to
them

* `Placed`: what a handler has found or made stays so until its next step. While
  create is between `mkdir` and its answer nobody can mount the volume, so that
  it is still an empty directory when the promise is given.
* `Asked`: no remove is on its way for a volume that dockerd relies on. This is
  where requests that were given up matter: a create is promised only if no
  given-up remove can overtake it.
* `Used`: what a container uses is a directory, so that writing creates nothing.
* `Stamped`: the file that holds the stamp of a promised time is not touched by
  what is done to other volumes, not by one of the same name as the file either:
  `mkdir` fails on a file, and `remove_file` leaves a directory alone.

The refinement `StoreImplemented` maps every step: `Mkdir` is `Appear`, `Empty`
is `Lose`, `Rmdir` is `Vanish`, answers are `Answer`, and all other steps of the
handlers, of `main` and of dockerd are stutters (`CreateMaps`, `RemoveMaps`,
`OthersMap`).

Only model-checked, besides the runs that expect a violation: liveness (`uds_live`, `EveryRequestAnswered`,
`ExitsWhenTold`, `AnsweredInTheEnd`), which is out of the prover's reach. Every
invariant and every refinement that a passing run checks is also a theorem.

## Not modelled

* `logger`: it formats and prints.
* `picojson` and `llhttp`: third-party code; `HttpConnection` has llhttp's
  callbacks as an external part.
* A driver that calls `run` from a handler, and a driver's own threads beyond
  the descriptors they use.
* The permissions of the socket file, and the length of its path beyond the
  failure it causes; of the sample driver `capabilities`, which returns a
  constant, and `util::cwd`, which gives the prefix of `m_root`. `util::remove`
  is called by nobody.
* Descriptors at or above FD_SETSIZE: the write past the `fd_set` has no state to
  be expressed in (`FdsAssumption`).

## Plan

1. `UdsServer`, `ConnectionService`, `UdsServerProofs`, `HttpConnection`,
   `HttpExchange` (done).
2. `Codec`, `PluginDispatch`, `PluginDispatchProofs`: registration,
   Plugin.Activate, routing, decoding, the driver's result or exception, status
   and body of the answer (done).
3. `SampleVolume`, `VolumeStore`, `SampleVolumeProofs`: the driver's file system
   steps with crashes between them, restarts, containers writing to the volume,
   and dockerd's retries, against an abstract store; `main` with its signals
   (done).
4. `Endpoint`, `EndpointProofs`: bind with unlink, several instances, restarts,
   clients that connect (done).
5. `ServiceProofs`, `HttpConnectionProofs`, `HttpExchangeProofs`: the refinements
   of `ConnectionService` and `HttpExchange`, and the invariants of
   `HttpConnection` (done).
6. `CodecProofs`: what dockerd and a driver understand of each other (done).
