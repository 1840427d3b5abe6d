# Verification of amgi_net_tools

`amgi_net_tools` holds two programs. `amgi_proxy` is a SOCKS5 or HTTP proxy,
reached over TCP or over TLS; `amgi_tunnel` carries clear connections to one
configured host over TLS. Both run every handler in one `io_context` thread:
there are no data races, and everything difficult lies in the order in which
asynchronous operations complete.

The modules here model the sessions of both programs step by step, TLC checks
them on small instances, and TLAPS proves all they say of safety for any number of
sessions and messages: of the SOCKS5 and the HTTP mode, of the tunnel, of both
parsers and of sessions whose messages TCP splits.

## The system

| Component | State | Operations | Source |
|---|---|---|---|
| Streams | socket, one `read_buffer_`, one `write_buffer_`, an id | start, stop, read, write, connect, handshake | `amgi_proxy/transport/` |
| Accept loops | `stream_id_`, acceptor, `ctx_` | accept, accept error, signal | `transport/server.cpp`, `transport/tls/tls_server.cpp` |
| SOCKS5 manager | `sessions_`: id to (server stream, client stream, session) | `on_accept`, `on_read`, `on_write`, `on_connect`, `on_error`, `stop` | `socks5/socks5_stream_manager.cpp` |
| SOCKS5 session | state object, response, byte counters | one handler per state and event | `socks5/socks5_session.cpp`, `socks5_state.cpp` |
| HTTP manager, session | the same, `response_` | the same | `http/` |
| Parsers | none | greeting, request, header lookup | `socks5/socks5.cpp`, `http/http.cpp` |
| Tunnel session | two sockets, two buffers | resolve, connect, handshake, two pumps, `close` | `amgi_tunnel/session.hpp` |
| Tunnel manager, server | `sessions_` | `join`, `leave`, accept, signal | `amgi_tunnel/manager.hpp`, `server.hpp` |
| Logger, command lines | | | `logger/`, `main.cpp` |

How they interact: the accept loop hands a started stream to the manager, which
pairs it with a client stream and a session under the stream's id. A stream
reports the completion of an operation to the manager with itself as argument;
the manager looks the id up and calls the session, whose state object decides
what to read, write, connect or stop next, again through the manager and the
id. A completion whose session is gone is dropped. A stream stays alive as long
as one of its operations is outstanding, since each handler holds a
`shared_ptr` to it. In the tunnel there is no state object: the handlers call
each other's operations directly and leave the manager on any error.

What is hard:

* completions that were queued before a session was stopped (stale ids);
* one buffer per stream and direction, so that two overlapping reads or writes
  corrupt data although nothing runs in parallel;
* sessions that are kept alive by outstanding operations alone: a handler that
  starts nothing leaves a session that never wakes up again;
* stopping: `do_stop` shuts a TCP socket down without closing it, a TLS stream
  starts two competing closing operations, a resolve is not cancelled at all;
* peers that are silent, close half-way or answer while the session stops;
* messages: a handler takes what one read returned for one whole message, and
  TCP splits a message at any byte.

What makes each part correct: a stream never has two reads or two writes
outstanding; the accept loop never reuses an id; a session always waits for
exactly what its state handles, tells its peer the truth about the connection,
relays without loss, duplication or reordering, and releases its streams once
stopped; a manager starts nothing for a session that is gone.

`PROJECT.json` lists the hazards one by one, at the line where each bites, with
the properties that cover it.

## Modules

| Module | Models |
|---|---|
| `Transport` | both streams of a session, the accept loop, `stop`, the kernel and the peers; the properties both protocols share |
| `Socks5` | the handlers of the SOCKS5 states, `Next`, the specification, its properties |
| `Http` | the handlers of the HTTP states, the same |
| `Relay` | the abstract promise: two lossless, ordered, one-place channels per session, open only between negotiation and close |
| `Socks5Relay`, `HttpRelay`, `TunnelRelay` | the refinement mappings onto `Relay` |
| `Socks5Parser` | greeting, request, address and port as operators on a buffer of bytes, reads behind its end included |
| `Framing` | `Socks5` over TCP composed with `Socks5Parser`: the bytes a local peer sends and each read returns |
| `HttpParser` | `split`, the request line, the `Host:` lookup, host and service as operators on a text |
| `HttpRequests` | a request line, and header and body lines that arrive behind it, on which `HttpParser` is checked; `MCHttpParser` is its instance for TLC |
| `MCSocks5Parser` | the greetings and requests, arriving byte by byte, on which `Socks5Parser` is checked |
| `Tunnel` | the session, the manager and the accept loop of `amgi_tunnel` |
| `TransportProofs` | lemmas about the streams and the operations that both protocols need |
| `Socks5Proofs` | theorems about `Socks5`: types, what is outstanding when, closing, ids; what it relays, tells, loses and counts |
| `Socks5RelayProofs` | `Socks5` implements `Relay` |
| `HttpProofs` | theorems about `Http`: types, what is outstanding when, what is answered and forwarded, and that it implements `Relay` |
| `HttpParserProofs` | what `HttpParser` makes of any text, and of any request line with any lines behind it |
| `TunnelProofs` | theorems about `Tunnel`, and that it implements `Relay` |
| `Socks5ParserProofs` | what `Socks5Parser` decides of any greeting and any request |
| `FramingProofs` | `Framing` implements `Socks5`; what it takes for a whole message |

### State and actions

Outstanding work is the heart of all models. `ops[id][op][phase]` counts the
asynchronous operations of kind `op` of session `id`: `pending` with the kernel,
then `ok` or `error` while the handler waits in the queue of the `io_context`.
Counting, rather than a flag, lets a second read on one stream be a state an
invariant can reject. `Issue` is the call that starts an operation, `Settle` its
completion, `Retire` the start of its handler.

* A step of the kernel or of a peer (`Receive`, `Send`, `Succeed`, `Fail`)
  settles one operation. These are external and as general as the code must
  expect: any operation may fail at any time, and a peer may never answer.
* A step of the program dispatches one completion and performs all that its
  handler does before it returns: the write into `wbuf`, the next operations,
  the change of state, the stop. Nothing interleaves with a handler, as nothing
  does in one `io_context` thread. Each is named after its state and event:
  `AuthRequestRead`, `Connected`, `ReplyWritten`, `TransferRead`, ...
* `Dropped` is a completion that reaches no handler, because its session is
  gone or its state has the empty one (`socks5_state.cpp:59-63`).

`state[id]` is at once the entry of `sessions_` and the state of its session
(`absent` before the accept, `erased` after `stop`). `rbuf` and `wbuf` are the
buffers; a read's handler copies `rbuf` when it runs and `Send` sends `wbuf` as
it is when the write completes, so that an early overwrite shows. `taken` and
`out` are what each peer handed in and was sent. A message is a chunk: the
number it has among its peer's messages, a greeting answer, a reply code, an
HTTP answer.

In `Socks5` and `Http` what a message says is chosen where its handler parses
it: a greeting is accepted or refused, a request is usable or not. `Framing`
takes that choice away. It adds to every session the endpoint its peer asks for
(`asked`), how much of its greeting, request and data the peer has `sent`, where
each read of the server stream ended (`ends`) and the `target` the session was
given; a read returns any number of the bytes that are there, and the verdict of
`Socks5Parser` on exactly these bytes decides which handler action is possible.
The peer is patient, as SOCKS5 asks: no request before the greeting's answer, no
data before the reply. What a byte behind the end of a buffer holds is
undefined; the parser's operators take it as the parameter `beyond`.

The text of `HttpParser` is a sequence of symbols: single characters, and the
words the parser compares with as one symbol each. What is skipped by position
in the code, the one character behind a header's name, is a single character
here too. `Scan` is the loop of `split` as a recursive function, one symbol a
turn: `items` are those it has pushed, `item` is what lies between `cur_pos` and
the symbol looked at; `Cut` behind the last symbol is the `if` behind the loop.
`HostFrom` is the loop over the lines in the same way. In `HttpRequests` the lines
come one by one, an empty one among them, and the text is parsed after each: the
code makes no difference between a header line and a line of a body.

In `Socks5` the error of a failed resolve or connect is chosen among the kinds
that `get_response_error_code` tells apart.

In `Tunnel` a session has no state but its outstanding operations, and
`sessions` is the set of the manager; one `buffer` per direction is filled by
the read and sent by the write, as in `session.hpp`.

The operators marked "bug" (`TransferReadEager`, `StopKeepsEntry`, ...) belong
to no specification. Each is a plausible slip in the definition that follows
it; put in that definition's place it makes a property fail, which shows that
the property can. `PROJECT.json` pairs them.

## Checks

Deadlock is not checked anywhere: a signal stops the program for good, sessions
end, and peers may be silent for ever.

| Run | Instance | Shows |
|---|---|---|
| `socks5_tcp` | 1 session, 5 messages per peer, TCP, fair | types, no buffer shared, a session is never idle, messages in order in both directions, truthful replies, nothing lost at end of file, exact byte counters, streams released without a close, silence after the erase, refinement of `Relay` |
| `socks5_tls` | 1 session, 3 messages, TLS, fair | the same session behind a handshake; the closing handshake touches only erased sessions; streams are released, requests answered, and every error but a failed resolve or connect, which is answered first, ends its session, as does that answer once written |
| `socks5_two` | 2 sessions, 2 messages | ids are fresh, with both sessions and the accept loop interleaved |
| `socks5_rejected` | violated | a refused greeting is followed by service, see below |
| `socks5_parser` | 10 greetings, 144 requests, every prefix of each | which messages the parser accepts and what endpoint it returns |
| `framing` | 1 session, 4 reads, an IPv4 host and a name of three letters, every split | a split message is never misread, its rest is never relayed, an unsplit one is served |
| `framing_split` | violated | a longer request, split, is served with a wrong endpoint, see below |
| `framing_short` | violated | a whole request for a short name is refused, see below |
| `http` | 1 session, 3 messages, TLS, CONNECT and GET, fair | what is forwarded and answered, streams are released, refinement of `Relay` by the tunnels |
| `http_response` | violated (TCP, GET) | the response to a forwarded request is never read, see below |
| `http_parser` | 42 request lines, up to 3 of 6 further lines, an empty one among them or not | `split` returns the maximal runs; where a CONNECT and a forwarded request lead, and that an unknown method leads nowhere |
| `tunnel` | 1 session, 3 messages, fair | `amgi_tunnel`: connecting, pumping, leaving twice, closing; refinement of `Relay` |

Bounds. `MaxStreams` (`MaxSessions`) bounds the accept loop; sessions share
only the table and the ids, so one is enough for all that concerns a session,
and two for what concerns ids. `MaxReads` bounds the messages of a peer: a
SOCKS5 session consumes two before it relays, so that three to five give up to
three rounds of reading and writing in either direction, and one round more
than one suffices to see a buffer overwritten, a message lost or one doubled.
`Framing` needs a read for each of greeting, request and data and one more for
a split; `NameLengths` names the hosts asked for: a request of a name of three
letters, like one of an IPv4 address, has exactly the ten bytes the parser
requires, so that every proper part is too short. The parser runs take names
from none to 255 letters, all three address types and a fourth one, and ports
with either byte zero or full; three lines let a `Host:` field come
before, after and between others, and seven targets have no, one, two or three
parts, empty parts included. The counters of `ops` need no bound: they
stay at most one, which is proved for SOCKS5, for HTTP tunnels and for
`amgi_tunnel`; of a forwarded HTTP request two reads share a count, and no more.

Fairness. `WF(Dispatch(id))`: `io_context::run` runs every queued handler.
`WF(KernelFinishes(id, op))`: resolving and connecting end, in success or by the
system's timeouts; an empty write ends; nothing stays pending on a socket that
was shut down or closed. Nothing is assumed of a read, a write or a handshake
on an open socket, nor of new connections: a peer may be silent for ever, and
the liveness properties hold regardless. They are stated up to `~running`, as a
signal stops every handler.

### Where the code departs from what it says

* `http_response`: `http_ready_to_transfer_data::handle_client_write`
  (`http_state.cpp:111-112`) reads the local peer twice and the remote host not
  at all. A forwarded request gets no response, and both reads share one
  buffer. For that reason `NeverIdle` and the refinement say nothing of what
  a forwarded request waits for or relays once it is sent (`HttpRelay` counts
  it as negotiating); `RemoteInOrder`, `AnswersInOrder` and `StreamsReleased` are
  checked of both kinds of requests. Of a forwarded request `RemoteInOrder` says
  that it is sent first and that no older message follows a newer one; the two
  reads may lose or repeat one.
* `socks5_rejected`: `socks5_auth_request::handle_server_read` refuses a
  greeting with 0xff and a logged message (`socks5.cpp:16`, `socks5.cpp:25`),
  but goes on to serve the next message as a request (`socks5_state.cpp:86`).

* `framing_split`: `get_remote_address_info` requires ten bytes
  (`socks5.cpp:53`), whatever the length of the address in them. Of a longer
  request, split behind its tenth byte, the port (`socks5.cpp:78`) is read from
  behind the end of the buffer, and the session connects there; a "bad remote
  address format" (`socks5_state.cpp:104`) should be refused.
* `framing_short`: a request for a name of one or two letters has eight or nine
  bytes; `request_header_min_length` (`socks5.h:46`) refuses it as a "bad
  request packet" (`socks5_state.cpp:97`).

That a split message of at most ten bytes is refused, and with it the session,
is the code's choice, which `framing` takes as it is: no document promises that
the parts are put together.

## Proofs

Every theorem is about the specification for all values of its constants:
`MaxStreams` (`MaxSessions`) a positive number, `MaxReads` a number, `Tls` a
Boolean, `NameLengths` lengths that fit a byte. `Framing` is about TCP alone. In
`HttpRequests` the alphabet, the methods, the targets, the lines and their number
are any: a method is one symbol, a target has no blank, no line is empty (that
one is an action of its own) or ends with the name `Host:`.

| Module | Theorem | Property |
|---|---|---|
| `Socks5Proofs` | `TypeCorrect` | `TypeOK` |
| | `BuffersNeverShared` | `NoOverlap` |
| | `SessionsNeverIdle` | `NeverIdle` |
| | `ClosingIsSafe`, `ConnectsOnlyLive` | `CloseOnlyErased`, `ConnectOnlyLive` |
| | `IdsAreFresh` | `FreshId` |
| | `ErasedStaysQuiet` | `QuietAfterErase` |
| | `RemoteHearsInOrder` | `RemoteInOrder` |
| | `LocalHearsInOrder` | `LocalInOrder` |
| | `RepliesAreTrue` | `ReplyTruthful` |
| | `EofLosesNothing` | `NothingLostOnEof` |
| | `CountersAreExact` | `Accounting` |
| `Socks5RelayProofs` | `SessionsImplementRelay` | `ImplementsRelay` |
| `HttpProofs` | `TypeCorrect` | `TypeOK` |
| | `SessionsNeverIdle` | `NeverIdle` |
| | `AnswersAreOrdered` | `AnswersInOrder` |
| | `RemoteHearsInOrder` | `RemoteInOrder` |
| | `ClosingIsSafe`, `ConnectsOnlyLive` | `CloseOnlyErased`, `ConnectOnlyLive` |
| | `ErasedStaysQuiet` | `QuietAfterErase` |
| | `IdsAreFresh` | `FreshId` |
| | `TunnelBuffersNotShared` | `NoOverlap` of all sessions but those of a forwarded request |
| | `TunnelEofLosesNothing` | what `NothingLostOnEof` says, of tunnels |
| | `SessionsImplementRelay` | `ImplementsRelay` |
| `HttpParserProofs` | `SplitReturnsRuns` | `split` returns the maximal runs of any text |
| | `SplittingIsRuns` | `SplitIsRuns` |
| | `ConnectLeadsToTarget` | `ConnectTarget` |
| | `ForwardLeadsToHost` | `ForwardTarget` |
| | `UnknownIsRefused` | `UnknownRefused` |
| `TunnelProofs` | `TypeCorrect` | `TypeOK` |
| | `SessionsNeverIdle` | `NeverIdle` |
| | `OneUse` | `OneUsePerBuffer` |
| | `NothingLost` | `NothingLostOnEof` |
| | `LeftWindsDown` | `WindsDown` |
| | `TunnelImplementsRelay` | `ImplementsRelay` |
| `Socks5ParserProofs` | `GreetingDecided`, `GreetingIsExact` | `GreetingExact` |
| | `VerdictDecided`, `VerdictIsExact` | `VerdictExact` |
| `FramingProofs` | `FramedImplementsSocks5` | `FramedSpec` implies `Spec` |
| | `FramedInOrder` | the three order properties of `Socks5` |
| | `UnsplitIsServed` | `UnsplitServed`, if no name has one or two letters |
| | `ShortIsServedAsAsked` | `ServedAsAsked`, if no name has more than three letters |
| | `ShortIsRelayedWhole` | `OnlyDataRelayed`, under the same hypothesis |

The hypotheses of the last three are not for the prover's sake: outside of them
`framing_short` and `framing_split` show the properties violated. A request of a
name of three letters has ten bytes, one of four has eleven, and of these a part
of ten is served.

### What is outstanding

None of the properties is inductive alone. `TypeOK` is nearly so: that a count
never becomes negative follows from the guard `Completed`. In `Socks5Proofs` the
others share one strengthening, `IInv`: types, `FreshId`, and for every session
`Shape`, which says for each value of `state[id]` what may be outstanding. A live
session has exactly what `NeverIdle` says; an erased one has at most one
operation per direction, at most the two closing ones, and neither a resolve nor
a connect; an absent one has nothing. `FreshId` is needed because an accept must
find the id it uses empty, or it would add a second read to a stream.

The argument: a kernel step moves one operation between phases and leaves the
sums `Out` unchanged (`SettleOut`, `SameShape`). A handler retires the one
operation its session waits for and starts the next (`ThenOut`); since `Shape`
says there was no other, the new state's `Shape` follows by counting. `Stop`
adds the two closing operations to a session that had none (`StopShape`). Every
step touches one session (`OneSession`). The action property follows from
`IInv` by looking at what a handler may do when `state[id]` is `erased`
(`QuietStep`): only `Dropped` and `TlsClosed` remain, since `Shape` rules out a
pending handshake or resolve.

### What is relayed

The order properties speak of sequences that only grow, and none says what the
next message will be. `OInv` adds that to `IInv`, per session, as `Order`: a read
buffer holds the last message read (`Recent`); a write under way sends what its
peer is due next (`DueRemote`, `DueLocal`); and for each state `Counted` says how
many messages were read and sent, whether there is a connection and what was
counted. In `data_transfer_mode` it is a balance (`Transferring`): what a peer
handed in is what the other was sent, and the read whose handler has not run,
and the write under way or failed. From it `NothingLostOnEof` and `Accounting`
follow: an error of a read leaves, by `Shape`, no write in that direction.

Each move of one session is a lemma about the values of its variables
(`ServerReceived`, `ClientSent`, `GreetingMoves`, `ClientRelayed`, ...), which
needs of the rest of the program nothing but `Known`; the steps are instances of
them, and `OneOrder` carries the other sessions along. Of an erased session
`Order` keeps only what is about its writes (`ErasedOrder`), which is why
`DroppedErased` has to show that no live session drops a completion.

`Relay` asks for more than `Order` keeps: an erased session's read may still
fetch, and only if its direction holds nothing. `Pumps` adds, for each read and
write still pending in whatever state, how many messages its direction holds:
none for a read, one for a write. With it every step maps to a step of `Relay` or
leaves its variables alone: an accept opens, `ReplyWritten` starts the relaying,
`Stop` closes, `Receive` fetches and `Send` delivers, and of both only what comes
behind the negotiation (`RemotePartAppend` says that the mapped sequence grows by
the mapped message).

### HTTP

An HTTP session takes one of three ways, and what may be outstanding depends on
which. `Chosen` says that `response[id]` tells the way: none yet or a refused
request, a CONNECT, or a forwarded request. `Counts` is `Shape` for each way and
state; it gives a forwarded request its two reads of the local peer, since the
code starts them. `Order` is again what is known of the messages: a refused
session has sent nothing but the 500 and has no remote socket (`Refusing`), a
forwarded request is the first message to the remote host and the write buffer
holds a message at least as new as every one that was sent (`Forwarding`,
`InOrder`), however its two reads and their writes overlap, and of a tunnel the number of messages read follows from the number sent and from how
the operations stand (`Tunnelling`, `ToRemote`, `ToLocal`). Those balances are
stated of every operation wherever it stands, erased sessions included, so that
the refinement needs no further invariant; its step lemmas are like those of SOCKS5,
and a session that becomes a tunnel has relayed nothing when it does.
`CloseOnlyErased`, `ConnectOnlyLive`, `FreshId` and `QuietAfterErase`, which the
SOCKS5 runs check, follow from `HInv` for HTTP sessions too. `NoOverlap` does not:
`http_response` shows a forwarded request read its local peer twice. What is left
of it, `TunnelBuffersNotShared`, says that the flaw is confined to these sessions.

### Tunnel

`Tunnel` has no state to hang a shape on. `Stands` takes its place: a session of
the manager either connects, with one connecting operation and nothing in either
direction, or relays with exactly one operation in each; one that left has no
connecting operation, at most one in each direction, and a local socket that is
never open again. `Carries` says where a message is: the buffer of a direction
holds the last one read, and what was read exceeds what was sent by what is
between the read and the write. `Unused` is `FreshId`. From these `WindsDown`
follows step by step: a handler that runs after its session left replaces the
operation it finishes or ends the direction. The one that ends it leaves again,
which starts another shutdown and another empty write; `Paid` sets them against
the direction that ended, so that their number is bounded by the directions that
still ran (`Running`).

### Messages

`GreetingDecided` and `VerdictDecided` are about any buffer that agrees with a
message as far as both go (`Agrees`): shorter, complete, or followed by other
bytes. A greeting is accepted if and only if all of it is there, its version is
5 and one of its methods is 0; a whole request of at least ten bytes yields the
endpoint it names if and only if version, command and address type are known,
for addresses and names of any length and all ports (`Wellformed`). What a byte
behind the end holds does not matter to either. The two invariants follow, as
the buffer of `MCSocks5Parser` only ever grows by the next byte of the message or
of what follows it.

`FramingProofs` first shows that a step of `Framing` is one of `Socks5` or leaves
its variables alone (`FramedStep`), which brings all of the above to messages
split anywhere. An unsplit message is what `LastRead` returns (`ScriptReads`), and
the parser's theorems decide it. For split ones the invariant `FInv` adds to
`OInv`: the reads of a session end where its peer's bytes allow (`Pieces`); the
peer has gone on only if it was answered (`Patience`); the greeting was accepted
only if it came in one read (`Accepted`); and a session that is served or relays
was given its request by the second read, whole (`Whole`). The steps that look
at no byte change nothing in it but what `Moves` names. Of the two that parse,
`GreetingWhole` uses that no part of a greeting is one; `RequestWhole` that the
peer, not answered yet, has sent at most the request, that ten bytes were needed,
and that there are no more than ten.

### Texts

`HttpParser` loops over a text of any length, so that its theorems need induction
over data. The induction rules of the library have a predicate for a parameter,
which the provers cannot instantiate; `HttpParserProofs` has its own, about sets.
Finite sets of numbers are well-founded under inclusion (a fact of the library),
hence every set of numbers has a least one (`Least`), hence a set with 0 and with
the successors of its members has them all (`Induct`, `UpTo`), and a set with the
empty sequence that is closed under `Append` has every sequence (`SeqInduct`). In
the same way `Solution` shows that a recursion over 0..n has a solution, and so
that the functions of `Scan` and `HostFrom` satisfy their equations
(`ScanEquation`, `HostEquation`): TLA+ only chooses one that does if there is one.

`Marked` is the invariant of the loop of `split`. It names for every item where
its run begins and ends (`st`, `en`) and where the item begun begins (`b`): runs
are in order, hold no delimiter, have one before and behind, and every symbol
before `b` outside of them is one. A turn of the loop keeps it in one of three
ways (`MarkedInside`, `MarkedBlank`, `MarkedEnd`). With a delimiter put behind the
text, which is what the `if` behind the loop amounts to (`SplitIsClosed`), it
yields `SplitReturnsRuns`, whose numbering of the runs by how many begin no later
takes the counting of `CountMarks`.

The invariant of `HttpRequests`, `LinesInv`, says that the text is split into the
request line and every line that came, with no item begun: a line and its end
append one item (`LineRead`), an empty line none (`BlankRead`). The fields of the
request line follow by computation (`RequestLineSplit`), the parts of the target
from `SplitReturnsRuns` (`TargetParts`), and the host by one more induction: one
that is there stays (`HostKept`), and the first line with a value gives one that
is not (`HostOfFirst`).

### Only model-checked

Liveness (`StreamsReleased`, `RequestAnswered`, `ErrorEnds`, `SessionEnds`): it rests
on fairness, which the prover does not handle. Every other property that a passing
run checks is a theorem, those of `framing` under the hypotheses named above.

## Not modelled

* Partial writes: `async_write` completes once all is written, its parts belong
  to asio. How HTTP requests are split: `Http` takes one read for one request,
  as its handler does, and `HttpRequests` lets the text grow by whole lines.
* A peer that sends ahead of the answers. What follows the first message in one
  read is dropped by the code; SOCKS5 does not allow it before the reply.
* A header line that ends right behind `Host:`: the length computed for its
  value wraps, and nothing defined follows. `Connection:` values, which nothing
  reads, and `rtrim_copy`, which nothing calls.
* The texts `inet_ntop` makes of addresses: an address is kept as its type and
  its bytes, which the text determines and is determined by.
* HTTP over TCP outside `http_response`: it differs from `http` in the closing
  of the server stream only, which `socks5_tcp` checks for the same streams.
* The overflow of `stream_id_`, an `int`, after 2^31 - 1 accepts: undefined.
* Destruction after `run()` returns, one fixed pass without interleavings.
* The logger, which formats and writes and keeps nothing another part reads;
  options and configuration, read once before anything concurrent starts.
* `session::close_ssl`, which nothing calls; `g_scount`, which is only printed.

## Plan

In order of importance:

1. Done: `Transport`, `Socks5`, `Relay`, `Http`, `Tunnel`, both parsers,
   `Framing`; every safety property and every refinement of theirs proved.
2. `Http` composed with `HttpParser` as `Framing` composes `Socks5` with its
   parser: requests that TCP splits, parsed part by part.
3. `Framing` with a peer that does not wait for the answers: what its greeting
   and request in one read come to.
