# A verification project for the tvdoctor proxy server

`src/proxyserver` is the server behind a remote-help service for television sets. A TV
connects over TCP, a support worker's browser (the "PC") connects over WebSocket, and a web
page's PHP client asks whether the TV will take the call. The server pairs the two devices,
relays their packages, moves files and log lines between them, and tells each side when the
other is gone. It is one process with six threads, one `epoll` loop each, that share a
handful of singletons guarded by one mutex each. The repository has no tests.

This directory holds TLA+ modules translated from that code, the TLC runs that check them on
small instances, and proofs, checked by TLAPS, that hold for any number of devices and
descriptors.

    tlc -workers 2 -config MCRelayPCs.cfg MCRelay     # any run of the table below
    for m in DataLemmas RelayProofs LogRelayProofs InboundProofs FileTransferProofs \
             ThreadsProofs WebLinkProofs HandshakeProofs
    do tlapm $m.tla; done                             # the proofs

## 1. Inventory

Paths are relative to `src/proxyserver/src`.

| Component | State | Operations | Other parts it touches |
|---|---|---|---|
| `SocketServer` (base of the TCP, WebSocket, PHP and file servers) | its epoll instance | accept and read loop, `writeMsg`, both `disconnectBySockfd`, `disconnectToWebSocket`, `disconnectToTcpSocket`, `writeMsgToPhpSocket` | all managers; closes sockets that other servers poll |
| `TcpSocketServer` (port 9001, TVs) | none of its own | `REG_TV`, `REG_TV_TEST`, `REJECT_HELP`, `ANOTHER_PC_CTRL`, `TV_EXIT_CTRL`, forward | writes to the PHP client's and the PC's sockets |
| `WebSocketServer` (9008, PCs) | none | handshake, frames, `REG_PC`, `PC_NEED_EXIT`, forward | changes the TV's `Connection`, writes to its socket |
| `PhpSocketServer` (9002) | `m_isFistStartTimer` | one request per connection; the `SIGALRM` handler | TV list, online list |
| `ConnectionManager`, `Connection` | id → read descriptor, partner's descriptor and id | insert, find by id or descriptor, remove | |
| `ConnectFilterManager`, `ConnectFilter`, `PackDataReader` | descriptor → package reader and its cache | insert, get, remove; `addBuffer` | |
| `TVListManager` | TV id → rendezvous entry | insert, test, remove | also walked by the signal handler, without the lock |
| `TVOnlineListManager` | set of TVs a PC has taken | insert, test, remove | |
| `MessageManager`, `MessageBuffer` | descriptor → bytes a short write left | insert, get, remove | |
| `BaseServer`, `LogSocketServer` (9004), `LogWebSockServer` (9005), `ConnectInfo` | static maps shared by both servers, a mutex per server | register a PC for a TV, attach a TV, relay a log line, drain the queue | |
| `FileSocketServer` (9003), `FileDataFilter`, `FileRender`, `FileDataFilterManager` | a header cache and a byte count per socket | header, data, notice to the PC | `ConnectionManager` |
| WebSocket framing (`do_handshake`, `do_parsebuffer`, `packageMsgForWebsocket`) | none: each read is handled on its own | reply to a request, unmask frames, frame a message | `MessageManager`, base64, sha1 |
| `VncDataPackage`, `VncUtils` | a package: its fields, its JSON, its bytes and whether they are current | construct, set, get, bytes, crc | jsoncpp |
| jsoncpp, base64, sha1 | `Reader`'s position and value; `SHA1`'s block, length and flags | parse, write; encode, decode; input, result | |
| `ProcessManager`, `main` | the threads | start | runs before `main`, from a static initialiser |
| `utils/logger` | the log file and its size | write, rotate | called by all threads, no lock |
| flatbuffers, `VncPackageContent_generated.h` | third-party and generated; no other source includes them | | |

What is hard here:

* **A teardown crosses servers.** Closing one socket tells the partner, closes its socket,
  and removes two readers, two connections and two list entries; telling the partner can
  fail, and the failed write starts a teardown of its own inside the first.
* **Descriptors are names that come back.** Four maps and both ends of every connection hold
  descriptor numbers; the kernel hands a closed number to the next client of any server.
* **Everything may be overtaken.** A TV registers again over its session, a second PC takes
  the TV, a PHP client hangs up while its entry waits, the timer answers first.
* **TCP cuts where it likes**, and the read loop is edge-triggered with a fixed buffer.
* **Locks cover single calls**, so a handler's test and its act are different critical
  sections, and pointers leave them.

What makes each part correct: the registry names the sockets devices really are on; the two
ends of a session agree; a teardown touches its own session only and tells somebody; a PHP
client is answered about the TV it asked for, and answered at all; packages are handled in
order, whole and once; a log line or a file reaches the PC that asked; no byte accepted for
sending is lost; no thread waits for itself.

`PROJECT.json` lists each hazard with its line and the properties that watch it.

## 2. Plan

| # | Modules | What they model | Status |
|---|---|---|---|
| 1 | `Relay`; `RelayProofs` | sessions, rendezvous, teardown, descriptor reuse; one handler per step; its invariants and action properties for all constants | checked, proved |
| 2 | `PackageStream`, `Inbound`; `InboundProofs` | read loop and `addBuffer`, as an implementation of an in-order package stream; the refinement and the action properties for all constants | checked, proved |
| 3 | `LogRelay`; `LogRelayProofs` | the log servers: shared maps, `writeMsg`, the retry queue and `processMsg`; its invariants for all constants | checked, proved |
| 4 | `FileTransfer`; `FileTransferProofs` | `FileDataFilter` and the file server; its invariants for all constants | checked, proved |
| 5 | `Digest`, `JsonText`, `VncPackage`; `Codecs` | sha1's rounds and the crc, JSON texts, packages, as operators; `Codecs` uses them, and `Handshake`, step by step against reference definitions | checked |
| 6 | `WebLink`; `WebLinkProofs` | a browser's connection byte by byte: handshake, frames, short writes; its invariants for all constants | checked, proved |
| 7 | `SharedState`, `Handlers`, `LogFile`, `Startup`; `Threads`, `OneByOne`; `ThreadsProofs` | what the threads share, their handlers call by call, the log file, the start; `Threads` interleaves them, `OneByOne` compares with one after the other; the log and the start for all constants | checked; the log and the start proved |
| 8 | `Handshake`; `HandshakeProofs` | the answer to a browser's key: the SHA1 object and base64; its invariants for all constants | checked with 5, proved |

The order follows what a failure costs: a wrong session first, then a wrong or missing
answer to the web page, then lost bytes, then logs and files. The modules form three layers.
`Codecs`, `Handshake` and `WebLink` say how bytes become packages; `Inbound` how a stream of them reaches
a handler; `Relay`, `LogRelay` and `FileTransfer` what handlers do, one at a time; and
`Threads` lets them overlap. `OneByOne` asks when that is as good as one at a time, which is what
`Relay` takes for granted.

## 3. `Relay`

Three servers, their clients and the shared managers. One action is one handler, from the
event in `epoll_wait` to the return to it.

| Variable | Code |
|---|---|
| `peer` | the process's descriptor table: the device at the other end, or 0 |
| `dead` | open descriptors on which `write` fails |
| `polled` | `EPOLL_CTL_ADD` without `EPOLL_CTL_DEL` or `close` |
| `filter` | keys of `ConnectFilterManager` |
| `conn` | `ConnectionManager`: `rfd`, `wfd`, `wid`; `NoConn` for an id that is not there |
| `tvinfo`, `online` | the two TV lists |
| `armed` | `m_isFistStartTimer` |
| `fate` | the process runs, or died of a full stack (`"stack"`) or of freed memory (`"freed"`) |
| `out` | what the last step wrote to sockets that took it; observed by properties, read by no action |
| `overlapped` | history, read by no action; see below |

Handlers are written as a chain of calls on a *snapshot*, a record of the shared state:
`WriteMsg`, `DisconnectBySockfd`, `HangUp`, `Close` and so on each take a snapshot and return
the one the C++ function leaves. A handler's order of calls is the order of its `LET`s.

**Nested teardown.** `disconnectBySockfd(fd)` writes its notice before it removes its
connection. If the write fails, `writeMsg` calls `disconnectBySockfd` for the partner, which
finds its own connection. `Frames(s, fd)` is the set of descriptors that recursion reaches;
its effect is the union of what the frames remove, and if every frame has a failing notice it
never returns (`NeverReturns`, `fate = "stack"`).

**Freed objects.** A package handler that removes the reader it is looping over goes on with
freed memory: `Handled` allows both outcomes, the loop ends or the process dies. `REG_PC`
reads the TV's descriptor from a `Connection` its own failed reply has deleted: any value.

**`overlapped`** is set when a registration or a rendezvous entry that is in use is overtaken:
a TV registers while a PC's connection names it; a PC registers for a TV another PC holds, or
for a second TV; the third reply of `REG_PC` uses the freed `Connection`; a PHP client's
socket is closed while an entry names it. The code has no defence against these, and the
invariants are stated for histories without them. The model goes on past them all the same:
the runs that expect a violation start there, and the parts of the properties that are not
under `~overlapped` are checked there too.

Assumed of the environment: a device puts its own id into `source` (a TV's is the crc32 of
its id string); a write is complete or fails (short writes are in `WebLink`); PHP clients
send one request per read, as the code expects.

Two facts a reader of the code may not expect, and that the properties carve out explicitly: a
`REG_PC` whose replies run into a dead TV puts the TV online *after* the teardown, with no
connection left; `ANOTHER_PC_CTRL` leaves the TV online, and on an unpaired TV leaves an open
socket that nobody polls.

### Properties

Invariants: `TypeOK`; `ReadersMatchSockets` (a polled relay socket has a reader; a reader has
a relay socket); `RegistrySound` (a connection's read descriptor is that device's own socket);
`PairingSymmetric`; `SessionIsOnline`; `EntryNamesAsker`.

Action properties: `NoBystander` (the sockets closed in one step belong to one session);
`SessionEndIsTold`; `SessionEndClearsLists`; `EntryDropIsTold` (a PHP client's entry goes with
a word, or with its TV); `ServedUntilClosed` (a socket given up is closed);
`RunawayNeedsDeadTv`.

Liveness: `WaitEnds`.

## 4. `Inbound` and `PackageStream`

One connection of the TCP port. `queue`, `ready`, `fin` and `reset` are the kernel's side of
the socket; `ready` is the edge: set by an arrival, a FIN or a reset, cleared when `epoll_wait`
reports the socket, and never set by bytes that were merely left behind. `Report`, `Read`,
`Receive` and `Disconnect` are the steps of the read loop, and bytes may arrive between any
two of them. `AddBuffer` is one step, since a reader belongs to one thread; its loop is the
recursive function `Scan`: `Cuts` is its condition to go round again, `Cut` one turn, `Left` what it
leaves when it ends. Bytes are real bytes, so that a size is decoded from them and a
wrong cut is seen as a wrong package.

`PackageStream` says what the handlers are promised: packages in the order sent, each once and
whole, until the connection is over. `FIFO` is its specification under the refinement mapping
of `Inbound`. It maps what was sent to `Expected`: the packages `Among` the first `Intact` that are
longer than eight bytes, which `addBuffer` skips. A size of zero makes
`addBuffer` drop all it has cached, so what is handled afterwards depends on where TCP cut the
stream: `Intact` ends before the first such header, and `Seen` is what was handled without what
came after it.

What the run shows about the loop: packages are handled as long as no read fills the buffer
(`WholePackagesHandled`): the rest of a full read has no edge and waits for the device's next
bytes. An end of file that reaches an idle socket closes it (`EofNoticed`); one that shares
its edge with the last bytes does not, and the socket stays open until keepalive or a failed
write finds it. Bytes read before a reset in the same loop are dropped (`LossNeedsReset`).

## 5. `LogRelay`

The two log servers and the three static maps of `BaseServer`. One action is one handler, or
one call of `processMsg`, of either server.

| Variable | Code |
|---|---|
| `peer`, `dead`, `polled` | as in `Relay` |
| `asked` | `m_pcconn_map`: the PC socket registered for a TV |
| `attached` | `m_tvconn_map`: the PC socket in the `ConnectInfo` of a TV socket |
| `buffered`, `pending` | the keys of `m_message_map`, and what is in a socket's `MessageBuffer` |
| `room` | free space in the kernel's send buffer |
| `wrote`, `told` | history: what the kernel took, and how many units were handed to `writeMsg` while the link lived or a buffer took them |
| `stuck` | a thread waits for a mutex it holds |

A unit is a piece of a message that a write takes whole; a handshake is one, a log frame two,
so that a frame can be cut. A `MessageBuffer` is the concatenation of its `DataBuffer`s:
`processMsg` writes them front to back and never past a short one.

What a reader of the code may not expect:

* `disconnect` does nothing in either server. A socket that ends is never closed; its number
  is never reused, and that alone keeps the numbers in the maps valid (`AttachedToAsker`).
  The price is a descriptor per client until `accept` fails.
* `writeMsg` calls `disconnectByTVSockfd` with the socket whose write failed, which is a PC's,
  while the map it searches has TV sockets for keys. It never finds anything; if it did, it
  would lock its own mutex again (`NoSelfDeadlock`).
* A PC that asks after the TV announced itself gets nothing until the TV announces again.
* Any read of a TV that contains an empty line is taken for its id line. Log lines that TCP joins
  with the id are dropped with it, and a log line with an empty line in it is lost: `Announce`
  relays nothing.

The first two hold each other up: the mutant that makes `disconnect` close its socket breaks
both properties. `InOrder` says that short writes, the queue and `processMsg` lose, double and
reorder nothing while the link lives; `LinesArrive` that the queue drains as long as the PC
goes on reading.

## 6. `FileTransfer`

One connection stores or asks for one file: a header, a reply of four bytes, the file. The
sockets are never closed, so a descriptor is a transfer.

| Variable | Code |
|---|---|
| `request`, `sent`, `ended`, `reset` | the TV's side: what its header says, what it has sent |
| `taken` | history: what the read loop took |
| `filter` | `m_filter_map` of `FileDataFilterManager`, and the epoll set |
| `cached`, `render`, `missing`, `finished` | `m_cached_size`, `m_is_get_header`, `m_data_size`, `m_is_finish`; kept by the model after the filter is deleted |
| `offset`, `disk` | the file offset of `m_filefd`, the files |
| `short` | history: transfers with a disk write that failed or fell short |
| `registered` | the PCs `getConnectionById` finds |
| `told` | notices sent for a transfer |

Assumed of the TV: the length at the head of its header is the header's own, the name is not
empty, and it sends as many bytes as it announces. An eager TV does not wait for the reply.

What the run shows: a notice means that the file is on the disk, unless the disk failed or
another TV stores under the same name (`NoticeMeansStored`), and is given once
(`ToldOnce`), although `m_is_finish` is never reset. Bytes that share a read with the header
are never counted, and a file of no bytes never reaches the test: those transfers stay open
(`StuckNeedsMergedRead`); all others that the TV completes end in a notice to a PC that is
there (`NoticeArrives`). A file fetched from the server is answered with its size and never
sent: `writeFileToTV` is commented out.

## 7. `Digest`, `JsonText`, `VncPackage`, `Codecs`; `Handshake`

The first three modules define the conversions as operators; `Codecs` drives them. A behaviour
has one topic, and grows an input by one piece at a time, so that every prefix is tried: JSON
lexemes, pieces of a JSON string, characters of a number, a key for `Handshake`, and calls on one
`VncDataPackage`.

* `ReaderAgrees`. `Reader::parse` accepts the texts of the JSON grammar, given in `Codecs` as a
  definition without a reader (`Denoted`), and builds the value it gives them; strings mean
  the code points their escapes and bytes spell; a number that fits keeps its value, and others
  become the double their characters spell; every other text is refused. What differs from JSON is
  spelled out, in both directions:
  - text after the value is ignored, a comma may follow a last member whose name is empty, and a
    comment is not always a space (`OddComment`);
  - a raw control character in a string means itself, and half a surrogate pair is joined with
    whatever `\u` escape follows it (not stated what comes of it);
  - a bare minus is zero, and what begins with a number for `sscanf` is that number (`SloppyNumber`:
    `02`, `2.`, `-.2`, `2-3`), so malformed numbers are accepted and their tails dropped;
  - some integers past the limit wrap (`Wraps`).
* `WriteThenRead`. What `FastWriter` writes, `Reader` reads back as the same value.
* `PackageKeepsItsWord`. After any calls, bytes that count as current say what the package
  says and carry their own length and crc; a package that was only read goes on byte for byte;
  and only JSON that came from outside can end the process in `getKeyValue` or
  `addKeyValueParam`, whose `operator[]` and `asString` assert.

Characters are codes, words pairs of 16-bit halves; `MaxLargestUInt`, `MinLargestInt` and `MaxInt`
scale the ranges of numbers, so that they overflow within a few digits.

`Handshake` is the answer of `do_handshake` to a key. The key, with its GUID, goes into a `SHA1` object
character by character, as `operator<<` feeds it; `Result` may be called at any time, also too early
or twice, and the digest goes out in base64.

| Variable | Code |
|---|---|
| `key`, `fed` | `server_key`, and how many of its characters the object has been given |
| `sha` | the `SHA1` object: `Message_Block` up to `Message_Block_Index`, `Length_Low`, `Length_High`, `Computed`, `Corrupted`, and instead of `H` the blocks it was computed from |
| `answer` | `server_key` once it is the answer |

* `DigestIsSha1`. What is hashed is what was fed, as FIPS 180-1 pads it, in blocks of 64: a key that
  ends in the last nine octets of a block has its length in a second one, and the counter
  carries from `Length_Low` into `Length_High`. `LengthMod` stands for 2^32; at 512 it wraps every
  block.
* `AnswerIsDigest`. The answer has the 28 letters a browser expects, and `base64_decode` finds the
  standard's digest in them.
* `AnswersAsKnown`. With `Digest`'s rounds, the sample key of RFC 6455 and the first example of FIPS
  180-1 get the answers known for them.

What the rounds make of a block is the constant `Hash`: the properties but the last hold whatever it is.

## 8. `WebLink`

One browser's connection to the WebSocket server. The browser sends a request and then frames;
TCP cuts the stream where it likes (`Take(n)`), and the server handles what one read returned
without keeping anything for the next. `message_map` is `MessageManager`'s: `insertMessageBuffer`
fills a new `MessageBuffer` and never puts it in the map, so the queue is always empty and the
rest of a short write is gone.

| Variable | Code |
|---|---|
| `units`, `taken` | what the browser sent, and how many bytes of it the loop has read |
| `heard` | bytes handed to `parseDataPackage` |
| `got`, `messages` | what was written to the socket; the messages the server wanted to send |
| `sent` | history: those of them whose frame the socket took whole |
| `message_map` | `MessageManager::m_message_map` at this descriptor |
| `fate` | `"undefined"` once memory outside a buffer is touched, or the length loop does not end |
| `blurs`, `torn` | history, see below |

A loop over bytes, `do_parsebuffer`'s or that of a browser that reads frames (`Received`), is a function of
the number of turns it has made (`ParseFrame`, `ReadFrame`), which stays where it is once the code
leaves the loop; a frame takes two bytes at least, so that there are never more turns than bytes. `do_handshake` is
read by what `getline` and `find` find: `Lines` and `Headers` are where a line and a header begin,
`KeyHeaders` which headers give a key, of which `std::map` keeps the last. `IsRequest` and
`IsFrame` are what RFC 6455 has a browser send.

`blurs` counts reads that are not *clear*: that cut a frame, join frames whose headers differ in
size or mask, or hold masked bytes that look like the end of a request. The code decodes those
wrongly, from bytes behind the buffer or with the first frame's mask. `HeardAsSaid` says that
without them the relay hears exactly what the browser said, `AnswersTheKey` that the reply is
made from the key of the request and sent to nobody else, and `ReceivedAsSent` that messages
arrive in order as long as no frame was written in part (`torn`): one that is refused whole
costs no other.

## 9. `SharedState`, `Handlers`, `LogFile`, `Startup`, `Threads`, `OneByOne`

`SharedState` is one record of everything the threads share, and an operator for every manager
call: a call holds its manager's mutex from beginning to end (`BaseManager::Locker`), and so is
one step. What leaves the lock is a number, a flag, or a pointer, and pointers name objects of
`heap` that may be deleted. A handler is a list of calls still to make (`Handlers`, `LogFile`,
`Startup`); performing one may put others in front of the rest, so the lists unfold as the
code does, nested teardowns included. `Threads` starts from a *scene*, a shared state and the
first call of each thread, and takes the threads' calls in every order. `OneByOne` adds what the same
handlers do one after the other, with a recursive operator, and the two properties that compare.
`ThreadsAssumption` says what a scene of the log and of the start is: a log just opened, whose
threads log, accept or see the clock tick, each LOG call with a line of its own; and a main thread
that loads each unit once, with servers that serve and then use other units than the one that starts them.

Scenes: every pair of handlers of two different threads, from twelve states of a session and a
rendezvous entry; a client accepted while a handler runs over a dead link; the PHP port accepting while
a TCP and a WebSocket handler run; two or three
threads and the clock around a rotation of the log; six servers and the static initialisers in
three link orders. (The makefile links `utils` first and `src` in the order `$(wildcard)` gives, so
`ProcessManager` comes before `TVListManager` and `TVOnlineListManager` when that is
alphabetical.)

* `AsIfOneByOne`. What two overlapping handlers leave behind and have written is what they would
  one after the other, so that `Relay` is right about them. The exceptions are races of the code,
  each of which TLC shows when its conjunct is removed:
  - a registered device may be torn down, by a handler or by a write to a dead link, while another
    thread handles `REG_PC`, a forward, a PHP request, the timer or an accept: a `Connection` is
    used after it was deleted, a list keeps an entry, a reader goes with a number's old owner;
  - two of PHP request, `REG_TV`, `REJECT_HELP` and the timer meet at one TV's entry: each looks
    in one locked call and acts in another, so a waiting client may be forgotten or answered twice.
* `NewcomerKept`. A client that is accepted while a session is torn down may get a number just
  closed. It keeps its socket, though perhaps not its reader, unless the session may end twice, because
  a second thread serves it or a link is dead: then a number is closed twice, the second time
  perhaps the newcomer's, or accept's own `fcntl` or `epoll_ctl` fails and exits the process.
* `LinesKept`. `Logger` has no lock. A line is lost only if another thread rotated the log
  meanwhile, and older lines only if two rotations within a second gave their files one name. A
  rename that fails loses nothing, because `setLogFile` always appends, whatever its
  `append` argument and the comments about emptying the file say.
* `StartsClean`. Threads run before `main` and before other units' initialisers. A thread that uses
  a manager which does not exist yet ends the process; that cannot happen if `ProcessManager`'s
  unit comes last. A server whose port is taken goes on without an epoll instance:
  `epoll_wait` fails and the process exits, unless the uninitialised `m_epollfd` happens to name
  another server's instance, and the port is silently not served.

The timer runs on the main thread here. A signal may be delivered to any thread, and on a server's
it would interrupt `epoll_wait` and end the process.

## 10. Runs

| Run | Instance | Question |
|---|---|---|
| `relay_pcs` | 1 TV, 2 PCs, 3 descriptors | registry, pairing, readers and teardown when PCs compete, links die and handlers free their reader |
| `relay_php` | 1 TV, 1 PC, 2 PHP clients, 3 descriptors | whom entries name; no client is dropped without a word; every wait ends |
| `relay_tvloss` | as `relay_pcs` | *violated*: a PC that controls a TV is told when the TV is lost |
| `relay_verdict` | 2 TVs, 2 PHP clients, each asks for one TV | *violated*: an "ok" reaches a client that asked for that TV |
| `relay_exit` | 1 TV, 1 PC, 2 descriptors | *violated*: `PC_NEED_EXIT` ends a session, not the process |
| `inbound` | sizes 0, 8, 9; 3 packages; buffer of 12 bytes | in-order delivery, losses, end of file |
| `log_relay` | 3 TVs, one with a zero byte in its id, 2 PCs, 2 descriptors, a send buffer of 2 units, 4 units | whose lines go to whom; short writes are finished, in order; no thread waits for itself |
| `file_transfer` | 2 transfers, 1 name, sizes 0 and 2, a header of 2 units, an old file of 3 | what a notice is worth; every complete file is announced |
| `file_path` | the same | *violated*: the path a PC is told leads to the file the TV sent |
| `codecs` | texts of 7 lexemes, 3 string pieces, 5 characters of a number; 4 keys of up to 130 characters, ended anywhere, a counter that wraps at 512 bits; 3 calls | do the conversions mean what their formats say, and is a browser answered as the standard asks |
| `web_link` | bytes of 5 bits, a buffer of 23, a request and 2 frames or messages, 2 blurred reads | what the browser said and what it is sent, across TCP's cuts |
| `threads` | the scenes of section 9; 8 descriptors | which overlaps are as good as one handler after the other, and what the others lose |

**Bounds.** Three descriptors hold a whole session and one stranger, or two competing PCs and
their TV, so every descriptor is reused by another device; with fewer, no bystander exists.
Ids put a TV between two PCs because `getConnByReadSockfd` returns the first match in id
order. Two PHP clients are enough for one to replace, or inherit the number of, the other.
Nothing in `Relay` counts, so no counter is bounded; the entry's age is one bit, older than
`PHP_TIMEOUT` or not. In `Inbound` the buffer is scaled from 10240 to 12 bytes, which leaves
11 per read: more than one package, less than two, so that reads end inside headers, inside
bodies and on boundaries. Sizes 8 and 9 are the two sides of the skip limit. `MaxSent` is the
only counter bound. In `LogRelay` `MaxTold` bounds the units per socket: four are two
frames, or a frame among handshakes, so that a frame is cut at every place by a buffer of two
units and a later message finds the rest of an earlier one in the queue. In `FileTransfer` a header and a
file of two units each are read whole, cut inside, or cut across their boundary; the old file
is longer than either. `WebLink` scales a byte to five bits, three of them the opcode (`TOP` 16 for 128, `OPCODES` 8 for
16, `BitXor` the bitwise operator): a length of 14 takes the two-byte form; a message of 14 still fits `BUFF_SIZE` with its header and one of
20 overruns. The eight-byte form is only for messages far over the buffer, an overrun too. `MaxUnits` bounds what is sent;
`MaxBlurs` the reads that are not clear, whose results only breed more of their kind. `Codecs`
takes seven lexemes so that an object holds a member and an array an element beside a comment,
and three calls after which a package has been received or created, changed and asked. `Handshake` counts nothing: its longest
key is longer than two blocks, and is ended after every character. In
`Threads` eight descriptors leave free numbers above those in use, so that accept may take either
a fresh number or one just closed; `MaxCalls` ends a runaway teardown, which is the only way a list
grows to forty; `MaxSize` is the log's limit of two lines.

The runs of `Relay` use a VIEW without `out`. No action, fairness condition or liveness property
reads `out`, so the states it would tell apart have the same future, `WaitEnds` included, and an
action property about `out'` is evaluated on every step TLC takes, to new states and to old.

Deadlock is not checked: the process may die, and nothing restarts it; a closed connection
has no further steps; in `LogRelay` every descriptor may be taken by a client that is gone; in `FileTransfer` every
file may have been sent; the other modules end when their input or their calls do.

**Fairness.** `Relay`: weak fairness of `Tick` and of `Age`, since time passes and the
interval timer re-arms itself (`it_interval`). Nothing is assumed of devices or of the loops,
so `WaitEnds` holds whatever they do. `Inbound`: weak fairness of the loop's steps, a thread
that does nothing else, and of arrivals, since TCP retransmits until it resets. `LogRelay`: weak fairness of `ProcessMsg`, which both
servers call after every `epoll_wait`, and that returns after `EPOLL_TIMEOUT` (100 ms) at the
latest. `FileTransfer`: weak fairness of the server's reads, nothing of the TV or the PC. `Codecs`, `WebLink` and
`Threads` state no liveness. Nothing
is assumed of the PC in `LogRelay` either: `LinesArrive` is about one that does not stop reading.

### What the violated properties show

* `TvLossIsTold`. `CommandId.h:60` says the PC is told when the TV of its session loses the
  server. `REG_TV` over a live session, or a second `REG_PC`, rewrites the TV's connection, and
  the first PC is never told.
* `VerdictToAsker`. `TcpSocketServer.cpp:111`: "it exists: tell the PHP client that the TV accepts". A
  waiting client that hung up leaves an entry whose descriptor may by now be another client's.
* `ExitOnlyDisconnects`. `WebSocketServer.cpp:181` and `CommandId.h:61`: the PC disconnects. With a
  dead TV link the two teardowns call each other until the stack is full.
* `PathIsTheFile`. `CommandId.h:64`: the notice names the file captured from the TV. The file
  is opened without truncation, so a shorter one keeps the tail of its predecessor.

## 11. Proofs

`RelayProofs` proves, for all finite sets of TVs, PCs, PHP clients and descriptors that satisfy
`RelayAssumption` (ids are non-zero naturals and disjoint, each PHP client asks for a TV):

| Theorem | States |
|---|---|
| `SpecTypeOK` | `TypeOK` |
| `SpecReadersMatchSockets` | `ReadersMatchSockets` |
| `SpecRegistrySound` | `RegistrySound` |
| `SpecPairingSymmetric` | `PairingSymmetric` |
| `SpecSessionIsOnline` | `SessionIsOnline` |
| `SpecEntryNamesAsker` | `EntryNamesAsker` |
| `SpecConsistent` | the inductive invariant behind them |

The properties are not inductive one by one: that a teardown leaves the registry sound needs
the pairing to be symmetric, which needs the partner's descriptor to be the one it is read
from, which needs descriptors to be distinct per device. `Consistent` joins them. It is
stated on a snapshot, `Kept(s)` for what always holds and `Sound(s)` for what holds until
something is overtaken, so that one formula serves before a handler, between its calls and
after it. In the middle of a teardown sockets are closed before their connections are
forgotten; `SoundBut(s, ids, fds)` is `Sound` except for those ids and descriptors, and each
call's lemma says what it adds to or takes from the exception. For the recursion, `Frames` is
shown to be the least set closed under failing notices, and in a sound snapshot it stays
within one session. There is one lemma per call, one per action, and the step lemma that
splits on `Next`. `Consistent` was also checked with TLC on the instances of `relay_pcs` and
`relay_php` before it was proved.

Its second part proves, under the same assumption, what a step may never do:

| Theorem | States |
|---|---|
| `SpecNoBystander` | `NoBystander` |
| `SpecRunawayNeedsDeadTv` | `RunawayNeedsDeadTv` |
| `SpecServedUntilClosed` | `ServedUntilClosed` |

The first two follow a handler from call to call. `Contained(s, ds)` says of a snapshot that the
sockets closed so far belong to devices of `ds`, that the partners of `ds` are in `ds`, and that
a runaway recursion has met a dead TV; `ds` is a device and its partner, or the TV and the PC that
`REG_PC` joins. What carries the argument through a nested teardown is `TornInside`: the
descriptors of `ds`, and the closed ones, are closed under hops, and `Frames` is the least such
set. `RunawayTv` is the other half: a recursion without end hops to a TV, since hops alternate
between the two kinds of device, and a TV's socket cannot have been closed before its connection is
forgotten, so it fails because it is dead. The third needs no session at all: each call closes what
it takes from epoll (`Vacates`), which composes; only `DISCONNECT_REPLACE` does not, and it is
looked at by itself. It therefore holds past an overtaking too.

The third part proves what a step has to tell:

| Theorem | States |
|---|---|
| `SpecSessionEndIsTold` | `SessionEndIsTold` |
| `SpecSessionEndClearsLists` | `SessionEndClearsLists` |
| `SpecEntryDropIsTold` | `EntryDropIsTold` |

`Accounted(s)` says of a snapshot, between two calls of a handler, that each session ended so far
has been told of or the recursion has run away, that the TV of each is on neither list but for the
two exceptions the property names, and that each waiting client whose entry is gone has heard
something or its TV has lost a socket. Every call keeps it. The step that carries the weight is
`FrameTold`: a frame of the recursion that finds one end of a session either writes its notice, or
hops to the other end, whose frame writes back, or hops back; two ends that both fail are all
there is to the recursion, which then never returns. That two connections never read the same
descriptor (`SoleReader`) makes the other end's frame find the other end, also in `PC_NEED_EXIT`,
where one socket is closed before its connection is forgotten. `WriteMsgHeard` says what the
exceptions rest on: a message to a registered device is heard, or its session is over.

`LogRelayProofs` proves, for all finite or infinite sets of TVs, PCs and descriptors, every
buffer size and every bound that satisfy `LogRelayAssumption`:

| Theorem | States |
|---|---|
| `SpecTypeOK` | `TypeOK` |
| `SpecAttachedToAsker` | `AttachedToAsker` |
| `SpecInOrder` | `InOrder` |
| `SpecNoSelfDeadlock` | `NoSelfDeadlock` |
| `SpecConsistent` | the inductive invariant: these four, and `AskersAsk` |

`AttachedToAsker` needs `AskersAsk`, its counterpart for `m_pcconn_map`, from which `Announce`
fills the other map. `NoSelfDeadlock` needs `AttachedToAsker`: only sockets of TVs have a
`ConnectInfo`, and only those of PCs are written to. `InOrder` needs that a socket without a
buffer has nothing waiting; `WriteMsgKeepsQueues` and `ProcessMsgKeepsQueues` carry it through
every way of cutting a message, with one lemma, `FirstAndDrop`, about the cut.

`FileTransferProofs` proves, for any transfers, PCs, names, file sizes and old files that satisfy
`FileTransferAssumption`, and any way TCP cuts the stream:

| Theorem | States |
|---|---|
| `SpecTypeOK` | `TypeOK` |
| `SpecToldOnce` | `ToldOnce` |
| `SpecStuckNeedsMergedRead` | `StuckNeedsMergedRead` |
| `SpecNoticeMeansStored` | `NoticeMeansStored` |
| `SpecConsistent` | the inductive invariant behind them |

`Consistent` has four parts for each transfer. `Counts`: the missing bytes are the file's size less
what was read after the read that ended the header, so a finished transfer has read all there is,
cannot read again, and is told of once. `Notices`: who was told is finished. `Within`: the offset is
inside the file. `Written`: up to the offset the file is what the TV sent, as long as no write
fell short, nobody shares the name and the header ended at the end of its read; a transfer that
finishes meets the last condition by `Counts`.

`InboundProofs` proves, for any sizes a device may announce, any buffer and any number of packages
that satisfy `InboundAssumption`, and any way TCP cuts the stream:

| Theorem | States |
|---|---|
| `SpecTypeOK` | `TypeOK` |
| `SpecCacheFits` | `CacheFits` |
| `SpecLossNeedsReset` | `LossNeedsReset` |
| `SpecFIFO` | `FIFO`: every behaviour of `Inbound` is one of `PackageStream` |
| `SpecConsistent` | the inductive invariant behind the refinement |

The assumption asks that a size is zero or at least four, counts its own header, that it fits an `int` as
the code decodes it, and that the loop's buffer has room for a header. `MaxSent` is at most 255, since
a package is told from the others by its bytes.

`Consistent` follows each byte from the device to the handler. The bytes under way, in the cache, the
loop's buffer, the kernel's queue and on the wire, are `Pending`; `OnStream(k)` says that what was
handled is what is among the first `k` packages, that `Pending` begins where the `k`-th ends (and,
unless the connection was reset, is all of the rest), and that `m_pkage_size` is zero or the size of
the next. Or the stream has ended, `PastEnd`, and all before the end was handled. A step that moves
bytes leaves `Pending` as it was; `Receive` is the one that moves `k`, and `ScanFollows` says how: if the
cache holds a beginning of the stream after package `k`, `Scan` pushes the packages up to a later
one and keeps a beginning of the stream after that. It goes by induction over the bytes in the
cache. Two lemmas come first, since TLA+ defines a recursive function by a choice: `ScanStepwise`,
that the function which satisfies the equation of `Scan` exists and is unique, and `FlattenSeqIs`, the same
for the library's `FlattenSeq`. The header is decoded to the size it was made from for every size,
not only for small ones (`HeaderSize`). `CacheFits` needs none of this: the cache never holds more than was
allocated, and a chunk is smaller than one growth.

`DataLemmas` has what several of these modules need about data: the least element of a set, induction
over the naturals, how a sequence is split, `FlattenSeq` step by step, and loops by their turns. `Induction` is stated about
a set of numbers instead of an operator, since the provers cannot instantiate an operator; it
follows from there being a least number outside of the set.

`ThreadsProofs` proves, for any number of threads, any jobs, descriptors, units and link orders that
`ThreadsAssumption` allows:

| Theorem | States |
|---|---|
| `SpecLinesKept` | `LinesKept` |
| `SpecStartsClean` | `StartsClean` |

Both follow from `Inv`. What a thread has still to call is the rest of its current job followed by
the jobs after it, so `At` says where it is: `Position` has the number of jobs it has begun, a
stage of the LOG call it is in (about to write, deciding whether to rotate, having closed the
log, opening it again) and the calls left of that stage. `JobStep` has one lemma per stage.
`LogKept` is about the files: each is in the directory unless two rotations gave theirs one
name, and until the first rotation the log is the file of the start. `Rotations` ties the files to
the threads: a line on the list of rotations belongs to a call that has closed the log, a call about to rename is on
the list, a line written is in a file or another call is on the list, and two names given mean two
calls on the list. The last is why each LOG call needs a line of its own: two rotations on
behalf of one line would be listed as one. `LinesKept` is what remains when all threads are done.

For the start, `MainLoads` says that the main thread is at the last step of loading some unit and has
loaded all before it, and `LoadedBefore` that, once a server has been created, all units before
`ProcessManager`'s are initialised. If that unit is the last, a thread that uses any other finds it.
`Serves` says that a thread past its first call serves, or that the descriptor in
`m_epollfd` happened to name another instance.

`WebLinkProofs` proves, for any requests and frames RFC 6455 allows, any width of a byte and of an opcode, any
buffer and message sizes that `WebLinkAssumption` allows, and any way TCP cuts the stream:

| Theorem | States |
|---|---|
| `SpecReceivedAsSent` | `ReceivedAsSent` |
| `SpecAnswersTheKey` | `AnswersTheKey` |
| `SpecHeardAsSaid` | `HeardAsSaid` |

The assumption gives a byte at least twice the values of an opcode, puts CR and LF among the bytes without
reserved bits, wants of `BitXor` that it is its own inverse, and of requests and frames that they are
well formed: a request ends in its first empty line and has its key in one header, the others are free.

Four invariants carry the theorems. `WebType` says that `message_map` is empty, because
`insertMessageBuffer` adds only to queues that exist; hence a write is never put off. `WholeReplies`: unless
a frame was torn, what the socket took is a reply followed by the frames of `sent`. `Unread`: until something is read,
nothing was written and at most the request was sent. `AnswersTheKey` is not inductive without it, since
a reply could be written before its key was sent. `Heard`: the reads so far end with
some unit `i`, what was heard is what the first `i` units say, and only a message longer than its
buffer makes the fate undefined. A step of `ParseFrames` extends `i` by the
frames of a clear read. The lemmas it rests on say what such a read is (`ClearFrames`), that a turn of
the loop over a frame, at any place and in either form of its length, hands on its payload (`ParseOne`; in a
clear read the mask that the code finds behind the first header is every frame's), and that the
turns stop behind the last frame, or at a close frame, after which a browser sends nothing
(`ParseRun`). `ReceivedFrames` is the same for the browser: from a sequence of frames it reads their
payloads. `RequestKey` is about the handshake: the code finds the key that the browser put into its
request, wherever its header stands, and stops at the empty line.

As in `InboundProofs`, the loops have to be shown to exist before they can be unrolled, since
a recursive function is a choice; `DataLemmas` does that once for all loops that are functions of their turns
(`TurnsExist`, `TurnsStepwise`).

`HandshakeProofs` proves, for keys of any length, any width of the length counter that is a whole number of
octets, and any compression function:

| Theorem | States |
|---|---|
| `SpecDigestIsSha1` | `DigestIsSha1` |
| `Base64Inverse` | base64 is undone by its inverse, for any octets |
| `SpecAnswerIsDigest` | `AnswerIsDigest` |

`Cut` says of an object that the blocks it has processed and the block it is filling are the text it was
given, cut in 64s; a character keeps that (`InputAbsorbs`), and so do the mark, the zeros and the length
that `PadMessage` adds in one block or in two (`PadCuts`). `ZerosChosen` shows that the zeros which
reach the end of a block are those the standard chooses, and `Counts` that the two halves of the counter
are the length in bits. `ShaInv` joins them: `DigestIsSha1` alone says nothing of an object that has not been
asked yet. For base64, `SixBits` takes three octets through four times six bits, `EncodedSays` and
`DecodedIs` are about one group, short ones included, and `ReadableIs` says that the decoder stops
exactly at the padding. That a text cut in groups is joined again (`GroupsJoin`) serves all of them.

Only model-checked: of `Relay`, `WaitEnds`; of `LogRelay`, `LinesArrive`; of `FileTransfer`, `NoticeArrives`; of `Inbound`,
`EofNoticed` and `WholePackagesHandled`; of `Handshake`, `AnswersAsKnown`; and everything about `OneByOne`, JSON and packages. Liveness and
fairness are out of TLAPS' reach and left to TLC for good. So is what the JSON reader and writer compute for
every input (`ReaderAgrees`, `WriteThenRead`, `PackageKeepsItsWord`): a text nests to any depth, so `JsonText` needs `RECURSIVE` operators, which cost the
prover its arithmetic, and a proof needs induction over the text with an operator as its hypothesis.
`AsIfOneByOne` and `NewcomerKept` compare the interleavings with `OneByOne`'s recursive `Run`, for the pairs
of handlers and the shared states that the instance enumerates; they are statements about these scenes. `AnswersAsKnown` is about two keys, and `Digest`'s rounds are
recursive and bitwise.

## 12. Not modelled

* **Races inside a call.** A manager's call is atomic here because it is locked. The timer's walk
  over the TV map and `Logger`'s members are not locked: two accesses at once are undefined
  behaviour, of which the model takes the outcomes in some order of the calls.
* **The two log servers at once.** `processMsg` and the static maps have no common lock; any overlap is
  a data race on the containers, and a finer model could only say that anything may follow.
* **A signal on a server's thread**: `epoll_wait` fails with `EINTR` and the process exits, and inside
  a call of `TVListManager` the handler waits for its own thread's mutex.
* **Events of one `epoll_wait` batch** for a descriptor that an earlier event of the batch closed.
* **Dead code**: `SocketServer::processMsg`, which `process` calls after `processEpollEvents`, whose
  loop does not end; `WebSocketServer::do_parseMsg`, which nothing calls; `init_daemon`,
  commented out in `main`; `writeFileToTV`; flatbuffers and `VncPackageContent_generated.h`.
* **jsoncpp beyond its use here**: the text of comments and of errors, `StyledWriter` and the stream
  writers, `Path`, comparisons, the formatting of reals, nesting deep enough for the stack.
* **What clients of the log servers do not send**: an id line of more than 20 bytes, which overruns
  `id`; a log line with an empty line right after four bytes, which would be taken for an id; a PC's
  request that TCP cuts or joins, or that is longer than `do_parseMsg`'s buffer.
* **An empty header line** (an LF alone) in a browser's request: `header[header.size() - 1]` is
  undefined; `WebLink` has what libstdc++ makes of it, the line is ignored.
* **Codec inputs out of the ordinary**: received packages under 32 bytes, whose fields are read
  past their end; ping frames and unmasked frames of a browser; failed writes in `WebLink`, which are
  `Relay`'s.
* Wording and layout of messages and log lines.
