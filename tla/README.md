# A TLA+ model of tcpkit

tcpkit captures packets (from a device or a file), recognises the servers in
them by their handshakes, pairs requests with responses, prints the latency of
each exchange and serves counters and latency histograms on a TCP port. This
directory holds a model of it: TLA+ modules translated from `src/src/*.c`,
TLC configurations that check them on small instances, and TLAPS proofs of the
main properties for every value of the constants. `PROJECT.json` maps each
definition to the lines it models.

Run a check with `tlc -config MCTracker.cfg MCTracker`, a proof with
`tlapm TrackerProofs.tla`.

## Inventory

| Component | Source | State | Operations |
|---|---|---|---|
| Request tracker | `packet.c` | `syn_tab`, `requests`, `expire_primed`, `last_expire` | `process_user_packet` and what it calls |
| Hash table | `hashtable.c` | buckets of chains, `size` | create, add, get, del, sweep, values, destroy |
| Statistics | `stats.c` | `struct query_stats` per endpoint | `stats_incr`, `stats_observer_latency`, `create_stats_object` |
| Stats thread | `server.c` | `stats_lock`, the reply under construction | `server_stats_loop`, `server_stats_to_json`, `write_all` |
| Lifecycle | `tcpkit.c`, `server.c`, `sniffer.c` | global `srv`, `stopped`, libpcap's break flag, the thread | `main`, `server_create/run/terminate/destroy`, `signal_handler` |
| Frame decoding | `sniffer.c`, `packet.c` | none | `packet_handler`, `process_tcp_packet`, `process_udp_packet` |
| Protocol formatters | `protocol.c` | a growing buffer | `format_redis`, `format_memcached`, `format_http`, `format_raw` |
| Sniffer construction | `sniffer.c` | what was acquired so far | `server_create`, `sniffer_create`, `sniffer_online`, `sniffer_destroy` |
| Options | `tcpkit.c` | `struct options` | `parse_options`, `free_options`, the clamp of `snaplen` in `main` |
| Dumper | `dumper.c` | a pcap dump file | `dumper_create`, `dumper_write`, `dumper_destroy` |
| Lua binding | `lua.c`, `packet.c` | the interpreter, the pace of its collector | `lua_state_create`, one call per packet |
| Output, logging | `log.c`, `packet.c` | none | `log_message`, `print_user_packet` |
| JSON reply | `server.c`, `stats.c`, `cJSON.c` | linked items, the print buffer | creation, addition, deletion and printing of items |
| libpcap, Lua interpreter | external | | |

How they interact. libpcap calls `packet_handler` on the main thread for each
frame. The handler decodes the frame and calls `process_user_packet`, which
works on the two hash tables. `requests` belongs to the main thread. `syn_tab`
and the counters in it are read by the stats thread, under `stats_lock`. The
main thread takes the lock up to twice in a call. A signal handler, on either of
the threads, sets `stopped`, which the stats thread polls, and libpcap's break
flag, which ends the capture. The main thread then joins the stats thread and
frees everything.

What is hard here, and what makes each part correct:

- *Tracker.* A sweep runs only when a packet comes, and the clock is the
  capture's, which may step back. Requests are retransmitted, segmented,
  pipelined, lost; the table is full; allocations fail. Correct: the table is
  bounded in size and in age, a pending request leaves it only by being answered
  or by expiring, no request is sampled twice, and the lines tell the truth.
- *Shared counters.* The stats thread walks the table between any two critical
  sections of one packet. Correct: a reply is the state at one instant,
  successive replies never go back, nobody waits for ever.
- *Lifecycle.* The handler races main in `server_terminate`; the stats thread may
  be anywhere when the capture ends. Correct: nothing is used after it is freed,
  and every way to stop the program stops it.
- *Decoding.* Five lengths of three origins. Correct: nothing outside the capture
  is read, nothing inside a whole frame is lost.
- *Capture.* The snapshot length cuts what the tracker sees, and `main` lowers it
  to 256. Correct: a cut that leaves the headers changes no latency and no counter.
- *Hash table.* Entries are unlinked from a chain while it is walked, the values
  array grows while it is filled, every allocation may fail. Correct: each call as
  a whole acts on a map, no freed pointer is followed, values go with their entries.
- *Options and start.* Strings move between the options and the sniffer, a dozen
  acquisitions share one error path, the fallback device replaces a name that is
  owned elsewhere. Correct: a command line is read as written or rejected, nothing
  is freed twice or left behind.
- *Formatters.* A captured payload has no terminator and may end in the middle of a
  field. Correct: neither payload nor buffer is left, the line is one line.
- *JSON reply.* The code looks at none of cJSON's results. Correct: no item hangs in
  two places, no number gets a foreign name, nothing is written outside the buffer.

## Modules

| Module | Models | Extends |
|---|---|---|
| `Table` | what `hashtable.c` promises its callers | |
| `Stats` | `stats.c` | |
| `Tracker` | `process_user_packet` in protocol mode, one action per path | `Table`, `Stats` |
| `Session` | the traffic of clients and a server, seen by the tracker | `Tracker` |
| `SharedStats` | both threads, split at lock operations; implements `Tracker` | `Tracker` |
| `Lifecycle` | main, stats thread, signal handlers | |
| `Decode` | `packet_handler` and the parsers | `Table` |
| `Capture` | `packet_handler` with all it calls: decoder, Lua, raw printer, tracker | `Tracker`, `Decode` |
| `TableSpec` | the calls of `hashtable.c` as a specification | `Table` |
| `HashTable` | `hashtable.c`; implements `TableSpec` | `TableSpec` (instance) |
| `Options` | `parse_options`, `free_options`, `main` up to the server | |
| `Startup` | `server_create`, `sniffer_create` and the releases at the end of `main` | `Options` |
| `Protocol` | `protocol.c` | |
| `PrintBuffer` | the buffer of `cJSON_Print` | |
| `JsonPrint` | the printing functions of cJSON, as programs of `PrintBuffer` | `PrintBuffer` |
| `JsonTree` | how `server_stats_to_json` and `create_stats_object` link the items of cJSON | |
| `StatsReply` | `server_stats_to_json` as a whole: build, print, delete | `JsonTree`, `JsonPrint` |
| `MC...` | instances for TLC | |
| `TrackerProofs` | theorems on `Stats`, `Tracker`, `SharedStats` and `Session` | `SharedStats`, `Session` |
| `ReplyProofs` | theorems on `JsonTree` and `PrintBuffer` | `JsonTree`, `PrintBuffer` |
| the other `...Proofs` | theorems on the module in the name (`StartupProofs`: on `Options` too) | that module |

*Table.* A table is a function on all keys with `NULL` where nothing is stored.
`hashtable_add` keeps the first value of a key, as the code does; its two callers test
for an entry first, as `WithEndpoint` and `WithRequest` do.

*Tracker.* The variables are the fields of `struct sniffer` that the handler
uses, `printed` (the latency on the line of the last packet), and `newest` and
`npackets`, which belong to the environment. Keys are the endpoints themselves,
since the formatted keys are injective; time is microseconds. Of a packet the
model keeps the endpoints, SYN and ACK, whether there is captured payload, the
frame length and the timestamp. Every packet first goes through
`expire_stale_requests`; then exactly one of `RegisterEndpoint`, `IgnoreEmpty`,
`IgnoreUnknown`, `process_request_packet` and `process_response_packet` applies.
`ok` is `FALSE` when one of the allocations of the path fails, which includes a
formatter that returns `NULL`.

*Session.* Tracker's actions driven by connections, whose kind of traffic
(pipelining, segments, missed answers) is chosen at the start. The module remembers the true
latency of each exchange, which the tracker cannot see, and compares it with the
line. A retransmission is a further segment of a request that waits, or of a response
before the next request. The code compares no sequence numbers, so a segment that
comes again later is measured wrongly: a request after its answer is recorded as a new
one (`packet.c:218`), a response after the next request is taken as its answer
(`packet.c:253`). Such traffic is left out, and `ReportsTrueLatency` claims nothing
about it. Everything of the environment is marked external in the map.

*SharedStats.* The same handler, one step per lock operation and per assignment
in a critical section. `done` is the state at the last return of a handler;
`INSTANCE Tracker WITH` its fields is the refinement mapping. Steps without the
lock touch only what the capture thread owns and are merged with their
neighbours. The walk's allocations are assumed to succeed.

*Lifecycle.* `mainPc`, `statsPc` and `handlerPc` are the positions of the two
threads and of the signal handler on each of them. A handler suspends its
thread. A second signal does not interrupt a running handler: a nested handler
runs the same idempotent steps. Uses of freed memory set `misused` (stats
thread) or have every outcome (handler). Of `pcap_loop`, the sleep and the four
ways it goes on are modelled: on a device with a current Linux kernel the
vendored libpcap 1.9 sleeps in `poll` without a timeout.

*Decode.* A frame is its link type and the lengths it claims; `upto` records how
far a parser looked. The handler keeps nothing between frames, so a behaviour of
`DecodeSpec` handles one frame.

*Capture.* Each frame goes to the decoder and from there to one of the three
modes. In raw mode, where nothing is kept, one frame is followed with the variables of
`Decode`; in the other two a capture of several frames is. The frames on the wire and
the snapshot lengths are given per mode (`Shapes`, `Snaplens`). The variables of
`Tracker` belong to the program; a second tracker, `W`,
gets the same frames uncut and is what the program is compared with. A Lua script
that fails ends the process, as `log_message(FATAL)` does.

*TableSpec, HashTable.* `HashTable` takes one step per iteration of a loop, on
entries with addresses; `live` are the values that are allocated. The refinement
mapping is the map the chains stand for between calls, and the map before the call
during one. `hashtable_values`
may return a part of the entries, when its array cannot grow, and `TableSpec` says
so.

*Options, Startup.* An argument is a model of what the code tells apart: an option
letter, a number, a protocol, any other word. `live` counts the allocations of
each field of `struct options`. `ParsedAsWritten` says what a command line means
without running a parser: in a row of options that want an argument, every second
one is an argument (`Taken`). `Startup` goes on with the acquisitions of
`sniffer_create`; `res` counts what is held, `fields` are the pointers of
`struct sniffer` that are set, and `sniffer_destroy` looks at these only, as the
code does.

*Protocol.* A payload is a sequence of bytes of few kinds: `*`, CR, LF, other
unprintable ones, the rest. The four formatters append fields and separators to a
buffer one step at a time. `LineAsJoined` compares the line with a definition by
places: which places of the payload belong to the joined line (`Line`), in which
order, and that the buffer holds as many of them as it has room for (`Holds`).

*PrintBuffer, JsonPrint.* The printing functions are seen by the buffer as a
sequence of calls of `ensure` with the writes that follow. `PrintBuffer` takes any
such sequence that reserves what it writes (`DisciplineAssumption`) and moves the
offset over it (`AdvanceAssumption`), `JsonPrint` is the sequences that `print_value`
and its helpers amount to, and TLC evaluates the assumptions on them. cJSON is vendored; the part the program calls is modelled
because the reply rests on it.

*JsonTree, StatsReply.* One step per call of cJSON, each allocation failing or not;
items are records with the links `next`, `prev` and `child` and the key. When the
tree is built, `StatsReply` prints it with the actions of `PrintBuffer` and deletes
it. `TreeSpec` of `JsonTree` is the same without the printing (`HandOver` stands for
it), which changes no item.

## Runs

| Run | Result | What it shows |
|---|---|---|
| `tracker` | pass | bounds on size and age, no silent drop, no double sample |
| `session` | pass | one true line per exchange slower than the threshold and none per faster one, with segments, and retransmissions while the exchange lasts; a missed response makes a line too long, never too short |
| `pipeline` | violation | the second of two pipelined requests has no line; the e2e test says "one line per request" |
| `threshold` | violation | an exchange exactly as slow as the threshold has a line; `README.md:41` says only slower ones |
| `shared_stats` | pass | replies are growing cuts, no deadlock, refinement of `Tracker` |
| `lifecycle` | pass | the stats thread is gone before the free unless the capture failed; stops are effective |
| `lifecycle_error` | violation | when `pcap_loop` fails, the server is freed under the stats thread |
| `capture` | pass | a snapshot longer than the headers changes no state of the tracker; reads within the capture, whole frames kept, snapshot length only truncates |
| `hash_table` | pass | each call acts on a map; freed entries are not followed; values are freed with entries |
| `startup` | pass | a command line is read as written or rejected; no release twice, nothing left but the Lua state of a broken script |
| `protocol` | pass | formatters stay in buffer and payload and print the joined fields, cut once |
| `stats_reply` | pass | lists stay whole, no foreign names, no write leaves the growing buffer, the text is whole, nothing left when memory sufficed |

Bounds. `tracker`: six packets between three endpoints over nine instants, with a
timeout of 3, an interval of 2, a skew of 1, a threshold of 2 and a ceiling of 2;
a handshake, requests on three connections (one too many for the table), a
response, a retransmission and several sweeps fit. `session`: two clients, nine
packets, seven instants, which is two exchanges each with extra segments, or three
of which two are missed. `threshold`: the same clients with a threshold of 2, below the
timeout, so that an exchange can be faster, as slow and slower.
`shared_stats`: four packets are a handshake, a request, its response and one
more, with two clients of the stats port walking at any point; one frame size, so
that torn byte counters show as a wrong product. `lifecycle`: two signals (one on
each thread or two on one), two clients, replies of two writes. `capture`: header sizes
are scaled to a few bytes. In raw mode, all frames of up to 11 bytes with all lengths
they may claim, under all snapshots of up to 11 bytes; the arithmetic is linear, and the
theorems cover the real sizes. In the other modes, five frames of seven
shapes (segments with and without options and payload, a datagram, a frame that
claims too much, another network layer, another link); the longest headers take 13
bytes and the snapshots are 9, which cuts them, and 14, which does not; the real
numbers are 16+60+60=136 and 256. `hash_table`: two buckets, three of four keys in
one chain, so that the head, the middle and the tail are unlinked, four values and
addresses. `startup`: every command line of up to three arguments over the kinds the parser
tells apart, every pair of options with a string (the same one twice included), and
one command line for each combination of source, outputs and filter.
`protocol`: payloads of up to eight chunks, a buffer of four
bytes, so that the limit is met inside a field, inside a separator and between.
`stats_reply`: up to three endpoints, two counters, three buckets, two failures
anywhere; a first buffer of four bytes, which grows several times, and an `INT_MAX`
of 130, which the reply of two endpoints fits and that of three exceeds. The
assumptions of `PrintBuffer` are evaluated on items of every kind, with characters
that are escaped, although the replies have none. Symmetry is over endpoints
(`tracker`), clients (`session`) or keys of one chain, values and addresses
(`hash_table`), in runs without liveness.

Deadlock is not checked where the bound on packets ends a behaviour (`tracker`,
`session`, `pipeline`, `threshold`, `shared_stats`, `capture`) or where it is one frame
(`capture` in raw mode), one start of the program (`startup`), one payload (`protocol`) or one reply
(`stats_reply`), nor for `hash_table`, whose table ends when it is
destroyed. `lifecycle`
checks it; the only final states are those after the exit.

Fairness. `SharedStats`: strong fairness of each thread, because
`pthread_mutex_lock` does not starve a thread that waits while the lock is
released again and again; packets and clients need not come. `Lifecycle`: weak
fairness of both threads and of the handlers, of the wake-up by a packet and of
`write`. The last two are assumptions about the world: a client that never reads
blocks the join, and on a silent device a signal that lands on the stats thread
does not wake `pcap_loop`. Signals, clients, failures and the end of a file are
not assumed to come.

Every property of a passing run has a mutant, a definition marked `Mutant:` with
a plausible slip of the code, that violates it.

## Findings

1. `packet.c:218` ignores a request while another one of the connection is
   pending, `tests/e2e/run.sh:77` says one line per request (run `pipeline`). The
   test capture has no pipelining.
2. `packet.c:261` keeps back only what is below the threshold, so a latency equal to it
   is printed; `README.md:41` says that `-t 10` "would only print the request latency
   slower than 10ms", and so do `README.md:29` and `:59` and the usage text at
   `tcpkit.c:43` and `:51` (run `threshold`). The passing property
   `ReportsTrueLatency` leaves this one case open.
3. `server.c:61-65` returns without the join when the capture fails, and
   `tcpkit.c:218` frees server and sniffer while the stats thread may still use
   them without either side holding the lock that `sniffer.h:32` prescribes (run
   `lifecycle_error`).

Seen on the way, without a run of its own: `tcpkit.c:207` lowers the snapshot length to
256 unless the protocol is raw, the default included; `tcpkit.c:41` and
`README.md:27` give 1500 as the default. `CutIsUnseen` says that no latency depends
on it; only the printed request is cut.

## Proofs

All theorems hold for every value of the constants that satisfies the named
assumptions: timestamps, sizes and bounds are naturals, the interval is not zero,
the skew does not exceed the timeout, the endpoints and the addresses of entries
are finitely many, the bucket bounds are sorted, there is a bucket, a hash is a
natural, there is at least one frame size, and `NULL` is nothing that a pointer
can point to. TLC evaluates the assumptions in the runs.

- `TrackerProofs!ExactlyOneBucket`: each observation adds one to exactly one bucket.
  The least bucket whose bound reaches the latency exists (`LeastNat`, from the
  well-foundedness of the naturals) and is the only one the scan stops at.
- `TrackerProofs!TypeCorrect`: inductive as it stands. The lemmas `SynTabStep`,
  `PendingStep`, `PrintedStep` and `ClockStep` say what one packet does to each
  variable; every later proof uses them.
- `TrackerProofs!PendingToKnownHolds`: inductive with the types, since endpoints are
  never removed and a request is recorded only for a registered one.
- `TrackerProofs!AgeBounded`: not inductive. The age of a request against the newest
  packet says nothing about when the next sweep is due, so `SweepInv` relates
  three clocks: the newest packet is less than an interval, or at most the skew,
  past the last sweep, and at that sweep each pending request was within the timeout. It is an
  invariant of the `tracker` run as well. The assumption that the skew is at most
  the timeout is needed for a request recorded with a timestamp before the sweep.
- `TrackerProofs!CeilingHolds`: the size of the swept table is at most that of the
  table, and one request is added only below the ceiling (finite cardinality).
- `TrackerProofs!NoSilentDropHolds`: from the types and `PendingToKnown`; an
  answered request changes a bucket by `ExactlyOneBucket`, a swept one is older
  than the timeout.
- `TrackerProofs!SweepInvHolds`: that invariant itself.
- `TrackerProofs!ReplyIsACutHolds`, `RepliesGrowHolds`, `ImplementsTrackerHolds`: none
  is inductive. `SharedInv` says who is where while the lock is held, that the
  part of the reply that the walk has copied agrees with `syn_tab`, which nobody
  changes until the unlock (`WalkInv`), that the last reply is behind the table
  in every counter (`ReplyBehind`), and what the handler has done to its tables since
  `done`, position by position (`DoneInv`). The last step of a handler is then the
  one step of `Tracker` for its packet, and every other step leaves `done` alone.
- `TrackerProofs!ReportsTrueLatencyHolds`, `NeverTooShortHolds`: under `Patient`, which
  says of the traffic that timestamps do not step back, that each client waits for
  its answer, and that the ceiling leaves room for a request of every client. Each
  is needed: a step back makes a line too short, the second of two requests in flight is not
  recorded (run `pipeline`), and a request above the ceiling is not either.
  The invariant ties the request the tracker has pending for a client to the
  one that is really in flight (`ClientInv`): the same timestamp, or one that has
  timed out; after a missed answer, one that is not later. `Traffics` of
  the `session` run satisfies the hypothesis, and its segments, its retransmissions while
  an exchange lasts and its missed answers are covered.
- `TrackerProofs!SamplesCoveredHolds`: `Sound` is the property for a table of
  endpoints and a table of requests, with the bytes of every counted packet; `Handles` says what one packet may do to the two (a
  request counted and at most one added to the table, a response counted with a sample and
  one taken out, or without, or fewer pending). `Samples` counts pairs of a bucket and a
  number, not a fold, so that one observation more adds one pair (`ExactlyOneBucket`).
- `TrackerProofs!ReplyCoherentHolds`: from `SharedInv` and the refinement, with
  `ReplyInv`: the tables at the last return of a handler are `Sound`, since `done` takes
  the steps of `Tracker`, and the table at the start of the walk and the last reply
  are coherent. The walk starts when the capture thread is in none of its
  critical sections, and there the table is coherent even half way through a handler
  (`CoherentUnlocked`). Inside one, between the two assignments, it is not.
- `StartupProofs!ParsedAsWrittenHolds`: for command lines of any length. `ReadInv` says
  that the options hold what the arguments before `i` mean, and that `i` never stands
  on the argument of an option, which follows from the parity in `Taken`: a row of
  options that want an argument has one start, and the parser jumps by two from there.
  That the last occurrence is meant needs a greatest place, from the well-foundedness
  of the naturals.
- `StartupProofs!OwnedOnceHolds`, `ExitReleasesAllHolds`: for every set of command
  lines and every step that fails. `OwnedOnce` says nothing of what is acquired and not
  yet in a field, which is what an early `goto error` loses. `StartupInv` accounts
  for it: each resource is held once, by a field (`Fielded`), by the running step
  (`Loose`), or by nobody at the two places where the code is uncertain
  (`Uncertain`): a handle before the fallback device and the Lua state of a broken
  script. `FieldsInv` says which fields are set at which step, and `OptInv` that the strings
  belong to the options.
- `HashTableProofs`: for every hash function, number of buckets and keys, and
  for every allocation that fails. `HashInv` has six parts. The chains are linked
  (`Linked`): no pointer dangles or leaves its bucket, no two lead to one entry, keys
  and values are distinct, and every set of entries is entered from outside, which
  excludes both a cycle and an entry that is cut off without counting the steps of a walk. During
  `hashtable_destroy` the same holds of the heads that are left (`HeadsLeft`). The cursor
  and `prev` are on the chain (`CursorInv`). `WalkInv` is about the entries the
  walk has passed, a set that exists and is not stored anywhere: none has the key
  that is looked for, none is expired, and their values are those in the array.
  `BeforeInv` relates the contents to those at the call. From it come
  `CursorsAllocatedHolds`, `ValuesInBoundsHolds`, `ChainsExactHolds` and
  `FreedWithEntryHolds`; `ImplementsTableHolds` maps each return to the call of
  `TableSpec` (a walk that ends has passed the whole chain, or all chains) and every
  other step to a stutter.
- `DecodeProofs!PayloadInBoundsHolds`, `WholeFrameKeptHolds`, `SnaplenMonotoneHolds`:
  by cases along the parsers, for all header sizes and lengths. The third compares
  the parsers on two captures of one frame (`TcpMonotone`, `UdpMonotone`).
- `CaptureProofs!CutIsUnseenHolds`: the inductive invariant says that both trackers
  are in the same state if the snapshot exceeds the headers. `ParseAgree` gives the
  two parsers' agreement on everything the tracker looks at, `SamePacket` that one
  packet keeps equal trackers equal. Assumed: sizes are naturals, a shape has the
  fields of a frame.
- `CaptureProofs!ImplementsDecode`, `CaptureDecodes`: in raw mode the composed handler
  takes a step of `DecodeNext`, since what the snapshot leaves of a frame is a frame
  (`SnappedFrame`); all other steps leave its variables alone. The three theorems of
  `DecodeProofs` hold of `CaptureSpec` for that reason.
- `ProtocolProofs!LineInBoundsHolds`, `SingleLineHolds`: for every payload and buffer
  size. The bounds are inductive with the types; that the next field starts inside
  the payload comes from `CrlfFound`.
- `ProtocolProofs!LineAsJoinedHolds`: the property speaks of the finished line only.
  `LoopInv` says that between two fields the cursor stands at the start of one
  (`AtField`), that `fields` is the number of separators before it, and that the
  buffer holds, in the sense of the property, the part of the line that comes before
  it (`Before`). One iteration adds the places of one field and of one separator,
  which come after all others, so their rank is a sum of cardinalities; a full buffer
  holds the rest as well, because only the first `cap` places count.
- `ReplyProofs!ListsWholeHolds`, `ReplyTrueHolds`, `NothingStaysHolds`: theorems of
  `TreeSpec`, since the module `StatsReply` has a recursive reference definition; a step
  of `StatsReply` is one of `TreeSpec` or leaves its variables alone. `TreeInv`
  says that there are sequences `L`, one for each item, which the links of the items
  enumerate, each item in at most one of them and once (`Listing`), and a tag for each
  item, saying what it is, for which endpoint and which bucket (`G`), such that an item
  hangs only below one of the same endpoint
  (`MayHang`) and shows the name and the number of its own tag (`Tells`). If no allocation
  failed, also that what the walk has passed is complete (`Whole`). Neither `L` nor
  `G` is stored anywhere. Each call of cJSON appends one item to one sequence;
  `Children`, a recursive function, has one solution on such links, and that is the
  sequence (`ChildrenAre`). Assumed: the names are strings, and a table names only
  buckets there are (`JsonAssumption`).
- `ReplyProofs!WritesInBufferHolds`, `StrlenStopsHolds`: for every sequence of
  reservations and writes that keeps to `DisciplineAssumption`. Both are
  inductive together with the types: a put leaves written bytes up to its NUL
  (`TerminatedBytes`), and a growth copies them before the put (`WrittenKeeps`).
- `ReplyProofs!TextsPrintedHolds`: the finished buffer is the texts of all puts, one
  behind the other, and a NUL. `TextInv` says that the texts so far lie in the
  buffer and end where the offset is or, between a put and its `update_offset`, where
  the first NUL behind the offset is (`EndsAt`), so that the search finds the end of
  the text and nothing else. `AdvanceAssumption` is needed: a put that moves the
  offset by less than its text and is not followed by `update_offset` would be
  overwritten. TLC evaluates it on the programs of `JsonPrint`.
- `LifecycleProofs!JoinedBeforeDestroyHolds`, `LifeTypeCorrect`: `misused => failed` is
  not inductive. The invariant adds that a freed server of a running program, and
  one about to be freed, has no reader unless the capture failed, that the thread
  is not there before it is created, and that a reply being written has something
  left.

Only model-checked: everything about liveness (`HandlerReturns`,
`ClientAnswered`, `SignalStops`, `LoopEndStops`), which is out of the prover's
reach, and `PrintsTheReply`, which compares the text with a recursive rendering of the
tree: what a recursive definition computes for every tree would need an induction
over data that the provers cannot do. What the theorems say of it: the tree is the
right one (`ReplyTrue`), and the text is what the printing functions put
(`TextsPrinted`); that they put the rendering of the tree is what TLC checks.

## Not modelled

`dumper_write`: it hands frames to libpcap unchanged. What a Lua script does, and
the table it is handed. Logging and printing: wording only. The parts of cJSON that
the program does not call (parser, comparison, duplication, minification), libpcap
and the Lua interpreter: third-party code; libpcap appears as the environment. A
capture clock that steps back by more than `MaxSkew`, the overflow of counters (64
bits), of `threshold*1000` and of the argument of `-B`, segments retransmitted after
their exchange, and IPv4 fragments are outside the model; `PROJECT.json` lists them among
the hazards where they matter.

## Plan

Done: all modules of the plan, and a theorem for every invariant, action property and
refinement that a run checks but `PrintsTheReply`. Left, should the code change: the
parts of the program listed as not modelled above, of which the Lua table and
`print_user_packet` are the nearest to the tracker.
