# TLA+ models of nabud

These TLA+ modules model the connection layer and the classic NABU
adaptor protocol of `nabud`. The sources are `src/nabud/conn.c`,
`src/nabud/adaptor.c` and `src/nabud/retronet.h`. Every action is
translated from the C code. The parts that live outside `src/` are
modelled from `spec.md`:

- the image loader,
- the byte I/O layer,
- the RetroNet and NHACP handlers.

Those definitions are marked `spec_modelled` in `PROJECT.json`. That
file also maps every definition to the source lines it translates.

## The system

A `nabud` process has three kinds of thread that matter here.

**The TCP listener.** `conn_add_tcp()` creates it as a connection of
its own and inserts it into the registry. Its thread, `conn_tcp_thread`,
accepts clients. For each client, `conn_create_common()`:

1. allocates a `struct nabu_connection`;
2. starts that connection's worker thread (`conn_io_start`);
3. only then links the connection into `conn_list` (`conn_insert`).

**One worker per connection.** The worker, `conn_thread`, runs
`adaptor_event_loop()` until the client goes away. It then calls
`conn_destroy()`, which does the following in order:

1. `conn_remove()`: it waits on `conn_list_enum_cv` while the
   connection is borrowed;
2. releases the cached image;
3. `conn_reboot()`;
4. frees the structure.

**Enumerators.** These are administrative callers of
`conn_enumerate()`. It walks `conn_list`. For each connection it:

1. bumps the `enum_count` borrow;
2. drops the lock and calls `func()`;
3. relocks, drops the borrow and broadcasts.

Inside the worker, the adaptor loop waits for an opcode with the
watchdog stopped. It then arms the watchdog (10 s) and dispatches:

- A classic opcode goes through the `adaptor_msg_types[]` table. Its
  handler exchanges ACK, CONFIRMED, AUTHORIZED/UNAUTHORIZED, packets and
  FINISHED with the client.
- Other opcodes are offered to RetroNet, then to NHACP, and are
  otherwise ignored.

A PACKET_REQUEST loads an image and sends one segment of it. A raw
image is split into 991-byte payloads. A PAK image is pre-framed, with
a 2-byte prefix per segment. The request ends with `image_unload()`,
which either caches the image in `l_last_image` or releases it.

## Modules

| Module | Models | State | Actions |
|---|---|---|---|
| `ConnRegistry` | `conn.c`: the registry, listener, workers' teardown, enumerators | `connList` (the TAILQ as a sequence), `connCount`, `onList`, `enumCount`, `mem` (unalloc/live/freed), `wpc` (per-thread pc), `pending` (started, not yet inserted), `epc`/`cursor` per enumerator, plus the history variables `snap`/`visited`/`finished` | `AcceptFails`, `AcceptStart`, `conn_insert`, `ListenerExit`, `ClientExit`, `DestroyBegin` (the unlocked read of `on_list`), `RemoveWait`, `RemoveUnlink`, `Free`, `EnumStart`, `EnumReturn` |
| `ConnTcp` | `conn.c`: `conn_add_tcp`, `conn_tcp_thread`, `conn_create_common`'s failure paths, `conn_destroy`, `conn_thread`'s exit; who owns each allocation | `mpc` (the address loop), `lpc`/`cur` per listener, `cstate` per client, `mem` (each socket, name, string copy and structure: none/live/freed), `errors` (bad frees and reads), `hasRoot`/`hasSel` | `AddTcp`, `SetupAddr(a)`, `Accept(a)`, `Spawn(a)`, `WorkerExit(c)` |
| `Framing` | `adaptor.c`: `adaptor_send_image`, `adaptor_send_pak`, `adaptor_escape_packet` as pure operators | none | `RawSegment`, `PakSegment`, `EscapeBytes` (RECURSIVE) |
| `FramingCheck` | checks `Framing` against reference definitions | `input`: one raw length, PAK layout or buffer | none (Init enumerates all inputs) |
| `ConnFields` | `conn.c`: `conn_set_channel`, `conn_set_selected_file`, `conn_get_selected_file` (worker as writer, an enumerator as reader, under `conn->mutex`) | `selFile`, `chan`, `rnEnabled`, `freed`/`used` (string allocations), writer `wpc`/`toFree`, reader `rpc`/`len`/`result` | `SetSelectedFile`, `SetChannel`, `WriterFree` (the `free()` after unlock), `GetStart`, `FirstLock`, `Malloc`, `SecondLock` |
| `SerialBringup` | `conn.c`: `conn_add_serial`, `conn_serial_setparam`, the serial half of `conn_create_common` | `phase`, `termios2` (the build), `args`, `port` (speed, CSTOPB, CRTSCTS, raw), `fdOpen`, `conn` | `OpenPort`, `SetParam` (one `conn_serial_setparam()` call and the branch on its result), `Create`, `Bad` |
| `LastImage` | `conn.c`: `conn_get_last_image`, `conn_set_last_image`, `conn_set_last_image_if`, with a caller that caches a loaded image as spec 4.3 and §8 item 6 describe | `last` (`l_last_image`), `refs`, `used`, the caller's `held`/`match`/`pc` | `Load(i)`, `GetLast`, `CacheIf`, `Drop` |
| `AdaptorLoop` | `adaptor.c` event loop and every classic handler, then `conn_destroy`/`conn_reboot` | `pc`, `msg`, `watchdog`, `aborted`, `channel` (`l_channel`), `lastImage` (`l_last_image`), `img`, `isLast`, `liveImages`, `retronet`, `nhacp`, `out` (the reply to the current request), `ackPos` (the index `i` of `adaptor_expect_sequence()`) | `IdleRecvFails`, `IdleRecvOpcode(op)`, `MysteryRecv`, `StatusRecv`, `PktRecv`, `PktAck`, `UnauthAck` (both `ExpectAck`), `ChanRecv`, `Destroy` |

Modelling choices:

- **Locking.** Each critical section of `conn_list_mutex` is one atomic
  step. Code outside the lock is a step of its own. This applies to
  the `on_list` test in `conn_remove()` and the `func()` call in
  `conn_enumerate()`.
- **`pthread_cond_wait`.** It is the `"wait"` state, which
  `Broadcast` returns to `"remove"`.
- **The client.** In `AdaptorLoop` the client is an open environment.
  Each receive delivers data, times out (only while the watchdog is
  armed), or fails because the peer closed. A failure inside
  PACKET_REQUEST or CHANGE_CHANNEL sets `CONN_STATE_ABORTED`. The next
  idle receive then leaves the loop.
- **The ACK wait.** `adaptor_expect_ack()` is modelled byte by byte,
  as `adaptor_expect_sequence()` reads it. `ExpectAck` receives one
  byte per step from {0x10, 0x06, 0xE1}; 0xE1 is the second byte of
  FINISHED. A wrong byte ends the wait at once. Only the full
  {0x10, 0x06} lets the packet and FINISHED go out.
- **Request bytes.** An opcode is its byte value. The client sends
  0x80-0x85 (the table), 0x86 (the index just past it), 0x8F (an
  unknown classic opcode, spec S6) and 0xF0 (not classic).
  `adaptor_msg_classic` evaluates the code's own test,
  `idx > adaptor_msg_type_count`. The slot it lets through at
  `idx = adaptor_msg_type_count` is read past the end of
  `adaptor_msg_types[]`. That is undefined behaviour, so the model
  chooses between the two outcomes: the pointer is NULL and the opcode
  is ignored, or the worker calls garbage (`"crashed"`). RetroNet and
  NHACP, which are not under `src/`, may claim any byte the classic
  table does not take.
- **History variable.** `ackRcvd` records the bytes
  `adaptor_expect_ack()` has read during the current request. It
  affects no action, and `PacketOnlyAfterAck` reads it.
- **System-call failures.** In `SerialBringup`,
  `conn_serial_setparam()` is the set of `<<returned, port settings>>`
  pairs its failure points allow. On the termios2 build a failure of
  the speed call leaves the raw settings applied; the fallback attempt
  starts from there.
- **Framing sizes.** They are constants, scaled down to a 2-byte
  payload with a 1-byte header and footer. Every comparison in the
  code stays the same, and an image of a few bytes spans several
  segments.

## Runs

| Run | Checks | Result |
|---|---|---|
| `registry` (`ConnRegistry.cfg`) | `TypeOK`, `RegistryConsistent`, `CursorOnList`, `DestroyCompletes` | pass, about 77k states |
| `registry_borrowed_not_freed` | `BorrowedNotFreed` | **violated** (see below) |
| `registry_enumerate_sees_all` | `EnumerateSeesAllLive` | **violated** |
| `adaptor` (`AdaptorLoop.cfg`) | `TypeOK`, `ImageRefsAccounted`, `PacketOnlyAfterAck`, `RequestCompletes` | pass, about 5k states |
| `adaptor_unknown_classic` | `UnknownClassicIgnored` | **violated** |
| `last_image_set_if` (`LastImage_CachedImageHeld.cfg`) | `CachedImageHeld` | **violated** |
| `fields` (`ConnFields.cfg`) | `ReaderMemorySafe`, `GetTerminates` | pass, about 2.5k states |
| `serial` (`SerialBringup.cfg`) | `TypeOK`, `PortMatchesConnection`, `BringupEnds` | pass, about 840 states |
| `tcp` (`ConnTcp.cfg`) | `SocketsReleased` | pass, about 235k states |
| `tcp_shared_root` | `NoMemoryErrors` | **violated** |
| `tcp_client_leak` | `ClientStringsReleased` | **violated** |
| `framing` (`FramingCheck.cfg`) | `RawSegmentsTile`, `PakSegmentsMatch`, `EscapeRoundTrip` | pass, 150 inputs |

Each property of a passing run has a mutant in `PROJECT.json`: a
plausible bug in the mapped code that TLC catches. Examples are a
missing wait in `conn_remove`, a missing broadcast, an off-by-one in the
last-segment test, a `conn_destroy()` that does not release the cached
image, and an ACK wait that stops one byte short.

What the violations show:

- **`BorrowedNotFreed`: a use after free in `conn.c`.** The worker
  starts before `conn_insert()`. A client can disconnect in that window.
  Its `conn_destroy()` reads `on_list == false` without the lock and
  skips both the unlink and the wait for enumerators. The listener then
  inserts the connection, an enumerator borrows it, and the worker frees
  it while it is borrowed and still on the list.
- **`EnumerateSeesAllLive`.** Spec 8.4 says every live connection is
  observed. In the code, a connection removed while `func()` runs on an
  earlier one is never visited.
- **`CachedImageHeld`.** Spec §8 item 6 says `set_last_image_if(match, x)`
  returns non-null iff the prior value equaled `match`. The code returns
  the prior value, so on an empty cache (`match == NULL`) it installs
  the image and returns NULL. A caller that trusts the spec then
  releases the image the cache has just taken.
- **`NoMemoryErrors`: a double free in `conn_add_tcp()`.** Every
  address of the `getaddrinfo()` list gets a listener built from the
  same `args`, and `conn->file_root = args->file_root` keeps the
  pointer. `conn_destroy()` frees it, so the second listener to die
  frees it again, and a listener still accepting `strdup()`s freed
  memory. The shortest trace: both addresses fail in `conn_io_init()`.
- **`ClientStringsReleased`: two leaks.**
  - `conn_destroy()` never frees `l_selected_file`. Each accepted
    client's copy of the listener's selection leaks.
  - When `calloc()` of the structure fails, `conn_create_common()`
    closes the socket but leaks the name and the strings in `args`.
    This is TLC's shortest trace.
- **`UnknownClassicIgnored`.** The bound `idx > adaptor_msg_type_count`
  should be `>=`, as spec 9(a) also notes. The model evaluates the
  code's test on every request byte. Only 0x86, the opcode just past
  the table, gets through it and is read out of bounds; TLC reaches the
  call through a garbage pointer. With `>=` the run passes.

## Bounds, and why they are enough

- **`ConnRegistry`:**
  - two clients, one listener, two enumerators, and one enumeration
    each;
  - that is enough for two concurrent walks over a list of up to three
    connections, for a removal waiting on either walk, and for the
    accept/exit race;
  - two enumerations each took nearly five minutes, with no new
    behaviour of interest.
- **`AdaptorLoop`:**
  - two images, of 3 and 10 bytes (up to 3 segments at a 2-byte
    payload);
  - segments 0..2, so requests run past the end of an image;
  - one raw channel and one PAK channel, a bad channel code, the time
    image and a missing image.
- **`ConnFields`:**
  - two installable names of lengths 1 and 2, so a selection can grow
    between the reader's locks;
  - a channel with a default file and one without;
  - up to three writer calls, enough to set, replace and clear with a
    free pending while the reader is between locks.
- **`SerialBringup`:**
  - both builds, a configured rate or none, stop bits 0/1/2, flow
    control on or off, and any prior CSTOPB/CRTSCTS/raw settings;
  - every failure point of every call; the whole bring-up is at most
    six steps, so the state space is complete.
- **`ConnTcp`:**
  - two addresses, so two listeners share one `args`; two clients, so
    one listener can accept after the other died;
  - ports 0, 1, 65535 and 65536: both sides of both range checks;
  - every `strdup()`, `malloc()` and `calloc()` may fail.
- **`FramingCheck`:**
  - every raw length 0..12;
  - every PAK file of up to four segments, with a final segment of any
    length 1..4;
  - every buffer of up to four bytes over {0, 1, Escape}.

## Fairness

- **`ConnRegistry`:**
  - weak fairness on every step of `conn_destroy()`;
  - weak fairness on the listener's `conn_insert()` after
    `conn_io_start()`;
  - weak fairness on `func()` returning;
  - clients, accept errors and new enumerations are environment
    actions and are not fair.
- **`AdaptorLoop`:**
  - weak fairness on `Destroy`;
  - weak fairness on `TimeoutStep`. This is any receive inside a
    request while the watchdog is armed. The watchdog guarantees that
    such a receive returns within 10 s, with data or a timeout. The
    client itself is never assumed to send anything.

- **`ConnFields`:**
  - weak fairness on the reader's steps and the writer's `free()`;
  - the writer's calls are bounded, so `GetTerminates` says that the
    loop ends once the selection stops changing.

- **`ConnTcp`:** no fairness. Its property is a state invariant at
  quiescence, and a listener may wait in `accept()` for ever.
- **`SerialBringup`:**
  - weak fairness on `Next`: `conn_add_serial()` runs on one thread
    with no waits; every call it makes returns.

## Not modelled, and the plan

Not modelled:

- `conn_serial_setspeed_linux()` and `conn_io_init()`. They are not
  under `src/`; each is one outcome, success or failure.
- Whether a RESET should drop `l_last_image`. `conn_reboot()` leaves
  it in place, while spec 4.7 and §9 say RESET drops the session.
  `AdaptorLoop` states the spec's version as `ResetDropsSession`, and
  TLC finds it violated when it is checked as an invariant. No run
  checks it: the cached image only spares a reload, and whether it may
  outlive a RESET is up to the image layer, which is not under `src/`.
  The hazard a kept image does carry is a leak or a double release.
  `ImageRefsAccounted` checks that on every path through RESET, later
  requests and `conn_destroy()`.
- The listener's own start-before-insert window. `conn_add_tcp()`
  goes through `conn_create_common()` too, so the listener's thread
  also starts before `conn_insert()`. `ConnRegistry` starts with the
  listener already listed, and models that window for clients only.
  The listener leaves only on an accept error, and the same race is
  already shown for clients.
- The RetroNet store (`retronet.h`). `src/` has only its declarations
  and `spec.md` gives it no behaviour.
- `conn_io_init()`, `conn_io_start()`, `conn_io_fini()` and
  `conn_io_accept()` are outside `src/`. `ConnTcp` gives each one
  success or failure, and has `conn_io_fini()` close the socket and
  free the name, as spec 3 describes destruction.
- CRC and header byte layout. These are formatting.
- The RetroNet/NHACP handlers. They are not under `src/`; a flag
  records whether a session exists.

Not composed: `AdaptorLoop` with `ConnRegistry`. The adaptor loop
reads and writes only its own connection's fields. It meets the
registry at one point: the worker's exit, which `ConnRegistry` already
has as an action a worker may take at any time. A product of the two
would multiply the states but check no shared variable that either
module lacks.
