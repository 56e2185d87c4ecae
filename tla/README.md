# A verification project for the GPS tracker

The program in `src/` runs on an Arduino (ATmega32u4) with a GPS receiver on a
serial line, an nRF8001 Bluetooth chip and an LCD on one SPI bus, two buttons and
1 KB of EEPROM. A phone sends it a path of waypoints over Bluetooth; the watch
then leads its owner along the path. This directory holds TLA+ models of that
program, the TLC runs that check them, and theorems checked by TLAPS.

- [1. The system](#1-the-system): inventory of the components
- [2. The modules](#2-the-modules): what models what, and how they compose
- [3. The runs](#3-the-runs): what each one checks, its bounds
- [4. What the runs refute](#4-what-the-runs-refute)
- [5. Fairness](#5-fairness)
- [6. The proofs](#6-the-proofs)
- [7. What is not modelled, and known limits](#7-what-is-not-modelled-and-known-limits)
- [8. Plan](#8-plan)

`tlc -config MCX.cfg MCX` runs a check (the three runs of section 4 have a module of
another name); `tlapm XProofs.tla` checks proofs.
`PROJECT.json` has the same information as tables: runs, the lines every
definition models, the hazards and the properties that cover them.

## 1. The system

Everything but the interrupt routines runs in one thread, `setup()` of
`src/src/src.ino`, which never returns. Three interrupt routines run between any
two of its instructions, unless interrupts are disabled: the two button handlers,
and `m_aci_isr`, the SPI transfer with the Bluetooth chip.

| Component | Source | State | Operations | Talks to |
|---|---|---|---|---|
| Main loop, buttons | `src.ino` 43-166 | two flags, the times of the last presses | button handlers; loop | runs one of the two modes at a time |
| Bluetooth session | `src.ino` 418-522 | none of its own | `run_bluetooth`, `get_and_store_waypoints` | driver (poll, message), waypoint writer, blue flag |
| Tracking | `src.ino` 250-415 | tracking record and data | `run_tracking`, `update_*` | GPS, waypoint reader, display, green flag |
| Waypoint storage | `waypoint_writer.cpp`, `waypoint_reader.cpp` | EEPROM: valid flag, count, floats; writer: field, count, address | `initialize`, `write`; `count`, `get_next`, `end` | EEPROM, which survives a loss of power |
| Bluetooth driver | `bluetooth.cpp` | status, message buffer, `has_message`, `setup_required` | `setup`, `advertise`, `poll`, `sleep`, `get_message` | lib_aci commands out, events in |
| ACI setup | `aci_setup.cpp` | index of the next message | `do_aci_setup` | ACI transport |
| GATT services | `services.h` | none: the table of pipe types, 42 setup messages | | sent by the setup, read by the library |
| ACI library | `lib_aci.cpp` | bitmaps of open and closed pipes, timing of the link, one message buffer | one function per command, `lib_aci_event_get` | ACI packets, ACI transport |
| ACI packets | `acilib.cpp`, `aci_cmds.h`, `aci_evts.h`, `aci_protocol_defines.h` | none | an encoder per command, a decoder per event | what the nRF8001 takes and sends |
| ACI transport | `hal_aci_tl.cpp` | two queues, REQN, whether the interrupt is attached | `send`, `event_get`, `event_peek`, `m_aci_isr` | the chip: REQN, RDYN, SPI |
| ACI queues | `aci_queue.cpp` | ring of four, head and tail as bytes | enqueue, dequeue, peek, empty, full | shared by program and interrupt routine |
| GPS receiver | `gps.cpp` | line buffer and index | `gps_available`, `gps_valid`, `gps_parse`, wake-up, standby | serial port (a buffer of 64 characters) |
| Display | `lcd.cpp`, the pages in `src.ino` | none of the program's: the display's cursor and cells | clear, position, print | SPI bus, shared with the radio's interrupt routine |

What is hard about it, and what makes each part correct:

- *Storage.* A transfer overwrites the old path in place, in up to 403 EEPROM
  writes, and may end, or lose power, after any of them. Correct: the reader finds
  exactly the last path that arrived completely, or none.
- *Transport.* Two byte-wide ring buffers shared with an interrupt routine that
  must never meet a full queue, and detaches and attaches itself to make sure.
  Correct: no packet is lost, repeated or reordered, and nothing waits for ever.
- *Driver and session.* The driver's view of the radio is as old as the last event
  handled; events of earlier connections are still queued when a session starts.
  Commands may find their queue full, and the results are ignored. Correct: a
  session takes what its own phone sent, it starts, it ends, the radio sleeps.
- *Setup.* More messages than the queue holds, attempts that time out with answers
  still under way. Correct: the chip gets the messages in one piece and in order.
- *Library and packets.* Every length is counted from a different place, buffers keep
  what earlier packets left, and the view of the connection comes from events that are
  late. Correct: the chip reads what was asked, the program reads what the chip sent, and
  once all events are read the view is the link.
- *Services.* Two generated tables say the same in two forms. Correct: they agree.
- *GPS.* Lines are longer than the serial buffer and come while the program is
  busy. Correct: what is used is one whole line, once, and the latest, and the position
  read from it is the one that was sent.
- *Display.* Another device's transfers on the same bus, in an interrupt routine that
  nothing masks, and texts of changing lengths printed over each other. Correct: a page
  once written is what the display shows.
- *Tracking.* One fix may be near several waypoints, repeated ones included.
  Correct: waypoints are passed in order, none unvisited, none twice.
- *Main loop.* Presses arrive in any mode, between modes, twice. Correct: a press
  does what it means in the mode it is made in, and only that.

The complete list, with lines, is under "hazards" in `PROJECT.json`.

## 2. The modules

```
  Watch        NmeaLine
    |             |
    |         GpsReceiver --> Tracking          (which lines; what they do)
    v                             |
  Bluetooth ----> WaypointPath <== WaypointStore    (== : implements, proved)
    |   AciSetup --> Services         |
    v     |            ^              v
    |     |          AciLib       WaypointLayout
    |     |            |
    v     v            v
  AciLink          AciPackets                   Display
    ^
    ‖
  AciTransport --> AciQueue
```

The system is cut where one component only needs what another promises.
`AciTransport` implements `AciLink`, and what `Bluetooth` and `AciSetup` do to their queues
are steps of `AciLink`. `Bluetooth` stores into `WaypointPath`, which `WaypointStore`
implements. Both sides of these cuts are proved. `Bluetooth` and
`AciSetup` know packets by name; `AciLib` is about their bytes. `Display` has of the
radio what matters to the bus: when its interrupt routine may run.

**WaypointPath** is the abstract specification of storage: a path or none, a
transfer in progress, and its atomic replacement.

**WaypointLayout** is the layout in EEPROM and the reader's functions of an image
of it. **WaypointStore** is `waypoint_writer_write` within the loop of
`get_and_store_waypoints`. It is split at the EEPROM writes (`WriteInvalid`,
`WriteCount`, `WriteWord`, `WriteValid`), since a loss of power (`PowerFail`) shows
only there. A write under way leaves a byte old, new or, where `TornByte` says so,
something else, and leaves a float `Garbage`. `TooMany` and `Written` are the code's
arithmetic on bytes. A message is a text, with `Atoi` and `Atof` for what libc makes
of it. `Next` has one action per message (`AcceptCount`, `RejectCount`,
`AcceptCoordinate`), and the session may be given up between two (`GiveUp`).

**AciLink** is the abstract specification of the transport: two bounded FIFO queues, and
transfers that exchange the oldest command for the oldest event while there is room for an event.

**AciQueue** has the ring buffer as the code computes it: `head` and `tail` modulo
256, the test for full in int arithmetic, enqueue and dequeue in two halves, since
an interrupt may come in between. **AciTransport** has `hal_aci_tl_send` as
`SendCheck`, `SendStore`, `SendPush`, `SendRequest`; `hal_aci_tl_event_get` as
`GetWasFull` to `GetCheckPending`; the polled check as `EventCheck`; the interrupt
routine as `Isr`, one step, since nothing interrupts it; and the chip as `MakeEvent`
and `RaiseReady`. `interrupt` chooses between interrupt and polled mode. `ActsAsLink` is `AciLink`
of what the two rings hold and of the events not yet fetched.

**Bluetooth** has a session from the blue press to the dismissal of the result: the
program one poll at a time, the radio, phones that connect, send and hang up, and
the user. The driver's switch over events is `StatusAfter` and `Reply`. A poll is one
step with respect to the interrupt routine (`Transfer`), which `AciTransport` splits.
Left out: data credits, which feed nothing back into control, and the pipe bitmaps
and timing, which are in `AciLib`; the pipe status comes with the connection. The history
variables `before` (connections before this session), `taken` (messages given to the
writer) and `early` (a phone acted with `MaxUnread` events unread) serve the
properties.

**AciSetup** has `bluetooth_setup`'s loop with `bluetooth_poll` and `do_aci_setup`:
`Try` is its two refusals to begin, `Fill` and `Filled` are `aci_setup_fill`, and
`Continue`, `Complete`, `Fail` and `TimeOut` are the four things that an answer or its
absence leads to. The chip is external: it accepts messages in order, answers
each, and refuses one out of order, which is an assumption about it. **Services** has the
two tables of `services.h`: the pipe types, and of each setup message its length, target and
offset, with the pipes and the types of the characteristics among the data (`Continues`,
`EndsWithChecksum` and `PipesAgree` compare them). `MCAciSetup` sends the chip these 42
messages.

**AciPackets** is the wire format: the packed structs field by field, the offsets, the
lengths that the encoders write (`EncodedLength`) and those that the decoders compute
(`DecodedSize`). A field is the sequence of its bytes. **AciLib** has on top of it one
operator per function of `lib_aci.cpp`, with its checks of pipe, type and size, and
`EventGet`, `lib_aci_event_get`'s switch, which keeps the bitmaps and the timing.
`max_bytes`, `HeardOf` and `ReceivedOf` are the SPI transfer of `hal_aci_tl.cpp`, byte by
byte. A byte of the message buffer that no function has set is `Stale`, so that sending one
shows. The chip's side is external: it lays packets out by the structs, and has a link with
open pipes and an interval.

**Tracking** is `run_tracking` after a line has been found valid: `Move` is the
distance, `Visit` the loop of `update_waypoint`, with a reader that is past the end by
equality. Speeds and averages feed nothing back and are left out.
`Distance` is any function on pairs of places, in place of the haversine formula.

**GpsReceiver** is `gps_available` character by character, with the serial buffer
that drops what does not fit, and `gps_valid` on what is then in the line buffer,
beyond the terminating `'\0'` where the code looks there. A character stands for a
part of a line (`$`, fields to the flag, rest, checksum, CR, LF). A checksum is taken to
fit only the line that it was sent with. **NmeaLine** is `gps_parse` on the characters of a
sentence: fixed offsets, `atoi`, `atol` and `atof` on what is copied from there, the signs;
`Sentence` is what a GPS sends for a `Reading`, which has degrees, minutes and a fraction of them
for the latitude and others for the longitude, put together from its parts (`ToFlag`, `Measured`,
`Angled`, `Hundredths`). `GpsReceiver` extends it. What its lines say is a function from lines to
readings, `said`; `Characters` are those of a part in the line buffer, `Buffered` what `gps_parse`
has before it. `PositionIsRead` is about the line in the buffer when it is found valid: what is
parsed of it is what that line says, for each `said` of `Sayings`.

**Display** is every page of `src.ino` as the sequence of what it writes through `lcd.cpp`, and
`lcd_write_cmd` in four steps (`Begin`, `Enable`, `Transfer`, `End`), between which the
radio's interrupt routine (`Isr`) may run and change the bit order, as long as the radio has
something to say. The display is its cells: a position in a text, blank or garbage; the cursor
goes on into the next row, as the hardware's does. Texts are known by their lengths, those of
`lcd_print_time` computed (`TimeLength`) with C's division. `Spills` are the bytes behind
`lcd_print_float`'s buffer, which it may print.

**Watch** is the main loop with the two flags, the debouncing and the two modes as
far as they look at buttons. Time is counted in ticks; `since[b]` is `millis() - last` in
the width of `millis()`. Steps that run with interrupts disabled are one action; the
test and the clearing of the blue flag after tracking, which do not, are two
(`SeeBlue`, `TakeBlue`).

An operator marked MUTANT is a plausible mistake in the definition that follows it;
no specification uses it. Substituted for that definition, it makes a run
fail, which shows that the property is about the code.

## 3. The runs

| Run | States | What it shows |
|---|---|---|
| `store` | 140 000 | Sessions, good, refused and unfinished, with a loss of power anywhere: `SessionConsistent`, `ReaderSeesNoGarbage`, `SuccessMeansStored`, and `StoresPaths` (implements `WaypointPath`) |
| `transport` | 92 000 | `NeverSpins`, `EventsInOrder`, `CommandsInOrder`; `EventsDelivered` and `CommandsHeard` unless the interrupt is lost (section 4) |
| `session` | 397 000 | `NoStaleEvents`, `StatusIsMode`, `MessagesInOrder`, `OneStaleAtMost`; `AsleepAtHome`, `SessionStarts`, `SessionEnds` unless a phone is early |
| `tracking` | 32 000 | `RouteFollowed` against a definition by existence of an order of fixes |
| `setup` | 7 300 | `AttemptIsWhole`, `SetupIsConsistent` of the real messages, `SetupEnds` |
| `library` | 59 500 | `CommandIsWhatWasAsked` and `EventReadAsSent`, for every command and event, byte by byte; `ViewCatchesUp`, the bitmaps and timing against the link |
| `gps` | 88 000 | `OncePerLine`, `PositionIsRead`, `LastLineUsed` |
| `display` | 153 800 | `PageIsShown`, for every page in every order, with the interrupt routine on the bus |
| `watch` | 19 000 | `PressesApart`, `OnlyAskedFor`, `EndedByOwnPress`, `HomePressIsServed` |
| `transport_race`, `transport_wrap`, `session_stale` | | each refutes a comment in the source: section 4 |

The bounds, and why they are enough:

- `store`: `MaxWaypoints = 2` (50 in the code), so that counts of 0, 1, 2 and one too
  many all occur, the last from a text that is only in range modulo 256. Sessions and
  power failures are unbounded. The theorems hold for every limit up to 255.
- `transport`: queues of four, as in the code. `Ages = {0, 251}` start the byte indices at
  0 and just before they wrap. Five commands and five events fill and empty both
  queues, and take the indices past 255, but do not get an event queue full at a head of
  252 or more *and* overwritten: that takes the more events of `transport_wrap`.
- `session`: two connections, so that one can be stale; paths of one point (three
  messages); a limit of three; coordinates 2 and 150, of which read as a count one is
  accepted and one refused. Sessions and polls are unbounded. `MaxUnread = 2`: with
  fewer than two events unread when a phone acts, the commands that events are answered
  with leave room in a queue of four for those of the session; with `early` the two liveness properties and
  `AsleepAtHome` say nothing, and section 4 says what then happens.
- `tracking`: three places, of which one is near both others; paths of one to three points,
  the same place more than once included; an empty and an unfinished path; four lines.
- `setup`: the 42 messages of `services.h` through queues of four. Time-outs and attempts are
  unbounded.
- `library`: queues of two and three events, since what is at stake is one packet and those
  that are still unread when it is handled; data of the lengths at the limits (none, one, the
  largest, one more); two sets of open pipes, which differ in two bytes of the bitmaps; the
  two ends of the range of intervals; and two pipes of a peer, which `services.h` has none
  of, so that the functions about remote pipes do something. Peers come and go without end.
  What these bounds leave out, longer queues, other peers, other data, the proofs have.
- `gps`: a line of six characters, a line buffer of five, a serial buffer of four, as the
  code's 72, 80 and 64 are to each other in that the serial buffer is too small for a
  line and two lines joined are too long for the buffer. Three lines, the second
  without a fix: one to be left over, one to be cut, one to follow. The end of the third
  line is the end of the run, `LastLineUsed` is about it. There are 144 readings:
  degrees of one to three digits, minutes of one and two, fractions with leading zeros, both
  hemispheres, speeds below one, of two digits and of three; latitude and longitude differ in
  each. One of the two lines with a fix says one of them, and the others say what the sample line at
  `gps.cpp:30` does (`MCSayings`).
- `display`: texts of the shortest and longest lengths that occur (a number that a shorter one
  is printed over), clocks at the seconds where the number of digits changes, with and without
  bytes behind the buffer. One of the clocks is past the overflow of section 4, and negative, but of
  eight characters; those of more are in section 4.
- `watch`: `Debounce = 2` and `Wrap = 6` let presses be too close, far enough apart, and a
  wrap apart. Nothing else is bounded, and three of its four properties are proved.

Deadlock is checked everywhere but in `setup`, where `bluetooth_setup` returns.

## 4. What the runs refute

Each run below checks what a comment in the source says, and TLC finds a behaviour of
the code that contradicts it.

- `transport_race`: `hal_aci_tl.cpp:115`, the interrupt is disabled "until we have room". An
  interrupt between reading `was_full` and the dequeue fills the queue and detaches
  itself. The dequeue makes room, `was_full` is false, and the interrupt is not attached.
  No later call sees a full queue, and no event arrives any more.
- `transport_wrap`: `hal_aci_tl.cpp:109`, "Should never happen". With the head at 252 or more
  `head + 4` is not reduced to a byte, a full queue is not seen as full, and events
  overwrite unread ones until an interrupt spins for ever.
- `session_stale`: `src.ino:463`. A message handled by the poll in `bluetooth_sleep` leaves
  `has_message` set; the next session takes it for its count and stores a path that
  no phone sent. `OneStaleAtMost` shows that it is never more than one message.

Not a run, but seen while modelling:

- `lib_aci_connect` is dropped when the command queue is full, and `bluetooth_advertise`
  (`bluetooth.cpp:159`) then waits for its answer for ever, against the comment at line 138.
- `run_tracking` reads a first waypoint without asking whether there is one (`src.ino:273`;
  `waypoint_reader.h:72` leaves the bounds to the caller), and tests for the end by equality:
  without a path it leads along what an earlier one left in EEPROM.
- SPI transactions mask no interrupt, since nobody calls `usingInterrupt`
  (`bluetooth.cpp:197`). The display is safe because every page is written while the radio
  sleeps, and because the `delay(5)` there is taken to be long enough for its last events.
- `lcd_print_time` after 32767 s, about nine hours: the int overflows, its negative fields take
  ten characters and a NUL, one more than `buf[10]` (`lcd.cpp:210`). A clock of nine characters,
  such as that of -36 s, leaves its last one on the display when a shorter clock follows, since no
  page writes the cell behind the clock: with -36 among `MCClocks` TLC shows `PageIsShown`
  violated.
- `LCD_LEN` is 13, but a row has 12 characters; what goes too far is overwritten by the
  next row, because rows are printed from top to bottom. `lcd_print_float` pads over its
  terminator. "Done" over a distance of five digits leaves one of them.
- `gps_parse` reads four characters of the speed: 123.45 is read as 123.
- A pipe status that is queued when `lib_aci_disconnect` closes the bitmap opens it again,
  against `lib_aci.cpp:334`, until the disconnection is read.
- `m_aci_spi_transfer` reads one byte past `data_to_send.buffer` for an event of 31 bytes; it is
  sent after the command and ignored.
- For a key type that is neither of the two of `aci_key_type_t`, `acil_encode_cmd_set_key` writes
  the length 0 and copies 0 - 2 bytes of the key (`acilib.cpp:297`), which is undefined.
  `EncodedLength` has the 0; the calls of the model have keys of the two types.
- In functions that nothing calls: the decoder of READ_DYNAMIC_DATA takes a byte too many
  (length - 3, where the sequence number leaves length - 4), `acil_decode_evt` has no case for
  ECHO, `acil_encode_cmd` always returns false.
- `bluetooth.cpp:345` says that the length includes "the length byte and the event byte"; it is
  the opcode and the pipe number.
- A count of 258 is accepted as 2 (`waypoint_writer.cpp:87` casts before line 89 compares).
- If an interrupted EEPROM write could leave a byte erased (255), writing `INVALID` over
  `INVALID` could make an unfinished path valid; with `TornByte = {255}` in
  `MCWaypointStore.cfg` TLC shows it. Hence the assumption of two theorems.
- EEPROM as it leaves the factory reads as a valid path of 255 points; `Init` starts with an
  EEPROM that holds no path.
- `num_points` is an int of 16 bits. After 32767 fixes, nine hours, it overflows and nothing
  is added to the distance any more.
- A blue press while `bluetooth_sleep` polls dismisses the result before it is shown; a
  second green press while the GPS is being sent to standby starts tracking again; with
  both buttons pressed at home green wins and the blue press is cleared with those made
  while tracking.
- `lib_aci_sleep` may be dropped like `lib_aci_connect`, and the radio stays awake.
- After a setup has timed out, its late last answer may be taken by `bluetooth_poll`, which
  leaves `setup_required` set for good: `SetupEnds` is about setups that do not time out.
- The search of `checksum_good` for a `'*'` does not end with the buffer: `SearchBeyond`.

## 5. Fairness

- `AciTransport`: the chip lowers RDYN for a request or an event it has (`RaiseReady`), a pending
  interrupt is taken (`Isr`), and the program goes on with what it has begun and keeps
  polling, which every loop of `bluetooth.cpp` and `get_and_store_waypoints` does. It need
  not send, and the chip need not have events.
- `Bluetooth`, `AciSetup`: the program runs, and a possible transfer happens. Phones, the user
  and the time-out have no fairness.
- `GpsReceiver`, `Watch`: the program runs. The GPS may stop sending, nobody need press.
- `Tracking`, `WaypointStore`, `AciLib`, `Display`: safety only.

## 6. The proofs

`WaypointStoreProofs`, for every `MaxWaypoints` up to 255, all texts, all values:

- `TypeCorrect` and `SessionsConsistent`: `Spec => []TypeOK` and `[]SessionConsistent`. The
  inductive invariant `Inv` is their conjunction. Neither part is inductive alone: that a float
  is written within the reserved addresses, the conjunct of `TypeOK` about `pc = "word"`, needs
  `writer.ptr = 8 + 4 * Stored` and the checked count, and the equation needs the types.
- `SuccessIsTrue`: when the session returns true, the reader returns the session's points.
- `ReaderNeverSeesGarbage`: what is marked valid is whole, after any power failures,
  assuming `TornByte = {}`: an interrupted byte write leaves the old or the new value.
  (Section 4 says what happens otherwise.) It uses `Inv` for the moment the flag is
  set: `Stored = 2 * count` then, and every float up to there has been written.
- `StoreImplementsPath`: with the same assumption, every step maps to a step of
  `WaypointPath` or a stutter, under the mapping at the end of `WaypointStore`.

`ModeProofs`, of the main loop, for every debouncing time and width of `millis()`:

- `ModesAreAskedFor`, `ModesEndByOwnPress`: of which phase a set flag's press may be, in each
  phase (`FlagsMatch`): it is what the clearing at the end of a mode establishes, and
  the two action properties read it off at the steps that start and end modes.
- `AcceptedPressesApart`: `millis() - last` is never more than the time since the last accepted
  press while that is within the debouncing time (`SinceLast`), so the wrap, which needs a
  longer time, cannot make a press seem later than it is.

and of tracking, for every path, all places and all distances:

- `RouteIsFollowed`: the definition it is about says that the device is at waypoint n when some
  non-decreasing choice of fixes visits the ones before n, and none visits n too. The invariant
  (`OnRoute`) is this for the fixes so far, with the waypoint in RAM being the one in EEPROM. The greedy
  loop is as good as any choice: a fix added extends a choice by a run of waypoints near it
  (`FixExtends`), and any longer choice would have needed it for the next one
  (`FixAddsNoMore`).
- `SkipStops`: the loop ends, at the first waypoint that it must not pass.

`AciTransportProofs`, for any number of commands and events that leaves the byte indices
below 256 (`NoWrap`; beyond, `transport_wrap` says what happens):

- `TransportNeverSpins`: while the interrupt is attached there is room. The step that attaches
  it relies on `was_full`, read four steps earlier; `AttachInv` says why it may: if the queue
  was full the interrupt was off, nothing has come in since, and one event has been taken out.
- `CommandsArriveInOrder`, `EventsArriveInOrder`: `Window` and `Slots` say which packet is in which
  slot, also halfway through an enqueue (a slot is written before it counts, and holds none
  of the others) or a dequeue (the oldest stays where it is while it is copied).
- `TransportActsAsLink`: the transport implements `AciLink`. By the same invariant packets are
  numbered, so a queue is an interval of numbers: an enqueue is a `Send` when the tail moves, not
  when the slot is written, a dequeue a `Take` when the head does, and the interrupt routine a
  `Transfer`, for which there is room because it never spins. Without `NoWrap` it is false:
  started at index 251, TLC shows a transfer into a full queue.

`AciSetupProofs`, for every number of messages and size of the queues:

- `AttemptsAreWhole`: with the types, and that the answer being acted on is still in its queue, it
  is inductive, since an attempt begins with empty queues and a transfer takes the oldest.
- `SetupUsesLink`: what the setup and its chip do is a step of `AciLink`, `Continue` with its
  `Fill` included: an answer is taken and several messages are queued behind the others.

`BluetoothProofs`, for any number of phones, points, and limit of points up to 255, and queues of
at least four (`ACI_QUEUE_SIZE` is 4; TLC finds parts of the invariant violated with queues of
one and two, where commands are dropped, and holding with three):

- `SessionsHearNothingStale`, `StatusIsTheRadios`, `MessagesAreTakenInOrder`, `OneStaleMessage`.
  The queues are shared by all sessions, and no packet says which one it belongs to. What
  separates them is the answer to connect: there is one connect and one answer (`OneConnect`),
  asked for when all of the last connection is ahead of it, its end last (`ResetIsAhead`,
  `EndIsLast`). So what is behind the answer is of the new connection (`ReportsAreFresh`), and
  the status that the driver will have on reading the answer, and has from then on, is the mode that
  the radio will be in when the events in between have been handled (`StatusFollows`, by `Follows`).
  Messages are ordered by connection (`LinksInOrder`) and, in the present one, by number,
  with none missing between the last that was given to the writer and the next to come
  (`NumbersInOrder`).
- That a poll's own command is never dropped is part of it, since a reply that is lost would
  break the chain of events: `CommandsFit` says that of the commands queued in a session each is of
  another kind (left from before, in the chain of replies to the connection, in that to the
  pipes, disconnect), so that there are never more than four.
- `SessionsUseLink`: every step is one of `AciLink`, so the session asks no more of the transport
  than what it is proved to provide.
- `FreshPathsAreStored`: unless the session began with a message from an earlier one, the path
  that it stores is the one its own phone sent, whole and in order: what `session_stale` shows is the
  only way to another. With the invariant above: the writer's data are the messages
  taken, in order (`Writing`), which come from one connection and start with its count
  (`FromTheFirst`). The formula, `FreshPathStored`, is an action property of `Bluetooth`.

- `RadioSleepsAtHome`: `AsleepAtHome`, for `MaxUnread` of at most two, by counting what is on its way
  (`FewOnTheWay`). Behind the answer to connect there is at most one packet from before
  (`BehindAnswer`, `Advertised`), and the two events of a connection that is not early. From then
  on a command, the reply to it and the event it continues are one item that changes its place,
  so there are at most two, and three with disconnect (`InConnection`); the end of the connection leaves
  what is behind it and what is still queued (`Ending`, `Ended`). So when the radio is told to
  reset and sleep both commands find room, and since each transfer takes a command and brings at
  most one event all of them are taken (`Fits`). Both hypotheses are needed: TLC finds the radio left
  awake with queues of three, and with phones that act on two unread events at queues of four.

`DisplayProofs`, for all lengths of the numbers, clocks of eight characters, which those of all times
from 0 to 32767 s are, and at most ten bytes behind `lcd_print_float`'s buffer:

- `PagesAreShown`. While the program is writing, the radio's interrupt routine does not run
  (`BusIsOurs`), so of a page exactly the first `Made` writes have been made, in the
  right bit order. For each page and each number of writes made, the invariant gives what is on
  the display (`HomeDrawn`, `OneTextDrawn`, `TrackingDrawn`): a page that is not cleared first is drawn over
  the one before it, row by row from the top, and what a row spills into the next is written
  over there; the cell behind the clock is written by no page and is blank since the last
  clear. With a longer clock, or eleven bytes, it is false (TLC).

`GpsReceiverProofs`, for every number of lines and sizes of the buffers that hold the parts of a
line up to the checksum:

- `LinesUsedOnce`: the line buffer is not cleared, and the checksum is searched for beyond the
  end of the string. `UsedUp` says why a line is not found in it again: characters are read in
  the order sent (`InOrder`), so after a line has been used either the string ends before its
  flag, or its first field is of a later line.
- `EveryLineIsRead`: for every latitude, every longitude and all speeds below 1000 knots (TLC has
  144 readings), what `gps_parse` takes from its fixed offsets is the position, and the
  speed but for what comes after the fourth character. `DigitsOf` says what the digits of a
  number are; `SentenceParts`, `MeasuredParts` and `AngledParts` at which character each part of a sentence stands, given the lengths of those before it, so that the
  offsets are right only because the degrees have two and three digits; `ValueOfDegrees`,
  `ValueOfMinutes` and `ThousandthsRead` what `atol` and `atof` make of them. A sum of degrees and
  minutes read in two pieces, the point left out between them, is put together in `AngleRead`.
- `PositionsAreRead`: `PositionIsRead`, for every set of `Sayings`. What the buffer holds when it is
  found valid is the sentence of one line, up to the checksum (`BufferedIsSentence`); that is what
  the checksum is for, and the rest is `EveryLineIsRead`.

`AciLibProofs`, for every size of the queues, every peer (its pipes, as many as fit the bitmaps, which
of them it opens, its intervals), and whatever an earlier call left in the buffer:

- `ViewIsTheChips`: `ViewCatchesUp`. It speaks of the moment when no event waits, and says nothing
  inductive about the others; the invariant (`ViewInv`) does. Of the events that say whether there
  is a link the latest that waits says what is true, and if none waits the program knows
  (`LinkInv`, `StatusInv`); the same for the interval (`TimingInv`), which two kinds of event carry
  at different offsets, and for the open pipes (`PipesInv`), of which the program's copy is
  out of step from `lib_aci_disconnect` on, which clears it, until the event of the
  disconnection. An event that joins the queue becomes the latest of its kind (`ReportJoins`);
  the first one, when it is read, is the latest or is made up for by a later one
  (`ReportLeaves`, `EventGetView`).
- `EveryReportIsReadAsSent`: the decoders, against the structs, for every event, all bytes
  and all lengths of arrays. `EventsLaidOut` and `ResponsesLaidOut` compare, event by event, the
  offsets written by hand with the sizes of the fields before them, and `EventsSized` and
  `ResponsesSized` the lengths which the decoders subtract from. All else is one proof for all
  events: where the bytes of a field are in a packet (`PackedFields`, `PacketFields`), and that a
  decoder with such offsets finds them (`DecodedFields`). The one exception is stated, not
  excluded: of dynamic data the decoder takes one byte more (section 4).
- `EveryCallIsTakenAsAsked`: the encoders, in the same way, for every command and all arguments
  that fit it, the keys being of the two types that there are (section 4 has what a third would
  get). What has to be shown beyond it is that every byte that the chip counts
  has been written by this call, so that none is `Stale` (`PlacesCover`: the fields leave no gap).
- `EventsAreReadAsSent` and `CommandsAreWhatWasAsked` carry this over to the queues: whatever is
  queued is such a packet (`EventsInv`, `CommandsInv`), and a transfer brings all of it, however
  long the packet it crosses with (`EventIsReceived`, `CommandIsHeard`: `max_bytes` is the longer).

Two operators of the model are recursive functions, and a proof has to show first that the recursion
has a solution. `FlattenSolved` does it for `FlattenSeq`, of which the layouts are made, by
induction; since the library's theorems of induction, which take an operator, cannot be used, it
goes by the least member of a set of numbers (`Least`, `UpTo`, and `LeastNumber` in `ModeProofs`).
`ValueSolved` does it for `Value` by writing the solution out for six characters, more than which
the code never gives to `atol`. Proving `AciLibProofs` from nothing takes about seven minutes.

`...TypeCorrect` of each module is the type invariant, which says among other things that no buffer
or queue overflows.

What is model-checked only:

- All liveness, which is out of the prover's reach: `EventsDelivered`, `CommandsHeard`,
  `SessionStarts`, `SessionEnds`, `SetupEnds`, `LastLineUsed`, `HomePressIsServed`.
- `SetupIsConsistent`, a computation on the constants of `services.h`: it is about 42 messages and no
  parameter, so that the run says as much as a theorem would.

All other invariants and action properties that the passing runs check are proved.

## 7. What is not modelled, and known limits

- `haversine.cpp`: floating-point trigonometry; `Tracking` takes any distances.
- The wake-up and standby of the GPS (`gps_initialize`, `ignore_line`), which wait for
  notifications that the repository does not describe. `Watch` takes it that they come.
- The font and the pixels of `lcd.cpp`; speeds and averages.
- `lib_aci_board_init` and `lib_aci_init` before the first command: pins and a reset; the
  flags of pending operations and the data credits of `lib_aci.cpp`, which nothing reads;
  `acil_encode_cmd`, `bootloader_setup.cpp` and `dtm.h`, which nothing calls.
- Of `services.h` the data of the setup messages that is not about pipes: names, UUIDs,
  permissions, radio parameters. `docs/` and the board design: no code.
- `hal_aci_tl_q_flush`, `hal_aci_tl_pin_reset` outside the initialisation, debug printing.
- `AciTransport` models interrupts at the steps of the code that matter to the queues, not
  at machine instructions; bytes are read and written in one.

## 8. Plan

The order was: storage, because a wrong path leads people astray and nothing else
survives a reset; the transport, the one place with real concurrency; the session on
top of both; tracking; setup, GPS and the main loop around them. Done: all of these,
the display on the shared bus, and the library down to the bytes, with proofs of storage,
transport (against an abstract link), setup, session, tracking, receiver, display, main loop
and library.
Left, in order:

1. The GPS's wake-up and standby, with an external GPS that answers commands.
2. A composition of `Watch` with `Bluetooth`'s and `Tracking`'s promises.
