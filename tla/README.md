# Bottle collector, return box and QR box: a verification development

The repository holds the Arduino sketches of a student project on the collection of
empty bottles (its final report is `빈병수거기 최종보고서.pdf`) together with the
libraries they use. This directory holds TLA+ models of those sketches, the TLC runs that
check them and the theorems that TLAPS proves about them.

## 1. Inventory

Three systems share the repository. Each is a sketch that runs `loop()` for ever on one
processor; none of them has threads, so what is hard comes from the outside world moving
while `loop()` blocks, from interrupts, from serial lines and modems, and from power
failures.

| system | source | state it keeps | operations |
|---|---|---|---|
| **Bottle collector** | `bottle_collecter_v3(주석포함).ino` | marks and records of 20 slots (`pin_usg`, `pin_rec`, `weight_rec`, `barcode_rec`, two counters, `total_weight`), two barcode buffers, the retry counter of the modem | `Pin` (insertion, removal), `Weight`, `Barcode`, `sendCommand`, `send_data`, `Check` |
| **Return box** | `MEGA0809.ino` | the session step `SysCnt` and its timer, the bottle scanned and weighed, switches, position of the next soju bin, motor, servos, lamps, beacon | 14 session cases, 2 closing cases, the timer interrupt, the HID scanner's callback, the test mode |
| **QR box** (door lock) | `qr_1121_wdt_10m` and its ancestors `qr-ok-*`, `hanna0828`, the Yun's `qr-yun-ok_0830`; `itCode`, `mkr_0809` and demonstrations | the request to the server and what has arrived of its reply, the solenoid, the state of the door as last read, the latches `isDone` and `okChar`, the phone's last character, the watchdog | request, reply, open, door read, latch reset, watchdog reset |

Under them lie vendored libraries. Two have state that the sketches' correctness hangs on:
the **WiFi101 client** (slots, sessions and events of a radio chip that answers later) and the
**HID keyboard parser** of the USB Host Shield (reports of keys that are down, from which it
works out the keys that were pressed).

Smaller parts: HID barcode readers (`barcode_0528`, `QR_BARCODE_0601`), upload prototypes
(`esp8266_http_1030`, `mega_esp8266`), request tests (`mrkPost`, `mrkWifitest`, `dsad`), a
firmware updater (`mkr_updateCode`), tests of a lamp, a door or a Bluetooth module, and
fourteen vendored libraries under `src/libraries`. `PROJECT.json` lists all of them with
the reason why each is or is not modelled.

### How the parts interact

*Collector.* Customers close and open slot switches, load the platform and scan codes at
any time. `loop()` visits the slots in turn. A closed switch without a mark leads, after
1.5 s, to `Weight(slot, 1)` (the new bottle is what the scale shows beyond the total), to
`send_data(1)`, and to a copy of the barcode buffer. An open switch with a mark leads,
after 0.5 s, to `send_data(2)` and then `Weight(slot, 2)`. After each pass one character of
the scanner is read. `send_data` talks to an ESP8266 by AT commands, over a server that
gives no answer that anyone reads.

*Return box.* The scanner's callback sets `BottleID`; `loop()` starts a session when it
sees `BottleID` change from zero; `Action()` runs one case of the session per pass. The
timer interrupt, every 10 ms, sets `keyIn` and, every 100 ms, counts `SysTimerCnt` down.

The scanner itself is a USB keyboard: `Usb.Task()` polls its reports, drops repeated ones, finds
the keys newly down and hands them to `OnKeyPressed`, which collects a line until Enter.

*QR box.* `loop()` reads the door, then what has arrived of the server's reply, obeys the
command between its two `@`, and asks again every two seconds with the state of the door
(`dstat`) and of its latch (`rev`). 1 opens the solenoid for a while, 0 closes it and resets
the latches, 4 starts a watchdog. Everything it reads and sends goes through a `WiFiClient`:
`connect`, `available`, `read` and `stop` handle the chip's events, one after another, in the
middle of the sketch's own calls. One generation runs `curl` on the Linux side of a Yun instead;
two obey a phone over Bluetooth.

### What is hard, and what makes each part correct

- *Collector*: blocking handlers read the world twice; records kept as a stack of
  newest-first while bottles leave in any order; two counters for one number; a restart
  under standing bottles; one character of a barcode per pass. Correct means: marks,
  counters, records and total agree; reports balance; indices stay inside; every bottle is
  noticed in the end; for orderly customers the reports are true.
- *Scanner line*: codes of different length in one buffer, a ring that drops any character
  when it is full, two buffers side by side without a bound on the index. Correct means: up to
  its last cell a buffer is exactly the last code, once that was read to its end.
- *Upload*: replies are recognised by a substring, timeouts, retries in a stateful
  protocol. Correct means: records arrive whole, in order, at most once, the sketch always
  returns, every command gets its attempts.
- *Return box*: an interrupt that shares a two-byte timer; a scan, a press or the test mode
  at any point of a session; power failures. Correct means: the motor runs only in its
  cases and for its time, the lid opens only after a weighing and a fresh press of this
  session, sessions end, the beacon is true.

- *Switches and scanner line of the return box*: bouncing contacts and a one-byte counter;
  keys that overlap in the reports, reports that are repeated or erroneous, two layers
  that each keep a last report. Correct means: one press for each time a switch is held; a line is
  taken as it was typed.
- *QR box*: `open()` blocks for seconds while door, server and phone go on; a reply arrives in
  pieces, late, or never; resets at any moment. Correct means: it opens only for an answer that is
  still valid, and once; no solenoid stays pulled behind the back of who commands it; the latches
  tell the truth; on a network that works it opens when told and reports its door.
- *WiFi client*: answers to connections that were given up; seven slots; an event that blocks all
  others until its last byte is fetched; connections that are aborted, and a network that is lost
  with all of them. Correct means: a client is the byte stream of its own peer, to its end unless the
  connection breaks; nothing leaks, nothing blocks for ever.

The complete list, with lines, is `hazards` in `PROJECT.json`.

## 2. Modules

| module | models |
|---|---|
| `BarcodeReader` | `Barcode()`: the scanner's serial line into two padded buffers |
| `BottleCollector` | `loop()`, `Pin`, `Weight`, the records of `send_data`; extends `BarcodeReader`, whose step is the last step of a pass |
| `StackLedger` | what the reports promise to who reads them: a stack of weights and its balance |
| `BarcodeReaderProofs` | theorems about `BarcodeReader` |
| `BottleCollectorProofs` | theorems about `BottleCollector`; extends `BarcodeReaderProofs` for what the buffers hold |
| `AtModem` | `sendCommand()` and the script of `send_data`, with the modem and the network as external processes |
| `AtModemProofs` | theorems about `AtModem` |
| `ReturnSequence` | `MEGA0809.ino`: `loop()`, `Action()`, the interrupt |
| `ReturnSequenceProofs` | theorems about `ReturnSequence` |
| `KeyScan` | `KeyScan()` of the timer interrupt, one switch |
| `SwitchEvents` | what a switch promises to `loop()`; `KeyScan` implements it |
| `HidScanner` | the HID parser of the library and the line buffers of three sketches |
| `ReturnInputs` | `HidScanner` beside `KeyScan`, as in the return box |
| `ReturnInputsProofs` | theorems about both, and the proof that `KeyScan` implements `SwitchEvents` |
| `GetValue` | `getValue()`, the splitter of every QR box, and what it should compute |
| `GetValueProofs` | the proof that it computes it |
| `QrBox` | eight generations of the lock; extends `GetValue` |
| `QrBoxProofs` | theorems about `QrBox`; extends `GetValueProofs` |
| `WiFiSocket` | a `WiFiClient` of the WiFi101 library down to the chip's events |
| `ByteStream` | what a client promises a sketch; `WiFiSocket` implements it |
| `WiFiSocketProofs` | theorems about `WiFiSocket`, and the proof that it does |
| `MC*` | the values of the constants for TLC |

### Collector

A step of the sketch is what happens between two points where the world may have changed
unnoticed: `Scan` (a `digitalRead`), `Insert` and `Remove` (the second `digitalRead`, after
the delay), `Weigh`, `ReportIn`, `ReportOut`, `Unweigh`, `ReadSerial`. Customers
(`PlaceBottle`, `LiftBottle`, `ScanCode`), the scanner (`ScannerWorks`) and the power supply
(`Reboot`) act between any two. `reported` is a ghost that adds what the reports say; `tag` and
`scanned` are ghosts that say what the reports ought to say: the member at the machine, the
product in hand, and (`emptied`) whether the last bottle was taken out since it was scanned.

`barcode_rec[pin_cnt-1][i] = ""` stores the low byte of the address of an empty string;
the model calls it `JUNK`. With `pin_cnt = 0` the row lies below the array. What is there
is the linker's choice, as it is for a line that is stored past the end of its buffer. `layout`,
chosen once, is one of the two orders of `user_barcode`, `barcode` and `barcode_rec` (lines 15-17,
declared one after another), or "apart", where what lies between is memory that nothing modelled
uses. In "ascending" order row -1 is `barcode`, `user_barcode` runs on into `barcode`
(`ItemCell`) and both into the rows (`StoreBeyond`); in "descending" order `barcode` runs on into
`user_barcode` (`UserCell`).

A noisy scale may show any member of `Noise` more or less; integers are unbounded, since
the weights of twenty bottles are far from the limits of sixteen bits.

### Scanner line

A code is a name `c`; its characters are `<<c, 1>> ...`, so that a mixture of two codes is
visible. The scanner sends a line character by character (`Arrive`), between any reads of the
sketch. The ring holds `RxCap` characters and drops those that do not fit: the end of a line, its
newline, or some in its middle. A line that lost its newline runs into the next, and may be longer
than its buffer: then the program writes past the end, as the collector's section says.

`got`, `last` and `garbled` are ghosts: what was read since the last newline, the code that each
buffer was last filled with (or `Torn`, if that was no code), and the buffers in which anything but a
code was ever stored. The last are needed because the padding of lines 112 and 122 stops one short of
the array: its last cell is zero as long as only codes are stored, and a character of
a joined line that was stored there stays until a power failure.

### Upload

The modem reads what it is sent in order. It answers `CIPSEND` with `OK` and `>`, and takes
what follows for data. `SEND OK` is written `OK`, because `find("OK")` cannot tell them
apart. `timely`, chosen once, says that the modem answers before `find()` gives up; otherwise it
may answer later or never. `lossy` lets connections fail. No command is echoed in a way that
`find()` could take for a reply, as no command contains `OK` or `>`.

### Return box

One pass of `loop()` is four steps: `usb` (a scan may complete), `mode` (`GetRdc`, test
mode), `act` (start of a session and one case of `Action()`, an action for each case),
`led`. `Tick`, `Press`, `LongPress` and `Release` interrupt anywhere. On the AVR the sixteen
bits of `SysTimerCnt` are stored high byte first and compared from the low byte; with `Torn`
the interrupt may fall between: `SetsFrom` gives the value that results from a torn store,
`SeemsZero` a value that a torn read takes for zero. `KeyScan()` and the scanner appear by their
results: `Press`, `LongPress` and `Release` are the events of `SwitchEvents` (with every
interleaving of four of them, hence more than any switches can do), a scan sets `BottleID` to any
entry of the table. EEPROM appears as the one cell that is ever read. `weighed`, `bin`, `pressed`,
`elapsed` are ghosts. `pressed` holds the switches pressed while the present case waits for one: it
is emptied by the session's own steps, not by what the sketch clears in `keyIn`, so that a
switch that a case forgets to clear is seen.

`KeyScan` is one branch of the function, the third switch's or another's: the branches share
nothing but the port. `Contact` bounces at will between two interrupts.

`HidScanner` follows a report from the scanner through `HIDUniversal::Poll` (`Poll`: an equal one
is dropped) and `KeyboardReportParser::Parse` (`KeyDown` for each place of the report in turn) to `OnKeyPressed` of the sketch. `sketch`,
chosen once, says which: the return box refills its buffer after a line, the two prototypes leave it.
A report has six places; the model uses two, as a scanner presses one key while it
releases another. `Again` repeats a report, or sends the error report. After `Unplug` the scanner
starts with no key down, while both layers keep the report they saw last: `HIDUniversal::Release`
and `Init` leave `prevBuf` as it is. A key stored past the buffer (`spilt`)
overwrites whatever the linker put there: from then on any entry of the table may match.

### QR box

A generation of the sketch is a set of traits (`polls`, `drains`, `checksDoor`, ...), one for each
way in which their `loop()` differ, and `gen` is chosen once: an action is the common code, with the
trait as its guard where only some generations have it. A pass is `Sense` (door and phone),
`Read` (what has arrived of the reply), then `Open` ... `Shut`, or `Act` for any other result, and
`Poll` (the next request, the watchdog). The Yun's pass is `Call`, `Act`, `LateSense`. Between any two of
them, and during an opening, replies arrive line by line, the door moves, the server changes its
mind, watchdogs bite. A reply is a sequence of lines of characters; `res` is field 1 of a line, cut
out by `getValue` itself. `calm`, chosen once, says that replies come whole and in time and that the
power does not fail; liveness is promised for calm runs alone.

The phone may send any character (`PhoneChars`): its three commands, or one that means nothing, such as
the newline of a terminal. `btChar` is the last one received and is obeyed in every pass;
`while (Serial1.available())` drops those that came with it before.

`allow`, `word`, `phone` and `opened` are ghosts: the answer that may still be acted upon, the last
command of the server and of the phone, and whether the door was open since the last 0.

### WiFi client

`sock` is `gastrSockets`, `info` is `_info`, `next` and `sid` are the counters of `socket()`;
`hif` is the queue of the chip's events, which `Handle` takes one at a time unless
`hif_receive_blocked`. A call of the library handles events before it does its work; as `Handle`
may happen before any call, the calls themselves start where that is done. `connect()` is
`Dial`, then `Dialled`, or `GiveUp`, `NoEvent` and `Fail`: its failure closes the socket, and
that call handles events once more. `Fetch` is one transfer into the buffer; it may fail, as may
every transfer of a `Read`. `chip`, `peer` and the four actions on them are external: they say no
more than the events that `m2m_ip_cb` can receive for a connection that was asked for.

A connection may break in two ways. The answer to a `recv` may carry a negative status (`Abort`:
aborted, timed out), on which `handleEvent` closes the socket although the chip still holds bytes of
the peer. Or the network is lost (`Lose`): the event comes after those that are queued, and
`WiFi.cpp` then closes every socket (`OnLoss`).

What the model takes from the chip: it answers a command at most once, in order for each slot; after
a close it answers for that session no more, but an answer may already be queued. Once it has lost the
network it says nothing more of any connection until the library has handled that event; a connect that
is dialled in between fails in either case. In twenty
seconds of waiting, `connect()` handles what is queued (`GiveUp`). Commands to the chip
succeed, the connect apart.

Each model keeps, next to a definition, the mutated forms of it that show that a property
can fail (comments that begin with *Mutant*); no specification uses them.

## 3. Runs

| run | question | bounds | result |
|---|---|---|---|
| `reader` | is a buffer exactly the last code, up to its last cell? does a code stay inside its buffer? | 2 member and 2 product codes of lengths 1 to 4, widths 3 and 4, a ring of 3 that overflows anywhere, 3 scans, all three layouts | holds |
| `collector_any` | do marks, counters, total and reports agree, whatever happens? do the reports implement the ledger? is every bottle noticed in the end? | 2 slots, 2 weights, noise 0 or 1, 5 moves, 1 power failure | holds |
| `collector_orderly` | are the reports of orderly customers true? | 2 slots, 1 member, 2 products, 2 scans, 5 moves, 1 power failure, all three layouts | holds |
| `collector_records` | do the rows of standing bottles keep their barcodes (line 17)? | 2 slots, 4 moves | violated |
| `modem` | are records whole, in order, delivered where they can be? does `send_data` return? | every combination of a timely or untimely modem and a working or failing network; 6 records with a timely modem, 2 with another; a command is tried once or twice | holds |
| `return_any` | is the lid safe, and the beacon true, in every circumstance? | large and soju bottles; a timer byte of 2, times of 1 to 3 counts | holds |
| `return_live` | do sessions end, and the lid's motor with them, never before its time? | large and small beer bottles, torn accesses to the timer | holds |
| `return_wedge` | does a barcode start a session (line 256)? | one kind | violated |
| `return_test_mode` | is the motor switched off when switch 3 is held (line 405)? | one kind | violated |
| `return_inputs` | is a scanned line taken as typed? are presses events, however a switch is held? | 4 codes of 2 to 6 characters, a buffer of 5 of which 3 are compared, 3 sketches, the cable off once; a press at 1, a long press at 2, the cap at 3, a byte of 5 | holds |
| `qr_box` | does the box open when, and only when, it should, leave no solenoid pulled, tell the truth about its door, and come round to both? does `getValue` cut out the field? | all eight generations; 3 commands, replies of one to three lines, whole, cut, or without a result; texts of up to 5 characters | holds |
| `wifi_socket` | is a client the stream of its own peer? does every byte arrive? does nothing leak or block? | 2 slots, a buffer of 2 bytes, 3 session numbers used over and over, 7 connections, 5 bytes each, any of them aborted or lost with the network | holds |

*Why the bounds are enough.* Two slots are enough for the newest bottle to be another than
the one taken, for two bottles to be weighed together, and for a full collector; five moves
fill, empty and refill it. The codes include one longer and one shorter than their
neighbours, which the padding is about; three lines without a newline between them run through
the last cell of one buffer into the other, and a ring of three loses any character of a line. In `modem` it matters whether a command may be
repeated, not how often: `AT+CIPSTART` and `AT+CIPSEND` have a second attempt there, the others
one, instead of 15, 4 and 5; six records let the shift of replies reach every command. The
times of the return box keep what matters of 600, 1800, 50, 18 and 16 counts: the first two
need both bytes of the timer, the lid's need one, and each can run out or not. Between
them the runs use all three kinds of bottle.

In `return_inputs` a code is shorter than the table's width, as long, longer, and longer than the
buffer; one is in the table twice; characters repeat within a code, which is where a parser that
compares reports could lose one. The counter of a switch needs an order of its limits
and a byte that is larger than the cap by two, no more. In `qr_box` one value stands for all
characters of a header and one for white space; `getValue` is applied to every text of up to five
characters, which has every arrangement of two separators and a value. In `wifi_socket` two slots are
what it takes for an answer to meet the next owner of its slot, three session numbers for them to
come round, five bytes for an event that needs three transfers.

*Deadlock* is checked for the return box, whose loop always has a step. In the other runs
`CHECK_DEADLOCK FALSE` stands for a behaviour that ends: the reader alone stops when all
scans are read, the upload when all records are sent, the WiFi client when all connections are used.
The loops of the collector and of the QR box never stop; the two run with the same setting because
their environment may stop, and their liveness properties say that the loop goes on.

*Fairness.* `WF_vars(Sketch)` and `WF_vars(Loop)`: the processor runs on; nothing else in the
sketches is waited for without a timeout. `WF_vars(Tick)`: the timer interrupt goes on.
`WF_vars(timely /\ Modem)`: a modem that is timely serves what it received; an untimely one
may stop for ever. In `QrBox`: `WF_vars(Loop)` as before; `WF_vars(Expire)`: time passes;
`WF_vars(calm /\ Serve)` and `WF_vars(calm /\ Arrive)`: a calm network delivers; the watchdog that nobody
feeds bites. In `WiFiSocket`: the sketches call the library in every pass and read while there is
something to read (`Handle`, `Read(MaxBytes)`), and the chip reports the bytes it holds for a
`recv` (`Report`). A transfer over the bus may fail, but weak fairness of `Read` is enough: the property
is stated for reads, each of which may take less than it wants. Customers, networks that are not
calm, connections, peers and power failures are never fair.

*Conditions in properties.* `IntactInOrder` and `EveryRecordDelivered` are promises about a
timely modem (and a working network). `BeaconTruthful` excepts sessions in which a second
barcode was scanned: the guard against that is commented out (line 124), and without the
exception TLC finds a session that weighs one kind, opens and announces another.
`InsertionReportTrue` excepts a product that was scanned before the last bottle was taken, where
`barcode` lies below `barcode_rec` (row -1, section 4). `ClientIsStream` and `BytesArrive` promise
all of the peer's bytes unless the connection breaks; `ByteStream` lets a client end early only then.
`OpensAreGranted` is stated for boxes that poll: a Yun whose `curl` fails obeys the line of the
call before it. `GrantedOpens` and `DoorReported` leave out the generation of 4 October, whose watchdog
is enabled for four seconds and never fed while an opening takes six: it never completes
one. `BufferHoldsLine` and `LastLineTaken` leave out the line that was being typed when the
cable came off (its characters stay in the buffer and join the next one), and lines that do not fit.
`LinesAreCut` leaves out texts that end in the separator, which `getValue` makes part of the last field.

## 4. What the code does against its comments

Each of these is a run that ends in a counterexample; `findings` in `PROJECT.json` quotes the
lines.

1. A removal wipes the barcode of the newest bottle that still stands (`collector_records`).
2. A scan in the one pass after a session ended wedges the return box until it is restarted
   (`return_wedge`).
3. Holding switch 3 while the lid moves leaves the motor on (`return_test_mode`).

The models also contain, without a run of their own: `find("OK")` is satisfied by the `OK` of an
unread `SEND OK`, which shifts all later replies by one command, so that on a network that
fails a refused connection is not retried (`Found`); a session that times out at the switch leaves its
bin open (`AwaitSwitch`); a torn store of the timer cuts the minute short: 600 is 2 and 88 in bytes, 512 is
decremented to 511 between the stores, and 344 counts remain (`SetsFrom`; the lid's times
need one byte, and are safe from this, which `LidRunsItsTime` checks); a door that is opened and closed
again within one `open()` is seen by no latch, although line 170 of `qr-ok-1_0829.ino` means "at least once"
(`Sense`, `Door`); a removal is reported with the newest
bottle's slot, and with the barcode of the row numbered like it (`Record`; lines 74-75 ask for
a correction); taking the only bottle writes row -1, so that a customer who scans the next product,
takes the only bottle and then places the new one is reported with junk for a barcode, if the linker
put `barcode` there (`ClearRow`); a character that a joined line stored in the last cell of a buffer
is not replaced by any later scan and is sent with every later report (`PadFrom`, lines 112 and 122; lines 174
and 179), as is the junk of row -1 in that cell; the position of the next
soju bin is written as an address and is lost at a restart (`OpenBin`, `Restart`).

## 5. Proofs

Every invariant that a run checks is a theorem here, for every value of the constants, and so are
all action properties and refinements. The assumptions are those that the modules name next to their
constants, and TLC evaluates them in the runs.

| module | theorems | assumptions |
|---|---|---|
| `BarcodeReaderProofs` | `AlwaysInBounds`, `BuffersAlwaysHoldLastScan` | `ReaderAssumption` |
| `BottleCollectorProofs` | `TypeCorrect`, `CountsAlwaysAgree`, `IndicesInBounds`, `TotalAlwaysSum`, `BooksAlwaysMatch`, `ImplementsLedger`; `InsertionsReportedTrue`, `RemovalsReportedTrue` | `ReaderAssumption`, `CollectorAssumption`; for the last two also `OrderlyCustomers` |
| `AtModemProofs` | `AlwaysTyped`, `EveryCommandAlwaysTried`, `AlwaysIntactInOrder` | `ModemAssumption` |
| `ReturnSequenceProofs` | `AlwaysTyped`, `LidAlwaysSafe`, `AlwaysWeighedFirst`, `PressesAlwaysFresh`, `LidAlwaysRunsItsTime`, `BeaconAlwaysTruthful` | `SequenceAssumption` |
| `ReturnInputsProofs` | `SwitchesAlwaysEvents`, `BufferAlwaysHoldsLine`, `LastLineAlwaysTaken`, `InputsApart` | `KeyAssumption`, `ScannerAssumption` |
| `GetValueProofs` | `GetValueCuts` | none |
| `QrBoxProofs` | `AlwaysTyped`, `SolenoidAlwaysObeys`, `SeenAlwaysMeansOpened`, `OpensAlwaysGranted`, `LinesAlwaysCut` | `ReplyAssumption` |
| `WiFiSocketProofs` | `SlotsAlwaysOwned`, `AlwaysUnstuck`, `ClientAlwaysStream` | `SocketAssumption` |

### Collector

*Counts and books.* Types alone are not inductive: `bottle_cnt + 1` stays within `0..NSlots` only
because the counter equals the number of marked slots, and a slot is marked before its bottle is
counted, so that in `weigh` some slot at least is marked and not yet counted. This is `CountInv`:
types, `CountsAgree`, and what each value of `pc` says about the slot at hand. `IndexInBounds`
follows from it.

That the total is the sum of the records is not inductive either, unless an insertion followed by
a removal takes off exactly what was put on. `SumInv` says that there are partial sums `p` with
`p[0] = 0`, `p[k+1] = p[k] + weight_rec[k]` and `total_weight = p[bottle_cnt]`, which an insertion
extends and a removal shortens. `BookInv` relates the ghost `reported` to the counter and the total
for each `pc`; with it each step of the collector maps to a deposit, a withdrawal, a loss of all, or
a stutter of the ledger. `TotalIsSum` names the recursive sum itself. The partial sums determine it
(`SumInvIsSum`), which is an induction over the number of records.

*What customers are told.* The truth of reports is promised to `OrderlyCustomers`: they wait until
the sketch has noticed a bottle before they touch another (`Orderly`), take the newest first
(`Lifo`), the scale reads true (`Noise` is zero), and a code fits the receive ring with its newline.
The constants of `collector_orderly` meet all four. `OrderInv` then has one part for each thing a
report names. At most one slot differs from the records, the one that was just touched. What the
platform bears differs from `total_weight` by that bottle alone. The records are a stack (`StackTop`): the
newest bottle is at `bottle_cnt - 1`, where a removal looks. And the buffers show what was scanned
for it (`ScansInv`). While a code is on its way, what was read of it, what waits in the ring and
what is still to be sent are the whole of it (`OneLine`), since nothing is dropped. While a
bottle waits to be noticed the reader is at rest (`Silent`), and nothing but codes was ever stored in a buffer
(`Clean`), so that the invariant of `BarcodeReaderProofs` determines all of its cells (`Shown`). Only `Unweigh` of the last bottle, in
the "ascending" layout, breaks this for the product's buffer: `emptied` follows it from the
customer's hand to the report, and is forgotten by the next scan of a product. A report after a power failure is left
out by the properties, as the sketch has then forgotten who stands where.

### Scanner line

`bar_cnt` and `bar_mode` say nothing of the ring's history: they are determined by what was read since
the last newline (`Tracked`: the number of its characters, and the kind that the first of them
announces). If that is the beginning of a code, its next character is stored at the place that is
its number in the code, inside the pad of the code's kind (`InPlace`), whatever was dropped or torn
before. This is `BarInBounds`. For the buffers, `Holds` follows each cell: a character read goes to the cell of its
own number, or, past the end, to a cell of the other buffer, which is then `Torn`; a newline pads the
rest, and makes what was read the code the buffer was last filled with.

### Upload

`EveryCommandTried` needs only that `countTimeCommand` is zero when a command starts and within its
limit afterwards (`Tried`). `IntactInOrder` needs that no command is taken for data, although
`find("OK")` takes any `OK` for its own. The prompt `>` is not confused: `CIPSEND` alone brings it
and alone waits for it. So past `CIPSEND` (`PromptInv`) the modem is either in data mode with
nothing else under way, and the record is the next it reads, or in command mode, and the text is
refused. What the server holds is then ordered by `record`, which grows.

### Return box

*The session.* `LidSafe` ties the motor to `SysCnt`, and would be lost if a scan could set `SysCnt`
back to 1 in the middle of a session. `LidInv` therefore adds `Running`: while a session runs,
`BottleID` is not zero and `BottleIDCpr` is 1, so that the test of `loop()` that starts a session
fails, whatever is scanned. `SysCnt` then changes only as `Action()` says, and `WeightKnown`
(`BottleCpr` is what was weighed in this session) carries the comparison of case 4 to the cases that
open bin and lid. For `FreshPress`, a switch that reads as pressed while a case waits for it was pressed since the
session came to that case (`KeysKnown`): cases 1 and 5 clear the switches that the next case reads. For `LidRunsItsTime`, `TimeInv` says that the timer and the time elapsed
make up the lid's time while the lid moves; it holds with torn accesses too, because a time that
fits a byte is stored whole. For the beacon, `BeaconInv` follows the bottle's kind from the barcode
through the weighing and the bin to what is announced.

*The switches.* `SwitchesAlwaysEvents` is `KeySpec => SwitchesAreEvents`, with the limits in order
and a cap that leaves the byte room. The invariant is the counter's range `0..Cap`: from it each
scan that counts is a `Press`, a `LongPress` or a stutter, as `Stage` says.

*The scanner.* A character is stored once because the parser and the scanner agree on what was held
down: unless the cable came off, `prevState` is exactly `keys` (`Followed`), so that of two keys in
a report only the one just pressed is new. After the cable came off both layers keep an old report,
but then no key is down, the line counts as torn, and a key that is not Enter comes next; if nothing was
typed and no key was down, the old report is the empty one and nothing is torn.
`HidInv` adds the two properties
themselves, which a key, the end of a line, and each of the other actions preserve (`PressKeeps` and
the lemmas on stores). `InputsApart` says that side by side neither input disturbs the other, so the
three results hold of the return box.

### QR box

*Splitting.* `GetValueCuts` says that `getValue()` returns the characters between the `index`-th
separator and the next, for every alphabet, text, separator and index, unless the text ends in the
separator. It is an induction over the characters scanned: what `Scan` has after `n` of them is said
by the number of separators passed (`Scanned`). The recursive function inside `Scan` first has to be
shown to exist (`ScanExists`), by the same induction. `LinesAlwaysCut` is the instance that the run
enumerates.

*The lock.* The first two properties are invariants once the place of `loop()` is known (what each
value of `pc` says of solenoid and door). `OpensAreGranted` is about lines still on their way:
`GrantInv` says that while a line that reads 1 is among those to come, or in `res` with its action
still to be taken, `allow` holds, and that there is one such place at most. Reading a line moves it
from `wire` to `res`; a new request empties both, so that an overtaken answer is gone before `allow`
is. `ReplyAssumption` says that a line that reads 1 occurs only in replies to 1, and once in each.

### WiFi client

`ClientAlwaysStream` is `Spec => ClientIsStream`. There are two slots at least and three session
numbers: with a single one a late answer would meet its namesake. `SocketInv` bounds the queue of
the chip's events by the place of a client's life: an open connection has one answer outstanding, to
its `recv`; one that was left leaves at most that answer, or the one to its `connect`; a client that
dials sees one such event, and after it its own answer. A late event therefore names a slot or a
session other than the client's, because slots are taken in turn and session numbers grow, and what
it does to a slot that nobody uses, or to a flag that is already low, is harmless. `StreamInv` adds
the bytes: what a peer has sent is what was taken, then the buffer, the rest of an event, the event
still queued, and the chip's queue, joined in this order. `Fetch`, `Read`, `Report` and `OnData`
only move the cuts. An event without data is the last of its connection: the peer has ended and everything was given, or the
connection broke. The loss of the network is handled after every queued event and leaves all slots
blank, which the queue's bounds then hold of trivially.

### Induction

None of tlapm's provers used here (SMT, Zenon, LS4) takes an operator for an induction's predicate,
so the library's induction rules cannot be used. `GetValueProofs` (`Induction`) and `BottleCollectorProofs` use a set of numbers as
the predicate instead: the rule for sets follows from the library's theorem that `<` is well-founded
on the naturals (`NatLessThanWellFounded`, `WFMin`).

### What stays with TLC

Liveness, which is out of this prover's reach: `EveryBottleNoticed`, `ReportsSettle`,
`EveryRecordDelivered`, `SendDataReturns`, `SessionEnds`, `LidStops`, `GrantedOpens`,
`DoorReported`, `BytesArrive`. The three runs that end in a counterexample have nothing to prove.

## 6. Not modelled

Lines of the barcode scanner so long (some three hundred characters without a newline) that they
run past `barcode_rec` into the counters, or wrap the sixteen-bit `bar_cnt`. HID reports that are lost: the bus repeats a
transfer until it is acknowledged, so that a report is late but not lost. `Check()` and all printing; start-up commands of the modem; overflow of sixteen-bit weights;
the HX711 driver, which may block when the cell is not connected; lamps of the QR box; joining
the WiFi network (`WiFi.begin` blocks until it has succeeded or given up, and is then part of a request
that succeeds or fails); everything `PROJECT.json` lists as `not_modelled`.

Of WiFi101's client: writing (a request is sent or not), listening and accepting, UDP, SSL, bus errors on
commands (in `recv()` one would leave `bIsRecvPending` set with nothing asked of the chip, and the
connection silent until it is closed), and a `malloc` in `fillRecvBuffer` that fails.

Nearly all lines of the repository are vendored: register definitions of the ASF library,
drivers of devices that no sketch uses, declarations, comments and examples. The models cover the
parts that the sketches' behaviour hangs on; as a share of all lines that is small, and further modules
about unused drivers would say nothing about these systems.

`itCode` and `mkr_0809` ask their server only inside `while (client.available())`, before any connection exists:
there is no behaviour to model.

## 7. Plan

1. Accepting connections in `WiFiSocket` (`WiFiServer`), for the demonstrations that use it; writing, with the
   chip's buffers full while an event blocks the others.
2. The firmware updater over the flash of WiFi101 (`spi_flash_write` splits at pages), against a flash
   that keeps what it is told.
3. `CollectorUpload`: `BottleCollector` with `AtModem` in place of the atomic report.
4. Proofs: that a second implementation of a promise already stated (`StackLedger` for `CollectorUpload`, `ByteStream` for
   accepted connections) meets it.
