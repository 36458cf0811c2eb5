# Verification of io-tea

io-tea is the firmware library of a small sensor network: boards (nodes)
measure temperature and humidity, pack each measurement into a CoAP message and
send it by an nRF24L01+ radio to a gateway board, which listens on six pipes.
This directory models the library in TLA+, checks the models with TLC and
proves theorems about them with TLAPS. Sources are named relative to `src/`.

1. [Inventory](#1-inventory) – the parts, their state, how they interact
2. [Modules](#2-modules) – what models what, and how it corresponds to the code
3. [Runs](#3-runs) – what each run checks, its bounds, fairness
4. [Proofs](#4-proofs) – the theorems and the arguments behind them
5. [Where the code and its documentation disagree](#5-where-the-code-and-its-documentation-disagree)
6. [What is not modelled, and the plan](#6-what-is-not-modelled-and-the-plan)

## 1. Inventory

| Component | Source | State | Operations |
|---|---|---|---|
| Radio driver, packet path | `nRF24L01P/nRF24L01P.cpp` | the `mode` field, the CE pin; in the chip: CONFIG, STATUS flags, a TX and an RX FIFO | `powerUp/Down`, `setReceiveMode`, `setTransmitMode`, `enable`, `disable`, `write`, `readable`, `read`, `getRSSI`, `flushRX`, the constructor |
| Radio driver, settings | `nRF24L01P/nRF24L01P.cpp` | the chip's registers: CONFIG, RF_CH, RF_SETUP, EN_AA, EN_RXADDR, SETUP_AW, SETUP_RETR, addresses, payload sizes, FEATURE, DYNPD | a setter and a getter for each setting |
| Board set-up | `node.cpp` 18–69 | that of the radio of each board | `setupNodeRadio`, `setupGatewayRadio` |
| CoAP messages | `cantcoap/cantcoap.cpp`, `inet/inet.h` | the message's bytes and length, the number of options, the largest option number added, payload pointer and length | constructors, `reset`, header setters, `setToken`, `addOption`, `setURI`, `addURIQuery`, `setContentFormat`, `mallocPayload`, `setPayload`, `validate`, the getters |
| Sending | `node.cpp` 71–106 | next message ID, number sent | `sendCoapMessage`, `printStatus` |
| DHT11 sensor | `dht11/Dht11.cpp` | last humidity and temperature, a start-up timer | `read`, getters |
| Tick, serial port | `node.cpp` 3–16 | the `tick` flag | `setupTicker`, `setupSerial` |
| Debugging, build | `dbg.h`, `Makefile`, `profile.json` | – | logging macros |

**How they interact.** The application (outside this repository) sets its board
up once and then, when `tick` says so, reads the sensor and calls
`sendCoapMessage`. That function builds a `CoapPDU`, copies its bytes into a
32-byte frame, cut or padded with zeroes, and calls `radio.write` four times
without looking at what any of these calls return. A gateway application polls
`radio.readable` and `radio.read` for each pipe. All of this is one thread. What
runs beside it is the radio chip, which receives, transmits and raises flags
while the driver is between two SPI transactions, the sensor, which changes the level
of its wire whether or not the driver polls it just then, and the ticker's interrupt.
The driver and the chip share the chip's registers and FIFOs and nothing else;
the driver keeps one cached fact about them, `mode`.

**What is hard.**
* *Interleaving.* The chip changes its flags and FIFOs between any two SPI
  transactions of a call. `read` asks for the width of one packet, takes a
  payload and clears a flag in three separate transactions.
* *Crash and restart.* A reset of the microcontroller does not reset the chip: the
  constructor meets registers, FIFOs and a CE pin that the program before it left,
  at any point of any call or set-up, and perhaps those of another program.
* *Waiting.* `write` polls for one of two flags without a timeout.
* *Shared registers.* Different settings share bytes: every setter reads,
  masks, and writes. Pipes 2 to 5 take four of their five address bytes from
  pipe 1. One width register serves all addresses.
* *Loss.* A frame is not acknowledged. The gateway may see none to four copies of a
  message, with other messages in between after a reset of the node.
* *Polling a wire.* `Dht11::read` counts level changes. One that is missed, or
  answered late, shifts every bit behind it; only a checksum of eight bits tells.
* *In-place editing.* An option is inserted into the middle of an encoded
  message, which re-encodes the option behind it, possibly with fewer bytes;
  a new token moves everything behind it; memory may move or run out at any call;
  and four fields cache facts about the bytes.

**What makes each part correct.**
* Packet path: `write` says what happened to *its* payload, the chip never
  sends an older one, `read` returns a packet that arrived on that pipe, each at
  most once and in order, no call leaves anything in the transmitter or the node
  deaf, and every call returns.
* Settings: a getter returns what its setter was last given, whatever other
  setters were called since.
* Board set-up: however set-ups are interrupted, once both boards are set up, a node's
  frames are received on exactly the pipe its address names.
* CoAP: the bytes always mean the message that the calls so far have built,
  any receiver's `validate` accepts them, a failed call changes nothing, and what
  the getters say is what is in the bytes.
* Sending: a measurement that fits the frame is understood at the gateway; what does not fit
  is at worst shortened, never turned into something else; the gateway can tell a copy from
  a new message; a message is lost only with all its copies; the status counts them.
* Sensor: a result of OK means the values the sensor sent, bits stay within their array, an
  undisturbed transfer is never refused, and `read` returns.

## 2. Modules

| Module | Role | Extends / uses |
|---|---|---|
| `RadioLink` | driver and chip, one action per SPI transaction | |
| `RadioLinkProofs` | its theorems, that `RadioLink` implements `PacketRadio` among them | `RadioLink`, TLAPS |
| `PacketRadio` | what an application may expect of its radio; `RadioLink` implements it | |
| `RadioRegisters` | the setters and getters as functions on the registers | |
| `RadioRegistersProofs` | lemmas about these functions | `RadioRegisters`, TLAPS |
| `RadioConfig` | the machine of settings calls on one chip | `RadioRegisters` |
| `RadioConfigProofs` | its theorems | `RadioConfig`, `RadioRegistersProofs` |
| `RadioSetup` | boards running the set-up functions | `RadioRegisters` |
| `RadioSetupProofs` | its theorems | `RadioSetup`, `RadioRegistersProofs` |
| `CoapCodec` | bytes of a message: encode, decode, move | |
| `CoapObject` | the class `CoapPDU`: an object's fields, and each handler as a function from object, arguments and memory to object and result | `CoapCodec` |
| `CoapPdu` | the calls of one object, in any order or its users' | `CoapObject`, `CoapMessage` (INSTANCE) |
| `CoapObjectProofs` | lemmas about codec and handlers, recursion over bytes included | `CoapObject`, TLAPS |
| `CoapPduProofs` | theorems about `CoapPdu` | `CoapPdu`, `CoapObjectProofs` |
| `CoapMessage` | what `CoapPDU` promises, without bytes | |
| `SendCoap` | a measurement on its way: message, frame, four writes, gateway | `CoapObject`, `CoapMessage` and twice `PacketRadio` (INSTANCE) |
| `SendCoapProofs` | its theorems | `SendCoap`, `CoapObjectProofs` |
| `Dht11` | the sensor, its wire and `read()` | |
| `Dht11Proofs` | its theorems | `Dht11`, TLAPS |
| `MC*` | values for the constants | |

Operators named *Faulty* in a comment are small deviations a programmer
could have made. They are not part of any specification; putting one in place of
the definition it deviates from makes the property it is aimed at fail.

### RadioLink

`pc` names the next SPI transaction of the call under way, `idle` when there
is none. A call is a chain of actions: `BeginWrite` (933–948: save CE, drop it, clear
flags, load the payload) → `WriteTransmitMode` (`setTransmitMode`) → `WritePulse` (CE high
for 10 µs and low) → `WritePoll` (961–964) → `WriteStatus` (MAX_RT flushes the payload
and makes the result −1) → `WriteRestore`. `read` is `BeginRead`, `ReadWidth`,
`ReadFlush` or `ReadPayload`, `ReadClear`. `setReceiveMode` and `setTransmitMode` may have to
power the chip up first, which takes 4.5 ms during which it can receive.
Between any two of these the chip may take one of its own steps: `ChipReceives`
(if it is listening and its FIFO has room), `ChipStarts`, `ChipSent`, `ChipGivesUp`.
`Restart` may happen at any moment; it loses the driver's variables and goes
through the constructor's four phases (`Boot…`). The chip is external: it is modelled from
how the driver uses it. A packet is an identity, a pipe and a width.
The history variables `writes`, `acked`, `lastRead`, `wantCe`, `wantRx` say what was
asked and delivered.

Abstracted: payload contents, the SPI bytes themselves, delays other than the power-up
time, the pins nCS and IRQ (the library does not use the interrupt).

### PacketRadio

Packets that wait, are read, or are lost together; payloads that are written, transmitted
once or given up, and a `Return` that comes only after one of the two. There is no mode, flag,
register or FIFO. `RadioLink` defines the mapping beside its properties: the packets waiting are those in the
receive FIFO, and the fate of the payload is read off `pc`, the transmit FIFO and `acked`.
`IsPacketRadio` says that each behaviour of `RadioLink` is one of `PacketRadio`. A reset
may leave a payload in the transmitter that goes out once more before the constructor
flushes it: `Reset` may end in `cut`, from which a `Transmit` or a `Forget` follows.

### RadioRegisters and RadioConfig

A register that holds several fields is the set of its bits that are one, an address
five bytes, a setter a function from registers to registers that masks what the code
masks and sets what the code sets. `Decode` is the getters' test of one code after
the other. `Constructed` is the constructor (174–228), which writes some registers
and leaves the others as they are. `RadioConfig` has one action for each
setter and getter pair, the three mode changes and the constructor after a
reset; `asked` remembers the last argument of each setter.

### RadioSetup

`setupNodeRadio` and `setupGatewayRadio` as sequences of setters (`CommonStep`, then
`NodeStep` or `GatewayStep`; `Set(b, n, r)` is the setter behind the first n) on all boards
at once, each setter one action, a reset possible
between any two of them and together with it a change of program. `Accepting(b, a)` says
on which pipes board b takes a frame sent by board a: same frequency, rate, CRC and
width, and an enabled pipe of that address and frame size.

### CoapCodec, CoapObject, CoapPdu and CoapMessage

A message is a sequence of bytes, 1-based, as long as `_pduLength`. `CoapCodec`
translates the functions that look only at bytes, among them
`getOptionDelta`, `getOptionValueLength`, `computeExtraBytes`, `setOptionDelta`,
`insertOption`'s encoding, `shiftPDUUp`, `shiftPDUDown`; `OptionsFrom` is the walk that `getOptions`,
`findInsertionPosition` and `validate` make. Bytes read beside the message are
`Garbage`. `htons` swaps or does not, by the constant `Swaps`: `inet.h` 43
compares two macros that only some builds define, so both occur.

`CoapObject` has the object's fields as a record. A handler is a function from
the object and the memory the call meets (`Memory`: how far a realloc succeeds and
whether it moves the message; or the caller's buffer) to the object after it and the
result. `_payloadPointer` is a position, `NULL`, or `Dangling` after a realloc
that moved the message, which is what the code's pointer then is. `setURI` is
the loop over its segments, one `AddOption` each. `Receive` is a caller that puts a
received message in its buffer, calls `setPDULength` and `validate`.

`CoapPdu` keeps one object in `coap` and calls these functions. With `AnyOrder = FALSE`
a caller builds a message in the order in which `sendCoapMessage` does: options
and token before the payload, the payload of an owned message once, nothing added after an
option did not fit, and an object is reset before it is used for another
message. With `AnyOrder = TRUE` calls come in any order; section 5 shows what then
happens.

`CoapMessage` is the specification: a header, a token, a list of options
sorted by number (stable), a payload, and calls that each change one of them or
fail and change nothing; only `setURI` may fail and leave the first segments of its path, and may
call a path of one character done when it is not there. A call is there done or not: which number
tells so is not part of it, nor which version `reset` leaves. `CoapPdu` implements it under the mapping
`message <- Meaning(coap.pdu), call <- Report`, where `Meaning` decodes the bytes and `Report` reads
a result as the code returns it: 1 for `setVersion` and `validate`, 0 for the others. That is the property
`MeansWhatWasAsked`, which the runs check and `CoapPduProofs` proves. The comments
say otherwise of two results and of `reset` (section 5).

### SendCoap

`pc` follows `sendCoapMessage`: `BeginMessage` (75–82), `SetURI` (86), `SetPayload` (88–92, with the
copy into the frame), then four times `Write` and `NextTry` (96–99), and `EndMessage` (100).
The object is a `CoapObject` to which the handlers are applied; each realloc
succeeds up to a limit chosen anew. Two instances of `PacketRadio` share the module's variables: the node's
transmits and the gateway's receives. `Arrive` and `LoseInAir` join them: a
`Transmit` of the first is a `Receive` of the second, or is lost, or is a `GiveUp`. `LoseWaiting` is
the gateway's flush. `GatewayReads` is an application that validates each frame and takes ID,
path and payload from it, as `CoapObject`'s getters give them. `Reset` starts the static counters again and leaves the
radio what it had; `Setup` is `setupNodeRadio`, after which that is forgotten. The
history variables say what each message was made of (`messages`), which message each
packet is a copy of (`source`) and how many copies of the last were lost.

### Dht11

`read()` is a chain of waits (`ackLow`, `ackHigh`, then `bitLow` and `bitHigh` for each bit) for the
wire to leave a level, each poll an action: `PollAgain` (counting down), `GiveUp` at 0, or the
action that ends the wait (`AckLowEnds`, `AckHighEnds`, `BitLowEnds`, `BitHighEnds`, and `Finish`, which also
replaces both values and compares the sum, 59–76). The sensor changes the level by itself (`SensorMoves`) and may
fall silent anywhere. `SensorOutruns` is a change the driver did not see in time, because an interrupt
kept it from polling; `Measure` may take a pulse for the other kind. Both count as
slips, bounded by `MaxSlips`. An answer that has not begun at the first poll makes the driver
take each level for the next (`late`). A byte is the set of its bits that are one.
`Construct` is power-on or a reset, in the middle of a read too; only it starts the
timer that `Settle` waits for.

## 3. Runs

Deadlock is checked in every run but `send_link`: neither the radio, nor two boards, nor a message, nor the
sensor's driver ever reach a state in which nothing can happen. `send_link` stops when its
two messages are sent and read.

| Run | cfg | Shows |
|---|---|---|
| `link_safety` | `RadioLink_safety` | Every interleaving of calls, chip events and one reset. `read` and `write` report the truth (`ReadIsHonest`, `WriteReportsTruth`), packets are read in order (`ReadsInOrder`), nothing stays in the transmitter after a call (`TxQuiet`) and nothing left over is sent (`OnlyCurrentPayloadIsSent`), `mode` agrees with the chip (`ModeMatchesChip`), a listening node stays listening (`ListeningSurvivesCalls`, `CeAsRequested`), `getRSSI` counts its samples (`RssiCountsSamples`). All of it implements `PacketRadio` (`IsPacketRadio`) |
| `link_live` | `RadioLink_live` | `CallsReturn`: every call returns, the untimed loop of `write` (961–962) included. `FlaggedPacketIsTaken`: an application that polls takes the oldest packet if RX_DR announces it |
| `config_calls` | `RadioConfig_calls` | Settings that share registers: each getter returns what was asked for last (`SettingsAsAsked`); addresses with one width register for all and pipe 1's bytes in pipe 2's address (`AddressesAsAsked`); each pipe enabled, disabled (alone or with all), sized and acknowledged (`PipesAsAsked`) |
| `setup_link` | `RadioSetup_link` | `FramesReachTheirPipe` and `ReceivesOnlyWhenReady`: what the node's and the gateway's set-up are for, through resets and changes of program |
| `coap_options` | `CoapPdu_options` | Memory of the object's own: options in every order, tokens, payloads, resets, values of all lengths, reallocations that fail or move the message: the bytes mean what the calls built (`MeansWhatWasAsked`), `validate` accepts them (`ValidAsSent`), the count of options stays within them (`OptionsWithin`), `getURI` returns the path set by `setURI`, also when memory ends within it (`PathReadBack`) |
| `coap_buffer` | `CoapPdu_buffer` | A caller's buffer: header fields that share a byte, a header that stays while the rest moves, calls that do not fit, and received messages, well formed or not: also `PayloadFound` and `WithinBuffer` |
| `send_link` | `SendCoap_link` | Two messages with their eight frames, lost at any place, between nodes that reset and a gateway: `UnderstoodIfItFits`, `NothingMadeUp` whatever was cut off or found no memory, `IDTellsCopies` also as the ID wraps, `ThreeLossesBorne`, `StatusCounts`, and `SendReturns` |
| `dht_read` | `Dht11_read` | Reads and resets one after another: `OkMeansTrue` with any one disturbance, `ErrorIsExplained`, `WithinArray`, and `ReadReturns` although the sensor may fall silent at any point |
| `link_waiting`, `coap_pointer`, `coap_count`, `coap_stale` | of the same names | The disagreements of section 5, each with only the arguments that lead to it |

### Bounds

All are CONSTANTS of a module or definitions of an `MC` module.

*Radio link.*
- `FifoSize` = 2 for the 32 bytes of a FIFO slot, with read and write counts below, at and
  above it: what matters is that a count is clipped, and that a width may exceed the
  slot (width 3 is the corrupt packet of line 1010). `FifoDepth` = 2 for 3: enough
  for a full FIFO, for one packet behind another and for a packet that meets a full FIFO.
- Pipes 0 and 1: the packet at the head of the FIFO may be for another pipe than the one asked.
- `RssiSamples` = `RssiModulus` = 2 for the 256 iterations and the 256 values of the sum: the
  loop has a first and a last iteration, and the sum can wrap.
- Three arrivals, two writes and one restart in `link_safety`: three packets fill the FIFO and leave
  one to arrive after a read, two writes let one find what another left, and one
  restart at any point of any call is followed by every call. `link_live` has two arrivals
  and one write, and write counts of 0 and less too, which `link_safety` leaves out because
  `CeAsRequested` is false of them (section 5); the theorems of the other properties cover them.

*Settings.* A behaviour uses one group of setters (`MCNext`), mode changes and resets: setters of
different groups write different registers. Two addresses that differ in every byte and two widths
suffice because a setter treats bytes alike. The state space is finite without bounds:
registers are overwritten. `RadioConfigProofs` covers all setters together.

*CoAP.* Three options suffice because an insertion concerns the
option before it, whose number it is relative to, and the one behind it, whose delta it
rewrites. The numbers 1, 14 and 270 give deltas in each of the three encodings, and a
rewritten delta may fall from a longer encoding to a shorter one. Values have 0, 1, 12
and 13 bytes. `HeapLimits` is how large a message may grow before `realloc`
fails, chosen at each call; the limit of 9 and the buffer of 14 bytes are too
small for some calls of each kind. A behaviour is about one `subject`, which bounds the calls it makes.

*Sending.* `MaxMessages` = 2: the gateway has to tell copies of one message from the next. `Earlier` = 8
or 65535 messages sent before: the counter in the payload gains a digit with the next message
but one, and the 16-bit ID wraps. Five measurements: one that fits; one that fits with one digit of the
counter and is cut with two; three that are cut behind the path, at the payload's marker, and within a
segment. `HeapLimits` = 7 or 64 bytes: too small for the path or the payload, or
enough. One reset at any point, and `InboxSize` = 1 for the three packets of the FIFO: a gateway that
is slow loses the others. `Usual` leaves out combinations: a node keeps its URI, memory is short in the first
message only, and IDs wrap under short messages.

*Sensor.* `ByteBits` = 2 for 8: a byte has a first and a last bit, five bytes have ten; all values that a
sensor can send in bytes of two bits. `LoopLimit` = 1 for 10000: a wait that is continued and one that is
exhausted. `SettleTime` = 2, `MaxSlips` = 1: the checksum is meant to find one error; two
may cancel each other. The theorems hold for all values of these.

### Fairness

`LiveSpec` asks weak fairness of the driver's next step, because
the microcontroller keeps executing, and of the chip's report, because a
transmission ends, after the programmed number of retransmissions at most, with
TX_DS or MAX_RT. Nothing is assumed of packets arriving or of applications calling.
`FlaggedPacketIsTaken` has an assumption about the application as its premise (`Polls`): every
pipe is read again and again.

`SendCoap` asks weak fairness of the node's next step and of its radio, which ends every
transmission one way or another: `CallsReturn` of `RadioLink` is why each `write` returns. Nothing is
asked of the gateway. `Dht11` asks weak fairness of `read`'s next poll and of the clock,
and nothing of the sensor.

## 4. Proofs

Checked by TLAPS for all values of the constants that satisfy the modules' named assumptions.

### RadioLinkProofs

`IInv == TypeOK /\ TxInv /\ RxInv` is inductive. None of the properties is by
itself: that `write` reports the truth depends on what the chip is doing at each of the driver's
program points, so `TxInv` says for each `pc` whether the transmit FIFO is empty, whether
the chip may be transmitting and what TX_DS and MAX_RT mean, and `RxInv` what the
receive FIFO, CE and the mode are at each `pc`. `TypeOK` is needed with them
since a packet read is the head of a FIFO that must not be empty. Every action of
`Next` has its own step of the proof, and below it one per conjunct.

- `TypeCorrect`, `ModeCorrect`, `TransmitterQuiet`, `WriteTruthful`, `NoStaleTransmission`,
  `ReadHonest`, `ReadOrdered` follow from `IInv`.
- `CeRestored` and `ListeningRestored` use `CeInv` in addition, with the assumption that
  every count written is positive; without it they are false (section 5).
- `RssiCounts` uses `RssiInv`, with `RssiSamples <= RssiModulus`, as in the code, 256 and 256:
  the eight-bit sum wraps in one case only, when every sample was a hit.

`Implements`: `Spec => IsPacketRadio`, by step simulation. With `IInv` before and after
a step, each action of `RadioLink` is an action of `PacketRadio` under the mapping or leaves
its variables as they are. The invariant is needed where the abstract fate is read off the chip:
that the FIFO holds only the payload of the write under way, that a transmission that
ended raised exactly one flag, and that a reset leaves at most that one payload behind.
`WaitingGrown` and `WaitingTaken` say that the sequence of identities follows the FIFO through
an arrival and a read.

### RadioConfigProofs

`IInv == TypeOK /\ FieldsHold /\ PipesHold /\ AddressesHold`: each bit field of each
register holds the encoding of the last value asked for, or its reset value. There is one preservation
lemma for each action. `SettingsKept`, `PipesStayApart` and `AddressesKept` follow.
The lemmas about bit fields, addresses and the constructor are in `RadioRegistersProofs`, and used by the next module too.

### RadioSetupProofs

For any number of boards and any addresses. `IInv` says of each board what the setters
executed since the constructor have settled, as a function of their number: `Common` for the
settings of both programs, `AsNode` and `AsGateway` for the rest, and that CE is high exactly
when the set-up is complete. Nothing is said about registers not yet written, which is why a
reset, which puts the number back to −1, keeps it. One lemma for each setter says what
it writes and leaves, `CommonStepKept`, `NodeStepKept` and `GatewayStepKept` put
them together, and `OneBoard` carries a step of one board to the invariant of all. `NeverHalfSetUp` and
`SetUpBoardsHear` (each frame on exactly the pipe its address names) follow from it.

### Dht11Proofs

For every width of a byte, loop limit, clock and number of slips. `IInv` joins `TypeOK` with `Counting`,
which ties the loop's counter to the byte and bit index (so that the fortieth
bit is the last place of the fifth byte), and with `InStep`, which says for each wait where the sensor is as long as at most
one thing has gone wrong. Changes of level are numbered, the sensor's (`SensorAt`) and those that
the driver has counted (`DriverAt`), and there are three cases:

- `InTime`: the sensor is at the driver's bit or one change further, and the bits received are the first of a line that
  differs from what was sent in one byte at most, and only if a pulse was measured wrongly (`NearlySent`).
- `SensorAhead`: a level was missed, and the driver is two changes behind for good. It
  cannot finish (`AheadCannotFinish`): the sensor has no change left that would end the last bit.
- `SensorBehind`: the answer was late, and the driver reads `Delayed(sent)`, each bit being the one before it.

`StaysWithinArray` needs only `Counting`: it holds whatever is missed. `ErrorsExplained` is the first case with no slip.
`OkIsTrue` (`OkMeansTrue`) asks in addition what the sum tells, so the module has the value of a set of bits for a byte of any
width: `Additive` (it does not matter in which order the bits are added), `Halving` (what a shift does to it), `ValueBelow` and
`ValueTells` (different bits, different values). Induction is over a set of naturals, as in the modules below. Then
`WrongByteTold`: a sum that still holds with one byte wrong leaves both values right; and `DelayTold`: the sum of a delayed transmission
does not hold, since the first byte gains its highest bit. That needs `NoCarry`, the assumption of `OkIsTrue`: what
the sensor sends for humidity and temperature does not add up to more than a byte (a DHT11 measures up to 90 % and 50 °C). With
a carry a delayed transmission can pass; `OkIsTrueInTime` says that all else is told without the assumption. Two
slips are outside `OkMeansTrue`: they may cancel each other.

### CoapObjectProofs and CoapPduProofs

The walk over the options of a message, `validate` and the loop of `setURI` are recursive functions.
tlapm gives such a function its defining equation only if it is shown to be well founded, so `CoapObjectProofs` begins with that:
`Smallest` (a non-empty set of naturals has a least element, from the library's well-foundedness of
strict inclusion of finite sets), then `Induction` over a set of naturals and `Recursion` and
`Iteration`, which turn a recursive definition into its equation for every argument. With
these come lemmas about the codec (a delta or length survives its encoding at every boundary between
one, two and three bytes; header fields that share a byte do not disturb each other; a walk over a
message stays within it and ends) and one lemma for each handler, which says what object and result it returns.

Then where things are in a message. `Laid(b, s, n)` says that the bytes `b` are a header, a token of at most eight
bytes, the options `s`, each encoded as `encodeOption` writes it relative to the one before (`Written`), and a
payload of `n` bytes behind its marker. `LaidIs` and `WrittenIs` show that the code's walk then finds exactly `s`, and that
nothing is left behind it; `LaidValidates` that `validate` accepts it; the converse, that what `validate` accepts is laid out
(`SoundIsLaid`), is where `NoWrap` is needed. The hard part is `insertOption`: its bytes are those of a message that
has the new option in its place, although the option behind is encoded again with a smaller delta, in a header
that may get shorter (`ReEncoded`, `EntryIs`, `Agree`: what is written again, what moves and what stays). `Shaped` joins the bytes
with the object's fields, and one lemma per handler says what `Shaped` objects become: `OptionAddedTo`, `URIAdded`,
`FormatAdded`, `TokenSetShaped`, `PayloadSetShaped`, each with memory that may end at any of its steps.

`CoapPduProofs` has two groups of theorems, both about messages below 256 bytes (`ShortMessages`: memory or buffer ends
there), because `setToken` keeps a message's length in one byte; what it does to a longer one is in section 5.
For every sequence of calls, in any order, with any options, tokens,
payloads and received messages, the invariant is `Sound`: the fields have their types (`Fields`), the payload pointer
is a position in the bytes or says it is not one (`Pointers`), a message does not grow beyond what its
length field counts, and as long as the object may be used the bytes have room (`Usable`, `Room`). The
pieces that a handler moves must be shown to be sequences of bytes of the right length, `shiftPDUUp` before and
`shiftPDUDown` after a re-encoding. `TypeCorrect` and `StaysWithinBuffer` follow: no call writes
beyond the caller's buffer.

`CountsWhatIsThere` (`OptionsWithin`), `PayloadIsFound` (`PayloadFound`) and `SentIsValid` (`ValidAsSent`) are about what the
bytes mean, for any options, tokens, payloads and received bytes. Their invariant is `Orderly`: `Sound`, and the object is
`Shaped`; as long as options may be added they are in order and `_maxAddedOptionNumber` is the last one's number (`Open`),
which is what makes `findInsertionPosition` find the place; and a frame only arrives at a new or a
reset object. They assume `CallsInOrder`, which the runs of section 3 that check these properties satisfy:

- messages stay below 256 bytes (`ShortMessages`);
- options and token come before the payload (`~AnyOrder`), as in `sendCoapMessage`: an option added behind the payload
  breaks the layout (section 6, and the hazard at `cantcoap.cpp:1427`);
- tokens have at most eight bytes, as the comment at `cantcoap.cpp:707` asks of the caller;
- no received frame has an option whose delta or length, of two bytes, wraps when 269 is added (`NoWrap`). Such an
  option's size is computed from the wrapped value, so that `validate` takes one that is cut short, and a payload set behind
  it is then read as part of it: the properties do not hold of such frames.

`MeansWhatWasBuilt` is the refinement, `Spec => MeansWhatWasAsked`, under the same hypotheses: a step simulation from `Orderly`, one lemma per call
(`SetTokenMeans`, `SetURIMeans`, ...), joined in `StepMeans`. Each reads the parts of the message back from the bytes the layout
lemmas describe. A header setter's bits are read back and the other fields of the byte as they were (`FirstByteReads`); a token or
payload is the slice that was written, with the rest of the message, moved or not, read as before (`TokenMeans`,
`PayloadMeans`); options that `findInsertionPosition` puts behind those of no greater number are what `WithOptions`
puts into the sequence (`PutMeans`). The abstract path is defined without a loop, its *k*-th segment
by counting the cuts before it; `SegmentsAre` shows that `setURI`'s loop cuts exactly there, by induction over the
cuts. Besides `CallsInOrder` it assumes `OneByteFormats`: the formats that `cantcoap.h`'s enum names are below 256,
and a larger one would be written in an order that depends on `htons`.

### SendCoapProofs

For any measurements, memory, inbox and number of resets. `StatusTrue` follows from `Counting`,
which relates tries, frames written and messages finished. `LossesBorne` needs an account of every copy:
`InOrder` (a packet's message is never older than one that arrived before it) and `Accounting`: unless a copy of the
last message was read, no more of its copies are transmitted or given up than are lost or wait at the gateway. With
three lost, one of the four waits or was read. These two use nothing of what the bytes are.

`LettersCorrect` is about the bytes. `LettersInv` follows them from the constructor through `setURI`, `setPayload` and
the copy into the frame to the radios and what the gateway reads: while a message is built its object is in
`Fields` with `Room` and carries this message's ID (`Building`, with the handlers' lemmas from `CoapObjectProofs`: none of them
touches bytes 3 and 4); every frame carries the ID of the message it is a copy of, since the frame keeps the first
four bytes however much is cut off (`Numbered`); and what the gateway keeps of a frame is the ID it has read
(`Onward`). `TypeCorrect` joins it with types for the history (`Losses`). `CopiesTold` (`IDTellsCopies`): two
messages read have the same ID only if they are copies of one. It assumes `MaxMessages <= 65536`: the ID is
a 16-bit counter, and with one more message the first ID returns; `Distinct` is the arithmetic of that.

### Only model-checked

Liveness (`CallsReturn`, `FlaggedPacketIsTaken`, `SendReturns`, `ReadReturns`) is outside what TLAPS proves.
`PathReadBack` of `CoapPdu` is about `getURI`, whose loop joins the segments again, a recursion over them that has no closed form to
compare it with, and about all the options called path, not only those of the last call. `UnderstoodIfItFits` and `NothingMadeUp` of
`SendCoap` are about a message cut to a frame, which is then no longer laid out as a whole: what the gateway's walk makes of the
part that is left is not proved.

## 5. Where the code and its documentation disagree

Each row is a run that TLC ends with a shortest trace.

| Run | Trace |
|---|---|
| `link_waiting` | Two packets arrive and one is read: `read` clears RX_DR (1047), and `readable` (919) then denies the second, which is in the FIFO |
| `coap_pointer` | `setToken` behind a payload moves the payload and not `_payloadPointer` (790) |
| `coap_count` | An insertion in the middle is not counted (1121), so `getURI` misses the last segment |
| `coap_stale` | `validate` leaves `_maxAddedOptionNumber` at 0 (317): an option added to a received message goes to the end, with its whole number as delta to the last one. `validate` "must be called to initiate the object" (161–162), and "options can be added in any order" (982) |

Two of the runs reach a second defect, which TLC finds when the first is out of the way. With no received messages in
`coap_stale`: an option that does not fit stays the greatest added (1015), and the retry appends it with a delta of 0, as
another option, and returns 0 (982, 989). With no tokens in `coap_pointer`: `validate` of a message that ends with its
token (315–319) leaves `_payloadPointer` in the message that was in the buffer before (442), and the next `setPayload` writes no
marker (1202).

Results and values that a comment describes otherwise. Each shows in one call, so no run is kept; the models do
what the code does, and no property promises what the comment says:
- `setVersion` returns 1 when it has set the version and 0 when not (670, 675). Its comment says "0 on success, 1 on
  failure" (666).
- `setURI` returns 0 when all of its path has been added (549) and 1 when not. Its comment says "1 on success, 0 on
  failure" (472). For a path of one character it returns 0 whether or not that was added (486–487).
- `reset` clears the version (233). Its comment says that the object is then "as if it were newly constructed"
  (212–213), and a constructor sets version 1 (97, 139).
- `setToken` keeps the length of the message in eight bits (759). From 256 bytes on it shifts what is behind the
  token by a wrong distance, and not "up to end of new PDU" (786): with an option of 251 bytes and a new token
  of one, the option is lost.
- `enableAutoRetransmit` documents microseconds, 250 to 4000 (`nRF24L01P.h` 318), and shifts its argument into the
  four bits of a code (`nRF24L01P.cpp` 603): 250 gives 2750 microseconds, 4000 gives 250.

Other call orders outside what `src` does end badly too, and explain the assumptions of the models; no
run is kept for them either.
- `powerUp` while PRIM_RX is set and CE is high is documented to enter standby (`nRF24L01P.h` 245) and
  records it in `mode` (242), but the chip receives. The set-up functions call it with CE low.
- `node.cpp` 84 reckons about 5 bytes for the protocol and about 25 for URI and data. The protocol
  takes header, marker, comma and counter, 7 to 9 bytes, and one more for a segment of 13 characters or without
  a slash: with 25, the counter loses digits from 10 on.
- `write` with a count of 0 returns (934) after lowering CE and does not restore it.
- `setToken` takes a token of nine bytes (794).

`sendCoapMessage`, the one user of the class in `src`, does none of this: it builds a new object for each
message, sets the header, the URI and then the payload, and sets no token. It looks at no result of `setVersion`
or `setURI`. `PathReadBack` and `MeansWhatWasAsked` take the results as the code returns them, 0 for
a `setURI` that is done. The discipline of
`AnyOrder = FALSE` is wider than that (resets, tokens, any order of options, received messages)
and within it the CoAP properties hold.

## 6. What is not modelled, and the plan

Not modelled:

- The applications' main loops, which are not in this repository, and with them what becomes of a `tick` that
  comes while the one before is being served. `setupTicker` and `setupSerial` keep no other state.
- `httpStatusToCode`, `printHuman` and the other printing functions: tables and output.
- The random waits between the four writes: nothing in the models depends on how long a step takes.
- The conversion to Fahrenheit of `Dht11`.
- `getOptions` and `getURI` only in what they return, not in the memory they allocate. `setURI`'s
  temporary buffer (495–498, 527–530) can fail to be allocated too; in the models `setURI` fails only where the message's own
  memory ends, so that with a caller's buffer it fails only where that is full.
- `RadioSetup` keeps CE over a reset of the microcontroller, where `RadioLink` lets it float to either level. The constructor
  lowers CE first, and `RadioSetup`'s properties speak of a board from there on.
- mbed and libc, but for what the driver and `realloc` show of them; `dbg.h`, the build files. The checksums
  that `inet.h` declares are defined and called nowhere.

Plan, in order:

1. `PathReadBack` from `MeansWhatWasBuilt`'s lemmas, then `UnderstoodIfItFits` and `NothingMadeUp` of a frame's cut message.
2. `httpStatusToCode` as a function, checked to be defined for the codes that `getCode` can return.
