# OpenDmxReciverToArtnet in TLA+

The program reads a DMX512 universe from a USB-to-RS485 adapter, merges it with
Art-Net universes (HTP, highest takes precedence) and sends the result as Art-Net.
This directory holds the TLA+ modules of its core, the TLC runs that check them on
small instances, and proofs of the main results for every instance.

Line numbers are those of `src/`. Every definition that models code is listed with
its lines in `PROJECT.json`, under `map`.

## 1. The system

```
            adapter
               |  ReadChunk: bytes and one marker
   [ SerialPort: tty -> PARMRK decoder -> marker ]      dmx/serial_*.go, parmrk.go
               |
   [ Receiver: break framing, or length framing ]       dmx/receiver.go
               |  Frames (4, drops the newest)
   forwarder goroutine ---- Update("local") --+
                                              v
   network -> [ Node.Run ] -> ReceivedDmx (8) -> forwarder -> Update("artnet:n")
                  ^                           v
                  |                       [ Merger ]    merge/merge.go
                  |                       Output (4, drops the oldest) | Events (8, drops the newest)
                  |                           v                        v
              broadcast <- [ Node.SendDmxUniverse ] <- main loop    event logger
                                                        artnet/node.go, main.go
```

Everything is one process. The goroutines are `Node.Run`, `Merger.Run` (the expiry
ticker), `Receiver.Run`, two forwarders, the event logger and the main loop. They share
the merger's state under a mutex, `Node.outputUniverses` without one, and otherwise
communicate through buffered channels; every send but one (the second send of
`Update`, merge.go:94) has an empty `default` and drops its value when the channel is
full. Nothing is persisted: there is no recovery from a crash to model.

### Inventory

| Component | State | Operations | What is hard | What makes it correct |
|---|---|---|---|---|
| HTP merge (merge.go:159) | none | `computeHTP` | order of a map, arrays longer than the frame | the result is the highest level per channel, whatever the order |
| Merger (merge.go) | `sources`, mutex, `Output`, `Events` | `AddMapping`, `Update`, `Run`/`expireSources` | forwarders, ticker and consumers interleave; three steps to replace the oldest frame; lost values | no send blocks under the mutex; frames appended are merges of that moment; no fresh source expires; silent ones do; the newest merge arrives |
| Break receiver (receiver.go:82-257) | `state`, `frame`, `breakValidator` | bytes, breaks, errors | missed, spurious and delayed breaks, learning the packet length, stray bytes | published frames are packets; errors lose one packet; the receiver stays in step |
| Fallback receiver (receiver.go:22-45, 259-386) | `state`, `frame`, `syncBuf` | reads, gaps, errors | finding an alignment in ambiguous data, errors while hunting, pauses within a packet | a receiver in step stays in step; published frames are packets; sync is found again |
| Serial port (serial_unix.go, parmrk.go) | decoder state, carry, `out`, pending marks | `ReadChunk` | an escape cut at any byte, a small caller's buffer, a break taken from a short read | bytes and events are returned once, in order, before the next read |
| Windows port (serial_windows.go) | the driver's bytes and noted events | `ReadChunk` | events are told only when asked for: late, merged, or not at all | a packet whose events are asked for in time is published as it was; what went wrong before does not outlast it |
| Art-Net node (node.go) | `seq`, `outputUniverses`, `ReceivedDmx` | `Run`, `AddOutputUniverse`, `SendDmxUniverse` | packets received while it is set up, own broadcasts come back, the sequence wraps | never merges with itself; packets are told apart |
| Codec (artnet.go) | none | encode, decode | 16-bit universes on a 15-bit wire, declared lengths | round trip; reads and writes in bounds |
| Wiring, main loop (main.go) | mappings, `allowedSources`, the no-data timer, the context | set up, forward, warn, stop | duplicate mappings, a timer that any output restarts, a port closed under its reader | silence is reported; a reported error is one; the program ends |
| Configuration (config.go, main.go:19-94) | `settings.properties`, flags | load, apply, generate, override | two copies of the defaults, malformed values, three layers | the file means what was run with |
| Console (display/) | rate, the last rate printed, what the terminal shows | `Render`, `RenderStatus`, `ShowWaiting`, `ShowNotReceiving` | a line printed only on a change, a waiting screen drawn after the goroutines start | what is shown ends up true |
| Discovery (portname_*.go) | none | listing | | |

The hazards this code is exposed to, each at its line and with the property that
covers it, are in `PROJECT.json` under `hazards`.

## 2. Modules

| Module | Models | Uses |
|---|---|---|
| `HTP` | frames, the definition of a merge, the closed form of `computeHTP` | |
| `HTPLoop`, `MCHTPLoop` | `computeHTP` source by source, in every order | `HTP` |
| `GoChannel` | the `select` with an empty default | |
| `MergeService` | what the merger promises: a lossy bounded stream of merges | `HTP` |
| `Merger`, `MCMerger` | `Update`, `expireSources`, `Run`, the callers and consumers | `HTP`, `GoChannel`, refines `MergeService` |
| `DmxLine` | packets and their slots on the line, with the stray byte of a break | |
| `BreakReceiver` | `runWithBreakDetect`, `emit`, `breakValidator` | `DmxLine`, `GoChannel` |
| `Reception`, `MCReception` | `BreakReceiver` on a line | `BreakReceiver` |
| `FallbackReceiver`, `MCFallback` | `runFallback`, `findAlignment` on a line | `DmxLine` |
| `Parmrk` | the PARMRK decoder | |
| `SerialPort`, `MCSerialPort` | `ReadChunk` of darwin and linux in front of a tty | `Parmrk` |
| `ArtNetCodec` | universes and lengths of packets | |
| `Bridge`, `MCBridge` | `Node` and the wiring of main.go | `ArtNetCodec`, `GoChannel` |
| `WindowsReception`, `MCWindows` | `ReadChunk` of windows between its driver and `BreakReceiver` | `BreakReceiver` |
| `Settings` | defaults, properties file, flags, template, the port's name | |
| `MainLoop`, `MCMainLoop` | main from start to exit, and the console | `Settings` |
| `HTPLoopProofs`, `MergerProofs`, `BridgeProofs`, `ReceptionProofs`, `FallbackProofs`, `SerialPortProofs`, `WindowsProofs`, `MainLoopProofs` | theorems | the module they are named for; `MergerProofs` also the lemmas of `HTPLoopProofs` |

Operators described as mutants are plausible mistakes in the definition below them;
no specification uses them. `PROJECT.json` pairs each with a property that then fails.

### How the models correspond to the code

**Merger.** One action is what a goroutine does between two operations others can
observe. `Update` is a call with its argument (`CallUpdate`), the mutex taken together
with everything up to the first send (`IgnoreUnknown` or `Update`: the frame is stored,
the event announced, the merge computed; only channels can change meanwhile, and the
event channel is used once), then `SendDirect` or `SendFull`, `Drain`, `Resend`. The
consumers receive between any two of these. `expireSources` is `Tick` (which sources
are silent), one `ExpireOne` per source, one `PublishAffected` per universe and
`TickDone`. `lastSeen` is kept as an age that stops one unit past the timeout, which is
all that the code compares. `sent` and `shown` are what the main loop and the logger
received last.

**MergeService** has no goroutines: sources contribute or fall silent, the merge of a
universe may be appended to the stream, the oldest frame is sent or lost. `Merger`
implements it with `contributed` = the frame of each source whose `lastSeen` is set.

**Receivers.** Frames are the sequence of stored channels (`Channels[:Length]`). The
variable `state` and the validator's fields keep their names. `Reception` gives
`BreakReceiver` one slot, error or break at a time, because `ReadChunk` hands over bytes
up to a marker and `runWithBreakDetect` handles each byte on its own; how reads cut the
line is `SerialPort`'s matter. `FallbackReceiver` has the reads, because there the grain
matters: its hunt looks at a whole buffer. Slots arrive one by one in a read (`SlotArrives`) that ends
at any of them, full or not (`ReadEnds`), with an error (`BadSlot`), or empty after a pause between two
packets (`Pause`) or within one (`Stall`); then the bytes are consumed one by one (`Consume`).
A pause within the gap threshold does nothing, and is left out. Each slot is tagged with the packet and the
place that it has there, as history: the receiver looks at `Value` only, and `InStep` compares what
it takes a slot for with what the slot is. `source` is what the source on the line sends, one of the
sets in `Sources`. A line carries packets with any start code
and length; where breaks are inferred the stray byte is one more slot (`Slots`).

**SerialPort.** Each round of `ReadChunk`'s loop is an action: serve decoded bytes,
serve a mark, read. The round that decodes is one action per byte of the decoder's
loop (`Decode`), with nothing served before the loop is through (`Decoding`). The tty holds the
escape sequences the driver writes, each tagged with the item that it completes. Two history
variables make order and loss visible: `undecoded` has the tags of the bytes in `carry`, and `due`
the items decoded and not yet returned. `platform` is drawn from `Platforms` once:
what `breakFromShortRead` says, and which events the driver puts in the data.

**WindowsReception.** `Slot`, `BadSlot` and `Break` are the line, which never waits;
`Event` is the driver, which notes the event in `status` and ends a read that is waiting.
`ReadEnds` is any other end of `Read`, `Ask` and `AskFails` are `ClearCommError`, `HandByte`
and `HandMarker` the receiver going through the chunk. Between `ReadEnds` and `Ask` the
line may go on: that is the window in which events come late or merge. A packet is
timely if a read was waiting, and nothing was noted, at its breaks and errors.

**Settings.** A text is the value behind a key; `Malformed` is one that cannot be read as a
number or a pair. `InForce` is the three layers at once: `Defaults`, `Apply` over them,
the flags over both, with the exceptions of `-merge-inputs` (main.go:65) and
`-no-break-detect` (main.go:42).

**MainLoop.** `Load` is main up to the goroutines, `ShowWaiting` the last call before its
loop; in between the goroutines already run. Frames are counted, not looked at: channels
hold a number of them, and of the merger only the ages of its sources and the number of
frames in `Output` are kept. `Tick` is a second; it waits until what is due within the
second has been done (`Prompt`), in whatever order. `shown` is what the terminal says last.
`MainReturns`, `ClosePort` and `Exit` are main's return, the deferred close of the port,
and the end of the process; the receiver may be reading all the while. `StartAgain`
is the next start, with the file as the last one left it. Rates are whole numbers of
`Part`s of a frame per second, where `Part` is a constant that every time a rate may be measured
over divides (`MainLoopAssumption`).

**Bridge.** `AddMapping`, `AllowSource` and `AddOutputUniverse` are the three calls of a round of
main's loop over the pairs, while `Node.Run` (started at main.go:133) is already receiving
between them. The merger is reduced to what the wiring
needs: an `Update` makes its universe's merge due, a later `SendDmxUniverse` sends it.
The destination is a broadcast, as by default, so what is sent arrives at the node, unless
the send fails or the network loses it; `Duplicated` and `Overtaken` are the other things UDP
may do to a datagram. `since`, a history field, counts the sends after a packet.
`LocalIP` is what the node believes its address to be; `OwnIP` what its packets carry.

## 3. Runs

Every passing run checks for deadlock unless its configuration says otherwise: the
receivers and the serial port stop when the port fails.

| Run | Shows |
|---|---|
| `htp_loop` | the loop of `computeHTP` holds the merge of the visited sources at every step, and the frame it returns is the closed form that `Merger` uses |
| `merger_timeout` | types; the send made under the mutex has room; the inductive invariant; no source expires that was heard within the timeout; `MergeService` is implemented; calls return and silent sources expire though nobody receives |
| `merger_forever` | one universe, no timeout: the newest merge is in the channel or on the network and what is sent settles on it; the printed status is true |
| `reception_infer` | with inferred breaks: until a read ends within a packet, full packets are published as they are; a right lock keeps its step through spurious and missed breaks; publishing is always resumed |
| `fallback` | sources with all channels above zero: whole packets only and sync kept, from any point of joining, until the line fails; with channels at zero as well: a receiver in step stays in step and publishes the packets as they end; after an error or a pause anywhere, even within the hunt, publishing is resumed |
| `serial` | on Linux and macOS, bytes and events come out once, in order, before the next read; short reads count on macOS only |
| `bridge` | two universes that feed each other: the bridge does not hear itself, whatever is received while it is set up, and its packets under way are told apart, through lost, repeated and overtaken packets |
| `windows` | with line events at any moment of `ReadChunk`, and with `ClearCommError` failing: a timely packet is published as it was, whatever happened to those before it |
| `main` | first start or edited file, grid or quiet line, every order of frames, ticker, timer, interrupt and lost adapter: the file means the settings in force, silence is reported, no false receiver error, the status recovers, an interrupt ends the program |

That the receiver publishes exactly the intact DMX packets where the driver reports breaks
is proved for all lengths (section 4) and has no run of its own.

Runs that expect a violation, each for a statement of the repository:

| Run | What happens |
|---|---|
| `merger_dark` | expiry drops the recomputed frame when `Output` is full, and the network keeps the last lit frame (README.md:202) |
| `merger_cross` | the drain of one universe's update discards the only frame of another (merge.go:86) |
| `reception_resize` | relearning is never reached once a length is locked (receiver.go:123) |

### Known divergences without a run of their own

The models have the behaviour of each of these. Where a property and constants are named,
TLC finds it violated with them; the passing runs above stay clear by the premises named.

* `StatusTruthful` with `Timeout = 1`, one source and `EventsCap = 8`: a full `Events`
  channel loses the last word on a source (merge.go:77 against README.md:204).
  `StatusTruthfulWhileEventsFit` proves the property without expiry.
* `PublishedIsPacket` with `InferBreaks = TRUE`, `MaxChannels = 3`, `Lengths = {2}`: with
  fewer channels than a frame holds, the stray byte of the break is learned as a channel
  (receiver.go:201 against serial_darwin.go:101 and receiver.go:217). Runs with inferred
  breaks therefore use full packets.
* A spurious break (`Noisy = TRUE`) that completes the vote leaves the receiver locked on the right length
  at the wrong phase, and frames hold slots of two packets ("length is exact every time",
  receiver.go:209). `PublishedIsPacket` stops at the first such break, and
  `LengthKeepsStep` starts from a receiver in step with a length learned.
* An error that reaches fallback mode with a read of no bytes is not looked at, and the
  damaged frame stays open (receiver.go:330 against receiver.go:359; `BadSlot`). A read that times out
  within a packet closes the frame where it is and publishes it cut off (receiver.go:335; `Stall`).
  `PublishesPackets` and `HoldsSync` stop at the first error or stall, `KeepsStep` and
  `PublishesInStep` are about the steps without one.
* A universe with channels at zero may align at one of them, and is then published rotated; nothing rejects
  that while the slot taken for the start code stays dark, though real data appears on others, and
  frames go on being published (receiver.go:40 against receiver.go:23-26). `RejectsWrongAlignment` says what the comment
  promises; it fails with `Sources = {{<<0, 0>>, <<0, 1>>}}` (the packets' channels) and no
  faults. `PublishesPackets` and `HoldsSync` are therefore about sources with no channel at zero (`Lit`);
  `KeepsStep` and `PublishesInStep` are about any.
* With `InferBreaks = TRUE` in fallback mode, packets are 514 bytes on the wire and the hunt's
  stride is 513, so no alignment lasts (receiver.go:34 against receiver.go:263).
* `NeverMergesItself` with `LocalIP` other than `OwnIP`: the tool merges its own output
  (node.go:141 against README.md:201; `-artnet-bind` sets `LocalIP`).
* Of two pairs with one source universe only the last feeds its output (main.go:145,
  merge.go:57 against README.md:199; `AddMapping`).

* `WarnedInTime` with the constants of `MCMainLoop`: an Art-Net source keeps restarting the
  no-data timer though no DMX frame arrives, and so does the frame of an expiry
  (main.go:228 against README.md:222, "after 10 seconds"). With the default timeout of five
  seconds the warning comes up to sixteen seconds after the last frame;
  `SilenceIsReported` states that bound.
* `StatusRecovers` with `RateOf = [line |-> 1, network |-> 1]`: the rate of a source of about one frame
  a second never differs from the last one printed by a frame per second, and the
  quiet line goes on saying "Not Receiving" (console.go:118).
* `WindowsReception`: an event that comes after the read has ended is reported against
  other bytes (serial_windows.go:145 against :128-129), and a break hides an error that came
  with it, so that the damaged packet is published (serial_windows.go:151 against
  port.go:16-18). `TimelyIsPublished` is about the packets that this does not touch.
* Without a port, one attached adapter is opened where README.md:136 says that usage is printed
  (main.go:73; `PortName`).
* `-merge-inputs ""` does not clear the pairs of the file (main.go:65; README.md:138 says so).
* A pair whose source universe is 65536 or more is allowed under its low 16 bits and mapped
  under its full number, and nothing is ever merged from it (main.go:144, main.go:207).

The description of fallback mode in README.md:228 (gaps are the frame boundaries) also
differs from `runFallback`, which anchors on the packet length and uses the gap only to
close short packets; the models follow the code.

### Bounds

* Frames have two or three channels where the program has 512, and bytes two or three
  values. The code treats channels alike; what matters is the first, the last, a packet
  one shorter, exact, and one longer, all of which occur (`Lengths = {0, 1, 2, 3}` with
  two channels). Fallback mode needs four values so that packets can be told from
  their rotations.
* Two sources, one identifier that is not mapped, two forwarders and two universes are enough
  for a source to race with the ticker and with a source of another universe;
  `merger_forever` has the sources on one universe. Expiry beside a source that stays is
  left to the proofs, which have no bounds.
* Channels have capacity 1 or 2 so that every one of them fills up; the capacities of
  the code (4 and 8) are used in the runs that show a loss, which must not be blamed on
  the bound.
* `VoteWindow` is 2 where breaks are inferred, where the code has 24 (receiver.go:80): the vote completes, and is reset.
* `Noisy` says whether reads may end within a packet; `LocalIP` and `OwnIP` are equal.
* The serial port's buffers are 5 raw bytes and 1 served byte, USB payload 3, tty up to
  `TtyMax`: an escape of three bytes is cut at each of its bytes, and the caller's buffer
  is smaller than what has been decoded.
* The sequence byte has four values and three packets are under way: it wraps while the
  packets before the wrap have not been received.
* A read of the fallback receiver returns up to `ChunkMax` = 4 bytes with packets of three: two packets less two
  slots, as the program's 1024 bytes are to its packets of 513. Every cut of a packet occurs, and reads
  that hold the end of one, a whole short one, or parts of two.
* `FaultsMax` is 1: the fault comes at any state, among them every state of the hunt. The proofs have any number.
* Of the two sources one has all channels above zero, the other one at zero in every packet. A mix of the
  first one's full packets is neither of them, and neither cut off is its short one.
* `MainLoop` warns after two seconds and again after three, where the program has 10 and 30:
  the two are different and longer than the merge timeout of one second. The line sends two frames
  a second, so that a channel of capacity two fills; rates are measured over one or two
  seconds. One port, one edited file (a key given twice, a malformed number, a malformed
  pair) and a missing one: the proofs have any files and flags.
* On Windows the buffer has three bytes where the driver holds three and a packet has up to four
  slots, two more than a frame: a read ends full, within a packet, and empty.
* `FaultsMax`, `TtyMax`, `QueueMax`, `SlotsMax`, `ElapsedMax` and `SocketMax` bound the environment, ages stop at
  `Timeout + 1`. No other variable needs a bound.

### Fairness

* A goroutine that can take its next step does so (`WF`); one that waits for the mutex
  gets it (`SF`), because Go's `sync.Mutex` hands the lock to a waiter that has starved
  for a millisecond. Time passes (`WF`), and the ticker's ticks are taken with `SF`, as they
  need the mutex.
* The consumers of the merger's channels are not fair in `FairSpec`: `WriteToUDP` or a
  print may block. `UpdateReturns` and `SilentSourceExpires` hold without them; `Settles`
  and the violated `SilentUniverseGoesDark` use `LiveSpec`, which adds them.
* On a line, the source goes on sending, its reads return, and its forwarder goes on receiving (`WF`).
  In `FallbackReceiver` a read that has bytes ends sooner or later, and the source sends or pauses
  (`WF` on `SlotArrives`, `ReadEnds`, `Pause`): nothing obliges it to pause, or a slot to be damaged.
  An inferred break is reported at some boundaries infinitely often (`SF` on
  `BreakReported`): a read of exactly the USB payload at every boundary for ever is
  excluded. Nothing obliges an error or a spurious break to happen; `KeepsPublishing`
  of `Reception` excuses a line that is damaged, or cut into short reads, for ever.
* In `MainLoop` every goroutine that can run does (`WF`), and main's select, which picks at
  random among its ready cases, does not pass over the end of the context for ever
  (`WF` on `Finish`: the case stays ready once the context is done). Time passes (`WF` on
  `Tick`). That a second does not pass before what is due in it has run (`Prompt`) is an
  assumption about the scheduler: a program that is not run for seconds reports nothing.
  Nothing obliges the senders, the adapter or the operator to do anything;
  `StatusRecovers` has a steady source as its premise.
* No fairness is assumed of `NodeReceives`, `ConsoleSends` or the serial port: no
  liveness is stated there.

## 4. Proofs

All proofs are checked by TLAPS, from the named assumptions of the modules
(`FrameAssumption`, `MergerAssumption`, `BridgeAssumption`, `LineAssumption`,
`SerialAssumption`, `WindowsAssumption`, `MainLoopAssumption` and the like: types of the constants,
capacities of at least one), which TLC evaluates on its instances. A premise beyond these is in the
statement of its theorem, and named below. Every safety property of a passing run is stated by a
theorem, under these premises.

### HTP and the merger

* `HTPLoopProofs`: the closed form of `computeHTP` satisfies the definition of the merge for
  any finite set of frames (`HighestIsMerge`), and the definition has one solution
  (`MergeIsUnique`). The loop holds the merge of the visited sources after each step
  (`LoopMerges`), by induction over its steps, with the bounds of a frame (`TypeCorrect`);
  hence, the sources being finite in number, what it returns is the closed form that `Merger` uses, in
  every order of the map (`LoopReturnsHighest`).
* `MergerProofs`: `SendHasRoom` and the refinement are not inductive: a step needs to know
  who holds the mutex. `IInv` adds to the types that
  a goroutine in a send holds the mutex, as does a ticker that is expiring; that the
  frame it is sending is still the merge, since nobody else can change the sources; that
  the room made by the drain is still there, since only the holder appends; and that the
  sources about to be expired are still silent. `TypeStep` and `InvStep` show each action
  keeps it. From it follow `TypeCorrect`, `SendNeverBlocks`, `ExpirySafe` (an action
  property), `Implements` (every step of `Merger` is a step of `MergeService` or a
  stutter) and, with one universe and no timeout, `FreshWhenUnshared`. `merger_cross`
  and `merger_dark` show what is lost without these two hypotheses.
* `StatusTruthfulWhileEventsFit`: with no timeout and at most `EventsCap` sources. An event can only be
  lost if the channel is full, so the proof counts: by `EventInv` a source is announced
  once, the waiting events are of different active sources, and a source is active just if it has
  been printed or its event waits. A source that connects is not among those waiting, which
  are therefore fewer than the capacity (`EventsHaveRoom`, by cardinality).

### The receivers

* `ReceptionProofs` for a driver that reports breaks (`~InferBreaks`), packets of any number
  of slots and frames of any number of channels. The invariant `DriverInv` says what the
  receiver's state means: it is reading data only within an intact DMX packet, and then
  holds the slots so far, cut at the end of the frame; it waits for a start code only right after a break; and within
  any other packet it waits for the break. From it follow `PublishesPackets` and
  `PublishesIntact`.
* `ReceptionProofs` for inferred breaks, where `DriverInv` does not hold (a missed break
  joins two packets). `TypeCorrect` needs that the vote counts no more boundaries than its
  window (`VotesFit`), and that no frame is kept outside of `readData`: `TypeInv`. `KeepsStep`, for any
  line: a receiver locked on the right length that is in step stays so. `PublishesFull`, for
  full packets (`FullPackets`; with shorter ones the property fails, section 3): until a read
  ends within a packet, `FullInv` says that votes are only cast for full frames, that before the lock
  a frame in flight has either all its channels or as many as the packet has sent, and that a
  locked receiver is in step or waits for a break.
* `FallbackProofs` has no bound on reads: `ChunkMax` is any number from one. `TypeCorrect`, for any line, shows
  that the window of the hunt and the frame stay in bounds.
* `StepIsKept` and `StepPublishes`, for DMX packets of at most a frame whose breaks leave no byte
  (`DmxPackets`) and whatever the channels hold. `InStep` is itself what a step preserves: the slots
  taken so far are the first ones of a packet (`Taken`), and from them to where the line is every slot still to be
  consumed follows the one before (`Unbroken`). `ArrivalKeepsStep` appends to that sequence,
  `ConsumeKeepsStep` takes its head, and `PauseKeepsStep` finds it empty and the packet complete.
* `FramesArePackets` and `SyncHeld`, for the same packets, are about sources that keep every channel above zero (`Lit`, in
  the properties themselves), the case in which the hunt can tell a start code. It is not the usual
  one; section 3 shows what happens otherwise. Until the line fails `SyncInv` says that the receiver is in step
  or hunts in slots that go on from one to the next, but for a pause after the very first of them (`Joins`); by
  `SourceInv` they are all the source's. A zero then is a start code, so the offset that is found begins a packet
  (`OffsetIsStart`), and what a gap takes from the buffer is one packet (`OnePacket`).

### The serial ports

* `SerialPortProofs`, for any sizes of the reads and of the buffers: `PortInv` has the bytes in
  `carry` and the tty be complete escapes, but for the head of one that the decoder
  is in (`Chain`: each byte follows the one before it in some escape, and the first follows the decoder's
  state); a flush only at the last byte of a read that counted as short (`Flushed`); and `due` be
  what `out` and `mark` hold. That last conjunct is what must be proved of a step of `Decode`: the
  items that a byte completes are what the decoder puts out. `TypeCorrect`, `InOrder` and
  `Everything` follow. Of the platforms only
  `SerialAssumption` is used: no line events where short reads stand for breaks.
* `WindowsProofs`, for any packets and buffers, with `~InferBreaks` (portname_windows.go:56):
  `WindowsInv` follows a packet whose events have been timely through the driver, the chunk and the
  receiver (`Following`: the slots are what the receiver has gone through, then the chunk, then the
  queue), and after its break the last of it (`Ending`), until the marker is handed over.
  `TimelyPublished` then needs only the step that hands the break over. Nothing is said of other
  packets, so that whatever was late or lost before one cannot matter.

### The network, the settings and main

* `BridgeProofs`, the codec: a universe of 15 bits survives the wire (`UniverseRoundTrip`), the
  others lose their top bit (`UniverseAliases`), `ArtPollReply` agrees with `ArtDmx`
  (`PollReplyAgrees`), and decoding stays in bounds (`DecodedLengthFits`).
* `BridgeProofs`, the node: `TypeCorrect`, `OwnUniverses` and from it `NoSelfMerge`: if the node knows its address and the
  outputs are in range, it never merges its own packets. The invariant is
  `OwnUniversesKnown`: every universe a mapping can feed, that is due, or that an own
  packet under way carries is in the filter, but for the
  output of the pair that main is just setting up: the merger has it from main.go:145 on, the filter from
  main.go:148. Nothing is sent before all are set up (`Ready`), when there is no such pair
  (`ReadyIsSetUp`), and universes are only ever added, so a packet is never received before its universe is known. Range is needed: by `UniverseAliases` an output
  above 32767 comes back under a number the filter does not hold.
  `SequencesApart` follows from what a packet's number says: moved on by the sends since, it is
  the node's, or the node's has wrapped once more (`OwnSequence`).
* `MainLoopProofs`: `StartIsRepeatable` needs that the generated template means `Defaults`,
  line by line (`TemplateIsDefaults`), and `FileIsKept` follows, since only `Load` and
  `StartAgain` touch the file or the settings. `ErrorsAreReal`: main only closes the port
  once the context is done, and an error is printed only before. `SilenceReported`, for all timeouts,
  rates and capacities, needs `SilenceInv`: the age of a source that the merger holds is its
  silence (`AgesAreSilences`); a frame waits in `Output` only while some source
  was heard or has just expired (`OutputIsRecent`); unless one waits, the timer has at most
  as long to run as some source has left of `LatestWarning` (`TimerIsInTime`); and before the loop nothing is silent
  (`NothingYet`). `TypeCorrect` is proved a group of variables at a time (`LifeType`,
  `SetupType`, `QueueType`, `ScreenType` and so on); the rates shown are naturals because `Part` is
  divided by every measuring time.

### What the proofs found in the models

* `ReturnsEverything` holds by induction only where a short read and an event of the driver
  cannot meet: the assumption on `Platforms` says so now.
* `LengthKeepsStep` was true of an unlocked receiver only by the shape of its packets; it is about
  `locked > 0`.
* `BreakFirst` was a CASE with overlapping guards, which leaves open what both events
  together give; it is the code's `if` and `else if`.
* The part of a frame that rates are counted in was chosen, and there was none for longer
  measuring times: it is a constant with an assumption.

### Only model-checked

All liveness: `UpdateReturns`, `SilentSourceExpires`, `Settles`, both `KeepsPublishing`,
`StatusRecovers` and `InterruptEnds` (fairness is out of the prover's reach).
`WindowsReception` and `ReceptionProofs` complement each other: the latter has events that are told in time.

## 5. What is not modelled

* Opening and configuring ports, port discovery, socket options, address detection: fixed
  sequences of system calls; their results are constants or choices (`Load`).
* The Windows driver is external: the model has it keep bytes in order and events as a
  set, end a waiting read at an event (serial_windows.go:133), and clear events when it is asked.
* Parsing of text, `frameCount`, the channel grid and the wording of what is printed.
* The levels of frames in `MainLoop`, and the number of frames in `Merger`: the two models share
  `Update` and expiry, not their state.
* The write of the template is one step: a file cut off by a crash is not a state of the model.
* The unsynchronised map of output universes (main.go:148 against node.go:141): a
  runtime fault is not a state of the model.
* The message of a send error; that the packet is lost and its number used up is modelled.

## 6. Plan

1. Done: `HTP`, `Merger` with its abstract specification and proofs; both receivers; the
   three serial ports; the node with its wiring; the codec; the settings, the main loop and the
   console.
2. Done: theorems for every safety property of the passing runs.
3. `Bridge` composed with `Merger`: levels from a console to the network, with the drop in
   `ReceivedDmx`; an abstract specification of the whole bridge, and its refinement proved step
   by step.
4. `SerialPort` in front of `BreakReceiver`, to state and prove that the break is applied at the byte it
   came at, end to end.
