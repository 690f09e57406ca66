# atari800-cl in TLA+

Specifications of the parts of atari800-cl (a headless Atari 800 XL emulator in
Common Lisp, `src/src/*.lisp`, with Python clients in `src/scripts` and
`src/tools/protocol-comparison`) whose correctness depends on the order of steps:
several threads around one emulator thread, several chips around one scanline,
and programs at the other end of a connection. TLC checks each specification on small instances; TLAPS proves the
theorems listed below for every value of the constants. Line numbers are those
of the sources at the commit this project stands beside.

## 1. Inventory

| Part | State it keeps | Operations | Talks to |
| --- | --- | --- | --- |
| Machine and run loop (`machine.lisp`) | RUNNING-P, frame counters, POKEY-LAG, DEFER-BREAK-P, callbacks | MACHINE-RUN-LOOP, MACHINE-RUN-FRAME, %RUN-CLOCKS, cold reset, start, stop, attach | everything; the only caller of the chips |
| Command mailbox (`machine.lisp`) | queue and count under a lock and a condition variable; per command DONE, result, error, a lock and a condition variable | MACHINE-SUBMIT, MAILBOX-ENQUEUE, -DRAIN, -WAIT, %RUN-COMMAND | submitting threads of both servers; the emulator thread |
| AESP server (`aesp.lisp`, `transport.lisp`) | client lists, VIDEO-ACTIVE-P, NEEDS-FULL-RENDER-P, PAYLOAD-VALID-P, framebuffer, previous frame, cached payload | register, unregister, scanline callback, push of video and audio, control messages, stop | reader and acceptor threads; the emulator thread through callbacks |
| CLI server (`cli-socket.lisp`) | connections | verbs, each a command of the mailbox | mailbox |
| Scanline scheduler (`machine.lisp` %RUN-CLOCKS) | CPU budget, cycles POKEY has not got yet | one line, one instruction, the fold at the end of a line | CPU, ANTIC, POKEY |
| POKEY (`pokey.lisp`) | timers, IRQEN, IRQST, PENDING, serial transmitter and receiver, SKSTAT, keyboard | tick, advance, read, write, queue of serial input | CPU's IRQ line, SIO hook, audio |
| SIO (`sio.lisp`) | command frame accumulator, devices | wire byte, dispatch, reply, reset | POKEY's serial port, disk images |
| ANTIC (`antic.lisp`, `irq.lisp`) | scanline, display list counters, mode line, NMIEN, NMIST, WSYNC | scanline events, VBI, DLI, JVB | CPU's NMI, scheduler, bus |
| Bus (`bus.lisp`) | page map, dirty map, I/O closures | read, write, dirty test | all chips; AESP asks for the dirty map |
| PIA, MMU (`pia.lisp`, `mmu.lisp`, `memory.lisp`) | PORTA, PORTB, data directions; bank configuration | read, write, reset, remap | bus |
| Host bridge, ATR, XEX (`hostdev.lisp`, `xex.lisp`) | armed go register, mounted images, loader segments | DCB execution, sectors, strobes | bus, SIO |
| GTIA, input (`gtia.lisp`, `input.lisp`) | collision and trigger registers, key latch, joystick | polls, presses and releases | POKEY, server threads |
| CPU (`cpu*.lisp`, `illegal.lisp`) | registers, halted, interrupt lines | step | bus |
| Audio (`audio.lisp`), renderer (`renderer.lisp`) | sample accumulator; row buffers | synthesis; pixels | POKEY; AESP |
| Capture scripts (`scripts/capture-*.py`, `aesp_client.py`) | payloads read, exit code | fetch configuration, connect, read, write, exit | video, audio and control ports |
| Protocol comparison (`tools/protocol-comparison/*.py`) | adapters and their processes, the case in progress with its connection, results, exit code | probe, start, run a case step by step, normalize, match, classify, stop, report | two server processes, over TCP and Unix sockets |
| Compatibility, entry points (`compat.lisp`, `package.lisp`, `main.lisp`) | none | wrappers | - |

What makes each correct, and what is hard about it:

* **Mailbox.** Each accepted command is run at most once, in order, and
  answered to its own submitter; no wake-up is missed on either side; the
  emulator thread is never held up; stop always works. Hard: two locks per
  command, unlocked steps between them, a loop that may be destroyed anywhere.
* **AESP video.** A viewer sees whole pictures: rendering is gated, skipped on a
  clean dirty map, deduplicated against the last frame and resent from a
  cache, and each shortcut rests on a flag written by another thread. Hard:
  the emulator thread reads and clears those flags without the lock.
* **Scheduler and deferral.** Delivering POKEY's cycles late must be invisible
  to any program. Hard: the decision is taken once a line and a write in the
  middle of the line can make it wrong; overshoot and WSYNC at the same time.
* **POKEY and SIO.** PENDING equals the condition it caches; the IRQ line is
  the OR of the latched sources; reply bytes are complete and in order; command
  frames are collected from their first byte. Hard: hooks called from inside an
  advance queue work for the same advance; a reset resets only a part; nothing but
  a count of bytes tells where a frame ends, and a program may give one up.
* **ANTIC.** One VBI per frame, at line 248, whatever the display list does;
  DLIs on the last line of their mode line; NMIST tells which.
* **Audio path and shutdown.** The Nth PCM chunk belongs to the Nth frame; a
  stopped server is not called. Hard: STOP-AESP-SERVER runs in its own thread.
* **Capture scripts.** Each gets consecutive frames, one per payload, and ends.
  Hard: the server is stopped under them; other viewers come and go.
* **Protocol comparison.** What it records was on the wire; exit code 0 means that
  every required implementation met every case; what it started is stopped; it ends.
  Hard: one connection carries several steps, so a late or partial answer spoils
  the next one; ports are chosen before the server binds them; a server behind a
  launcher is nobody's child once the launcher is gone; a timeout is that of one recv.
* **PIA and MMU, host bridge, input.** Two copies of one latch; a handshake of
  two strobes that the OS may interrupt; latches set by another thread.

`PROJECT.json` lists every hazard at its line, with the properties that
watch it or the module planned for it.

## 2. Plan

In order of what the machine's users would notice first.

| # | Module | Models | Composes with | Status |
| --- | --- | --- | --- | --- |
| 1 | `CommandService`, `Mailbox` | abstract command service; mailbox, run loop, start and stop | `Mailbox` implements `CommandService` | checked, proved |
| 2 | `VideoGate` | rendering gate, row-0 decision, push, cached payload | - | checked, safety proved |
| 3 | `LineClock`, `PokeyDeferral` | a scanline without and with deferred POKEY cycles | `PokeyDeferral` extends and implements `LineClock` | checked, proved |
| 4 | `SerialWire` | transmitter, receiver, SIO layer, resets | - | checked, proved |
| 5 | `DisplayList`, `RenderSkip` | ANTIC's walk of the display list; the dirty-page decision and the rows drawn | `RenderSkip` extends and implements `DisplayList` | checked, proved |
| 6 | `Replies`, `CaseRun`, `Harness` | a normalized record, its matching and the class of a case; one case against one server; a whole run | `Harness` extends `CaseRun` extends `Replies` | checked, safety proved |
| 7 | `FrameHook`, `Capture` | the post-frame hook with its audio half and STOP-AESP-SERVER; the capture scripts | `Capture` extends `FrameHook`, and implements its specification | checked, safety proved |
| 8 | `HostBridge` | $D1FE/$D1FF handshake against OS strobes, ATR geometry and XEX segments as functions against a reference | - | planned |
| 9 | `BankLatch` | PIA's PORTB latch, DDRB and the MMU's copy across resets; banks under the display for `RenderSkip` | `RenderSkip` | planned |
| 10 | `Interrupts` | NMIST and NMIRES, the CPU's NMI edge and IRQ level, key latches set by server threads | `DisplayList`, `LineClock` | planned |

Every safety invariant and every action property of modules 1 to 7 that a passing
run checks is proved (section 5). Still worth stating: an abstract "viewer sees the picture" specification
for `VideoGate`, an abstract raster for `DisplayList`, and whatever invariants
modules 8 to 10 turn out to rest on.

## 3. How the modules correspond to the code

An action is one critical section, or one step of a thread between two of them
(`Mailbox`, `VideoGate`); or one instruction, line start or line end of the
emulator thread (`PokeyDeferral`, `SerialWire`, `DisplayList`), where nothing
else runs in between. `PROJECT.json` maps each definition to its lines.

* **`Mailbox`**. Submitters: Post or PostBusy, FlagPriority, Sleep, SpuriousWake,
  Collect, Leave (MACHINE-SUBMIT step by step). Loop: CheckStop, Drain,
  RunThunk, Finish (with NotifyClient), EndBatch, BeginFrame, EndFrame, Park and its
  wake-ups (MACHINE-RUN-LOOP). Start, RequestStop and Destroy are START-MACHINE
  and STOP-MACHINE, whose timeout may expire at any point of the loop. A command
  is named by its submitter, who has at most one outstanding; its thunk is an
  operation with an effect on RUNNING-P and a value, or an error. Condition
  variables may wake spuriously.
* **`CommandService`** is what a submitter may rely on: accept at the end of a
  line or refuse, execute the oldest, deliver its own outcome to each, lose
  what a destroyed loop had begun.
* **`VideoGate`**. Connection threads: Connect, AskFullRender, Disconnect,
  CloseGate. Emulator thread: the callback's reads and writes one at a time
  (EnterRowZero, Decide, ClearAndDraw, DrawRow, SkipRow) and the push's
  (Snapshot, CheckNeeds, Unchanged, Dedup, MarkValid, Send). What the machine
  displays is one value PIC; Write changes it and dirties the map. That a change
  of the picture always dirties the map is an assumption here: `RenderSkip`
  examines it.
* **`LineClock`** runs whole instructions against a budget that carries over
  and advances POKEY after each; `seen` is what the program found of the chip.
  **`PokeyDeferral`** is the code: two loops, lag, break flag, WSYNC, fold; `seen`
  must come out the same. POKEY is one timer, one transmitter with its holding
  register and their interrupts, which is enough to tell a late cycle.
* **`SerialWire`**. One record `chip` holds all an advance may change, so Advance
  is a function from chip to chip, and so is Ticks, the reference that takes
  one cycle at a time. Programs begin a command frame whenever they like, in the
  middle of another too (BeginFrame), and go on with it (Continue); they enable and acknowledge
  interrupts, read, let time pass; a command mounts a disk or resets the machine. `skew`
  counts the bytes of frames given up before, and `stray` remembers that a cold reset caught a byte in the
  transmitter. A frame begun with nothing left of the one before clears both.
* **`DisplayList`**. %BEGIN-SCANLINE-EVENTS is BeginVbi, BeginModeLine, BeginJump or
  BeginOther; %END-SCANLINE-EVENTS is EndLine; Poke, WriteDlistL, WriteDlistH and
  WriteDmactl are stores at any scanline. A cell of memory is an instruction
  with its operands, or data. The histories AGE, CUT and GAP count scanlines of
  a mode line independently of the code's two counters.
* **`RenderSkip`** adds the dirty map, the framebuffer and the callback, which
  runs in the step that ends a line. WalkFrom is the watched-pages walk. A
  picture of a row is its data and the glyph row they are drawn with.

* **`FrameHook`**. The emulator thread: RowZero and EndFrame, then the hook's steps
  SnapVideo, SendFrame (one client at a time), SnapAudio, Attach or Detach, SetSlot, Drain,
  SendPcm. Acceptors and readers: Register, Unregister. STOP-AESP-SERVER, on a
  thread of its own and without the lock: ClearCallbacks (twice), StopReadsSlot,
  StopDetach, StopForgets, CloseAll. A picture and a sample are the number of
  their frame; `sent`, `frames`, `first`, `last` and `joins` are histories of one connection.
* **`Capture`**. One script is Connect, Read, Write, Exit, with a failure beside
  each; a recorder writes every frame as it comes. Its Server is FrameHook's
  threads, so that Spec implies HookSpec, which is proved.
* **`Replies`** is normalizers.py and expectations.py as operators. Texts are words,
  `contains` is equality, and a payload is a length and a meaning.
* **`CaseRun`** is runner.py over aesp_codec.py or cli_codec.py: SendStep, Receive (any
  part of a frame or line), then ReplyRead, HeaderRefused, TimedOut or
  PeerGone, each of which concludes the step. The server is external (Answer,
  Ignore, Transmit, Dribble, Hangup). A unit on the wire remembers the request it answers.
  The timeout is that of one recv. An AESP message has a length, which bounds how often it is
  armed again; a CLI line has none, and Dribble and ReceiveText are a server that
  sends more of its text, and the recv that takes it and starts over. Text is a unit of its own only
  for a reader that has begun the line and waits for the end of it; otherwise
  the line's two units stand for it. The first sendall of a connection has no timeout;
  requests are shorter than a socket's buffer, so it does not wait.
* **`Harness`** is compare-protocols.py with its adapters: Probe, Spawn, Pinged or
  ReadySeen or AwaitFails, the cases (Connects, RunsCase, EndsCase, Invalid), Stops,
  Reports. Launcher and server are two processes for an implementation in
  `Wrapped` (Attic behind `swift run`) and one otherwise. They may die at any
  look (a launcher's death while cases are run is seen when it is stopped), and another process may take a port that was released for them.
  Assumed: an implementation is named once, a valid case has steps, and its requests can be
  encoded; a port that a server held is not taken again before the run is over.

## 4. The runs

| Run | Shows | Bounds |
| --- | --- | --- |
| `mailbox_safety` | each command has one custodian, no wake-up is missed on either side, no command waits for more than a frame | 3 clients, cap 2, 2 starts |
| `mailbox_threads` | `Mailbox` implements `CommandService`; every posted command is answered; a stop ends the loop | 2 clients, cap 2, 2 starts, all three effects |
| `video` | frames sent are clean and cached payloads current, unless row 0 overwrote a request; once viewers stop arriving, each connected one gets a frame | 2 viewers, 2 rows, 2 pictures |
| `video_torn` | finding: without that exception they are not | the same |
| `pokey_deferral` | deferral is invisible; cycles are conserved | lines of 7 cycles, costs 2, 3 and 7 |
| `serial_safety` | PENDING and IRQ line exact, replies whole, command frames displaced by what was given up before them and by nothing else until a reset catches a byte, one advance equals its ticks | frames of 3 bytes, advances of 1 and 3 cycles, 2 requests |
| `serial_reset` | finding: a cold reset misaligns frames | the same, 1 request |
| `render_skip` | interrupts, counters and pointers of the display list; frames rightly left undrawn for lists the walk sees the whole of | 2 pages of 2 cells, 3 rows in 5 scanlines |
| `harness` | records tell what was on the wire, exit code 0 is earned, classes follow the table, what was started is stopped, the run ends unless a line never does or a CLI socket never accepts | 2 implementations, lists of one or two cases of at most two steps, 3 answers a protocol |
| `capture` | a PCM chunk and a picture per frame, no audio unit left behind, exit code 0 means that all was read, every script ends | 2 viewers, 1 listener, 3 frames |
| `render_skip_unsound` | finding: stores of the first row are forgotten | the same |
| `render_glyph_row` | finding: a scanline is drawn with the next one's glyph row | the same |

**Why the bounds are enough.** Three submitters fill a queue of two and have
the third refused, or one command in the batch and two behind it; with two starts a loop is
destroyed and another inherits its queue. A run with liveness has two clients,
hence a queue that can be two deep (order) but never refuses; refusals are in the
safety run and in the proof. Two viewers are enough for one to arrive while
another leaves or keeps the gate open, two rows for a frame with a first and a
later one, two pictures for a stale row. A line of 7 cycles lets the longest
instruction cover it and the debt reach into the next; the timer and the byte
time are shorter than a line. Advances of 3 cycles overtake bytes of 2, so
several land at once. Three rows hold a two-line mode line, a change of mode
line and a cut; as DLISTL and DLISTH take every value, the three memories (`MCRenderSkip`) hold a
list of one mode line, a list without LMS, one that begins with a jump, one
that begins blank, and one whose jump a store replaces after ANTIC has taken it.
A pair of pages tells a watched from an unwatched store.
Two implementations, one behind a launcher and one not, are what the
harness has; two steps let the answer to the first be read by the second; a case that
puts up with silence, one that goes on after a failed step, one with an accepted
gap, one with alternatives, an invalid one and both protocols are among the lists
(`MCHarness`), in the shapes of `cases/*.json`. Three answers are a right one, a
wrong one and one that is malformed or refuses. Three frames let a viewer and a
listener join after the first frame and leave before the last, with a
recording, a screenshot and a sound capture at once.
`MaxFrames` bounds the frames of `FrameHook`; `MaxStarts` (starts of the loop) and `MaxQueue` (no new command behind a longer
queue) are the only other bounds in guards; SoftCap is the program's own.

**Fairness.** Weak fairness for the emulator thread's steps and for each
submitter's steps after its post (`Mailbox`), for the frame's steps and for
the second half of a registration or a departure that has begun
(`VideoGate`), for those steps of the harness whose waits have a deadline (`Timed`: the
build, READY, the TCP connects, the processes to stop) and for the reads of its case (`Harness`), and for
the scripts, whose sockets have a timeout
(`Capture`): the operating system schedules every runnable thread, and all
locks protect short sections without waits. Two waits of the harness have no deadline.
The connect of a CLI socket gets no timeout (adapters.py:109-110), so no fairness is
assumed of it. The timeout of a read is that of each recv
(cli_codec.py:56-74), so the fairness of the reads says only that a recv returns, with data or
after the timeout. `Ends` names both: the run ends, or text of a line goes on arriving
for ever, or a connect never returns. Nothing is assumed of new
posts, connections, START-MACHINE, STOP-MACHINE, spurious wake-ups, or of a server
that a harness or a script talks to.

**Deadlock** is checked except in the `Mailbox` runs: there all submitters may
have left and the loop have ended for good, and the system really stops.

**Findings.** (1) aesp.lisp:835, a viewer registering
while row 0 decides loses its request for a full render and may be sent rows
from before the gate closed. (2) machine.lisp:328, a cold reset with a byte in
the transmitter leaves the command frame accumulator one byte off for good.
(3) aesp.lisp:837, the dirty map is cleared after scanline 8 has run, so stores
made during it are forgotten and the next frame is skipped although it differs;
the same property also fails for lists without LMS and for frames whose row 0 was a
jump (the walk from the live pointer no longer sees it, and a store may replace it),
which SkipSoundIfAnchored excludes by name: Anchored and `jumped`. (4) renderer.lisp:796, SCAN-Y is read
after the line was closed, so glyph rows are off by one.

**Smaller divergences**, built into the models as the code has them and visible in
the exceptions of their properties:

* "A corrupt frame gets a NAK ... and the OS's retry then starts a fresh frame, which the reset
  accumulator is aligned to" (sio.lisp:166-169, test-sio.lisp:131-132). Only the count of bytes delimits
  frames, so this holds of a frame corrupt on the wire, not of one that a program gave up in its
  middle: each later frame is displaced by the bytes given up, and refused. `skew` in FramesAligned counts them.
* aesp.lisp:866-871 detaches the audio unit in the stopping thread "because the callbacks
  are already cleared, so no frame can be mid-push"; a frame that read the callback before
  may still attach one (`overtaken` in StopDetaches).
* `--timeout` is "Per-case response timeout" (compare-protocols.py:66-67), but read_reply
  arms it for each recv (cli_codec.py:56-74): a server that goes on sending text without a newline is
  read for ever (`more` in Ends; without that exception TLC finds it violated).
* "Terminate the whole process group" (adapters.py:278): Attic's group gets one SIGTERM, and only while its
  launcher lives, the SIGKILL is the launcher's (StartedIsStopped speaks of the server
  only where there is no launcher).
* START-MACHINE is documented to start paused (machine.lisp:908); it does not touch
  RUNNING-P, so a machine stopped while running runs again at once (`Mailbox`, Start).
* DL-OFFSET is a fixnum because a list that never jumps "lets it grow past 65535 ...
  unbounded across scanlines" (antic.lisp:161-164); the latch at each vertical blank
  (antic.lisp:477-479) resets it too, so that it never passes three bytes for each displayed
  scanline, 720 in all. OneAScanline is that bound in cells, each an instruction with its operands.
* "The Nth AUDIO_PCM pairs with the Nth FRAME_RAW" (aesp.lisp:466, capture-video.py
  and capture-audio.py alike): each further viewer that connects holds one frame back and no
  sound. `joins` in VideoSteady counts them.
* aesp_codec.py: read_message raises the timeout again after a whole header has been
  consumed, although it promises that only if nothing arrived; SilenceTookNoReply
  excepts it. cli_codec.py: a line cut by the end of the stream is classified, not
  returned as `disconnect`; a protocol error counts as silence where silence is expected.
* compare-protocols.py: a start that fails leaves its own process running, since only
  started adapters are stopped (StartedIsStopped speaks of `started`), and exits
  with 1 where the docstring says 2; exit code 3 is given for TCP only, and only with
  Attic selected, where the README says TCP or Unix sockets; `--mode dry-run` runs live.
* adapters.py: atari800-cl's early exit is noticed at the end of the timeout.
* classify: an optional implementation that failed without saying `unsupported` still
  yields `pass` or `accepted_difference`; an exception of the harness itself counts as
  a failure of the implementation. failures.md says that none failed when the only
  failures are harness errors.

## 5. What is proved

All for every value of the constants, from the ASSUMEs of the modules alone
(sizes are positive, the soft cap is at least one, instruction costs are
bounded, a line's steal is at most the line, and so on).

* **`MailboxProofs`**: types, Custody, NoSleepPastDone, NoParkOnWork,
  OneFrameLatency. They are proved together, since Custody (queue, batch and
  current command hold each outstanding command exactly once) is what makes
  the others survive a drain, and with FreshAfterDrain: between the drain and the
  frame, what is queued has been posted since the drain. Without it a frame
  could begin with an old command queued and the latency bound would not be inductive.
  It also proves that Spec implements CommandService's Spec under the
  mapping that makes the abstract line of commands the batch followed by the
  reversed queue; that needs that a finished command has an outcome and a lemma
  on the reverse of a sequence one longer.
* **`VideoGateProofs`**: types, CleanUnlessLost, ResendIsCurrent. A framebuffer
  with stale rows is always guarded (the request is set, or nobody is
  connected, or it is on its way to be set); the previous frame and the cached
  payload are the same; the dirty map tracks every difference between
  framebuffer and picture; each step of the push knows what it has tested.
* **`PokeyDeferralProofs`**: types, EachCycleOnce, LagIsQuiet, NoFreeCycles and
  that PokeyDeferral implements LineClock. The mapping's POKEY is the chip
  advanced by the lag; the step rests on two lemmas, that two advances are one
  advance by the sum, and that a deferrable POKEY raises nothing during
  the lag. DeferIsQuiet, LagIsDeferred and NoStaleStall make it inductive.

* **`CaptureProofs`**, first of `FrameHook`: types, AudioSteady, VideoSteady, StopDetaches, for any
  number of clients and frames. The buffer is never behind the frame but between its attachment and the
  drain; a listener once served is either up to date or owed exactly the frame in progress; a
  viewer's missing frames are covered by joins, of which a pending request has
  taken one that is not yet paid. Then of `Capture`: Spec implies HookSpec step by step, so
  that the three properties hold of what the scripts record; and the scripts' own types.
* **`HarnessProofs`**: types, RecordsTellTheWire, ZeroIsEarned, ClassIsTable,
  StartedIsStopped, for any number of implementations, any lists of cases and any answers. It
  begins with one case: its invariant reads units in buffer, connection
  and outbox as one stream: answers in the order of their requests, each from its first unit
  on; a record then is one answer because a read begins where the last one ended
  or has failed. PassIsMet: a case that passes put every step through, and in a strict
  case each step read its own answer. The invariant of a whole run
  adds to it at each phase how far `at`, `started` and
  `per` have come, that a port whose server said READY is its own, that every pass kept is
  sound, and what has been stopped so far.
* **`RenderSkipProofs`**, for any memory, display list, row length and length of the visible region.
  `RenderSpec` implements `Spec` of `DisplayList` (a callback reads ANTIC and moves nothing of it),
  so what follows holds below the renderer too. WalkInv gives the types and the bounds of the counters, DliOnLastLine, ScanYIsLine,
  BlankIsReady and RowAtATime: inside a mode line MODE-SCANLINES-REMAINING and SCAN-Y
  add up to its length, AGE counts the same, and a line that begins a mode line finds both
  counters at rest. SkipSoundIfAnchored needs RenderInvariant, which
  fixes what each row of a frame should be: IsLines gives, row by row, what the list that DLISTL and
  DLISTH point to prescribes as memory is now. As long as no page a row is made from is dirty, ANTIC is at that place
  when it gets to the row (RowIsLine, RowWasLine) and the framebuffer has that row's picture
  (FrameIsLines); a skipped frame's decision stands until something is stored (SkipStands).
  OnWalk then compares those lines with the decision's walk: each of them is shown by an instruction
  that the walk has passed, so all the pages it is made from were marked.
* **`SerialWireProofs`**, for any frame length above two, byte time, delays, masks and
  advances: types, PendingIsExact, LineIsLevel, NoReplyByteLost, FramesAligned
  and TicksAgree. IInv says that the chip is sound (the countdowns
  belong to what is in the registers, what is owed is what is in flight and then the queue),
  that the line is up exactly when something is latched and not muted,
  and that the bytes on their way out are the ones the program has written, each counted with what was
  given up before it, unless `stray` says that a reset caught one. Each operation of the chip has a lemma on what it does to
  transmitter, receiver and interrupts. FramesAligned is arithmetic on places modulo the frame length,
  for every sequence of frames finished and given up.
  TicksAgree compares Advance(chip, n) with n single ticks. The transmitter has a closed form after
  i cycles (OutIs: no byte, one or two have left), so it agrees at once. The receiver
  does not: Advance hands it the reply when it starts to count, a tick only when the
  command has ended. `Tracks` relates the two after i cycles: they are together with the reply still
  due, or the first has begun it, or both have, less than i cycles apart; the relation is kept by a tick and leaves
  at the end either equality or a reply begun at another cycle.
* **`NumberLemmas`**: remainders, the least element of a set of numbers, induction
  as a set of counterexamples without one, and that a function
  defined step by step on 0..m is an iteration. With them the loops that the models write as
  recursive functions (WalkSteps, InSettled, Ticked) are within reach, which the library's
  induction theorems, with an operator for a parameter, are not.

**What the proofs corrected.** SkipSoundIfAnchored was false for memories the run did
not have: after a jump in row 0 a store may replace the jump, outside of the pages the walk marks. `jumped` now excepts
those frames, and a third memory of `MCRenderSkip` holds such a list. Three CASEs
(Reply, ScanYAfter, CliFields) had guards that overlap, which TLC
resolves by the first and the logic leaves open; they are disjoint now.

**Only model-checked.** Liveness (Answered, StopEndsLoop, FirstFrame, Ends,
CaptureEnds): the prover has no ENABLED. The findings are counterexamples.

## 6. What is not modelled

* `HostBridge`, `BankLatch` and `Interrupts` of the plan, with what
  they stand for. In particular: a PORTB write switches the memory under the
  display without marking it dirty (bus.lisp:394).
* The instruction set, sample synthesis and pixel arithmetic: data for table
  tests. Protocol parsing and text replies. Sockets, beyond the facts that a
  write may fail and a reader may end.
* In `DisplayList`: NMIEN and NMIST, cycle steal, player/missile DMA, the
  per-cycle ANTIC-TICK, display lists in $D000-$D7FF. In `RenderSkip`: character
  set and player/missile windows, which the walk marks from registers.
* In `Harness` and below: self-test and probe modes, the selection of cases, the wording
  of reports, evidence files, regular expressions over texts, and case bodies that
  cannot be encoded. In `Capture`: image and WAV encoding, and the control exchange,
  whose failure changes nothing but a format the server has only one of.
* In `PokeyDeferral`: partial last lines and ABORT-PRED, which no caller passes;
  linked timers and polynomial counters.
