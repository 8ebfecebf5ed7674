# A TLA+ verification of the DeskHop HID test harness

The repository holds three kinds of program: firmware that turns a spare RP2040
into a USB device (`emu/`), C probes that drive DeskHop's HID parser and report
handlers on a development machine (`src/`), and Python tools that run the probes and
keep their results honest (`tools/`). These modules model the parts that have
state, ordering or arithmetic worth checking.

## The system's parts

| part | state it keeps | operations | what makes it hard | what makes it correct |
|---|---|---|---|---|
| Sleep/Wake control (`emu/sleepwake/control.c`) | `control_state_t`: debounce and hold timestamps, gesture flags, a four-slot ring of reports, `in_flight`, suspend and wake-request flags | `sleepwake_reset`, `sleepwake_task`, completion and failure callbacks, LED and GET_REPORT readers | callbacks between polls, suspend and reset at any moment, failed and refused transfers, 32-bit time | whole gestures in order, each report once; no stuck key; one resume request per suspension or tap; the press's real length decides |
| Sleep/Wake loop (`emu/sleepwake/main.c`, `usb_descriptors.c`) | `last_sample` | poll every 5 ms, mount and unmount callbacks, GET_REPORT | a bus reset has no callback of its own | stale state never outlives re-enumeration |
| Device rigs (`emu/main.c`, `emu/usb_descriptors.c`) | per-rig phase and indices, deadline, the LED's phase and latched code | `device_task` of the keyboard, Gameball and Sculpt rigs, `led_task`, `tud_mount_cb` | refused reports, resets, suspension and SET_PROTOCOL in the middle of a script | every press is released, no delta is lost or repeated (boot protocol cuts the Sculpt's scrolling short), the LED shows one whole code |
| Ratchet (`tools/ratchet.py`) | the measured counts and the baseline | `read_fuzz`, `read_sweep`, `read_table`, `compare`, `measure` | a count rising behind a changed denominator, a kind disappearing | no regression passes; no advice to record one |
| Forked runs and tallies (`src/support.h`, `truncate.c`, `shortreport.c`, `fuzz.c`, `exhaust.c`, `timing.c`) | pipe, child, alarm; a 16-entry tally of failure kinds | `run_forked`, `classify_failure`, `tally_add`, the sweeps and generators | a child that hangs, crashes or fills the pipe | the parent always returns and counts each run once |
| Routing and recorders (`src/routing.c`, `stubs.c`, `recorders.c`, `dispatchtest.c`, `cctest.c`, `dump.c`) | the last report sent or receiver reached, one interface slot, pass and fail counts | route, record, compare with an expectation | a right answer for the wrong reason, or left over from another row | a verdict is given only for what the row at hand did |
| Decode suites and their tables (`src/kbdtest.c`, `cases_kbd.h`, `mousetest.c`, `cases_mouse.h`, `descriptors.h`) | failures, by fix and in all | build for the tree probed, decode each row, compare | answers worked out by hand for four generations of firmware; fields that straddle bytes, slots that hold nothing, rows kept out | a suite passes the trees that decode as declared, and no other |
| Replay of short reports (`src/shortreport.c`) | the entries compiled in, the first failure | entries of both tables, every length, one line to type again | the line is typed on a tree with other rows | the line names the same row, case and length |
| Descriptor tools (`emu/gen_desc.py`, `tools/hiditems.py`, `add_descriptor.py`, `lift.py`, `instrument.py`, `corpus_table.py`, `check_constants.py`) | byte strings, the globals of a descriptor and those pushed | item walking, dump reading, rewriting and measuring of reports | long and truncated items, Push and Pop, lines half read | what is emitted is what was read; a rig's reports have the declared lengths |
| Pointer bench (`emu/pointer-bench.html`) | bounded point, log and rate buffers, tallies per axis, button and key | pointer events, frames, Reset | buffers trimmed by events and by frames, emptied between the two | what is read off the page is what came since Reset |
| Makefile, CI, headers | build rules and declarations | none at run time | none | out of scope |

Interactions: the emulators reach DeskHop only over USB; the probes link DeskHop's
own sources against `stubs.c` and the recorders; `ratchet.py` runs the probes as
processes and reads the tables they print; `gen_desc.py` reads the corpus the
probes use. No two threads share memory anywhere; concurrency is between the
firmware's loop, USB callbacks made from inside that loop, and the host, and
between a probe and the child it forks.

## Sleep/Wake rig

`SleepWakeControl` is `control.c` without variables: the record and one operator for
each function or stretch of `sleepwake_task`. `SleepWake` adds the firmware's loop,
its callbacks, the clock and the host:

| action | code |
|---|---|
| `PollOffline`, `PollWakes`, `PollSubmits`, `PollQuiet` | one pass of `main` that reaches `sleepwake_task`, by the way the task ends; each runs the whole task (`Observe`, then sending) |
| `Mount`, `Unplug` | `tud_mount_cb`, `tud_umount_cb` |
| `ReportComplete`, `ReportFails` | the two transfer callbacks |
| `Tick` | the millisecond clock |
| `HostReads`, `Suspend`, `Resume`, `BusReset` | TinyUSB and the host, outside the repository |

The button is not a variable: each poll samples any level, so every bounce pattern is
explored. `tud_hid_ready()` answers for the endpoint being idle; its other reasons
to say no and a refused `tud_hid_report()` are one choice, since the code does the
same after both. The return value of `tud_remote_wakeup()` is ignored by the code, so
a host that denies wakeup differs only in `signalled`.

`SleepWakeHistory` measures real durations beside the wrapped timestamps.
`GestureDelivery` is the abstract promise: a sequence of waiting reports, taken one at a
time. `SleepWake` refines it, with `Undelivered` (the ring's contents, less a report
the host has read whose completion is pending) as the sequence.

### Assumptions about the world

* TinyUSB hands over events in order, so a completion is processed before a later
  suspend or reset. A reset or unmount aborts the transfer.
* Resume signalling and the idle time before another suspension (over 20 ms) outlast
  the gap between polls, so the loop sees the bus awake in between. This is the guard
  `~state.was_suspended` of `Suspend`.
* In `SleepWakeHistory` only: the button is not held for as long as the clock's
  period (49.7 days); `MaxPressMs` names that bound.

### Runs

| run | question | bounds |
|---|---|---|
| `sleepwake_delivery` | is every report delivered once, in order, released, and consistent with the endpoint, whatever the host does? | the real four slots, all host behaviours, a clock of period 4 with threshold 2: enough for every order of the deadlines, since delivery depends only on which gestures are queued |
| `sleepwake_fair` | do queued reports get through, and does a queued Wake wake the host? | the four slots and every host behaviour but denial; no debouncing and a clock of period 2, which leaves the length of a press, and so which gesture it is, to the wrap: only what is queued matters here |
| `sleepwake_gestures` | do timestamps and flags decide as real time would? | two slots; debounce 2, threshold 4, period 8, gaps between polls of 1 or 2: the clock wraps inside presses, and each threshold is met exactly, narrowly missed and skipped over |
| `sleepwake_wake_dropped` | does a Wake tap while suspended always leave a Wake queued, as the comment says? | violated: see Findings |

Fairness: the loop and the clock run (`while (true)`, nothing blocks), TinyUSB delivers
completions, a host asked to resume resumes, and, as strong fairness, a host that is
repeatedly offered a report reads it and a submission repeatedly tried is accepted. The
user owes nothing, and neither does a host that suspends or resets.

### Proofs

`SleepWakeProofs` proves, for every even `QueueSize`, every timing satisfying
`TimeAssumption` and every `HostActs`, the invariants the delivery run checks, and the safety
of its refinement. The inductive invariant `Inv` couples the three places a report passes
through: the ring's parity layout (`QueuePaired`: even slots hold presses, odd slots
releases, the tail is even), `in_flight` with the endpoint, and the host's key with
`current` or the transfer just read. `NoStuckKey` alone is not inductive: that a
release follows says nothing about the reports behind it. Each piece of
`sleepwake_task` has a lemma that it keeps the layout and leaves the head alone
(`KeepsHead`); the step proof has one case per action. `OneLap` and `SlotOf` do the
modular arithmetic. `RigDelivers` is the refinement: every step of the rig is a step of
`GestureDelivery` or a stutter. `Waiting(c, k)`, the ring from its `k`-th report on, carries the
argument: reading a report moves `Undelivered` from `Waiting(state, 0)` to `Waiting(state, 1)`,
and its completion moves it nowhere.

The second half of `SleepWakeProofs` proves, for every timing, what the 32-bit timestamps and the flags say
of real time: the sent command is that of the press's real length (`TrueLengthDecides`), the
Sleep indication keeps its word (`LedPromiseKept`), no gesture without a button seen at rest
(`GestureNeedsRest`), debouncing both ways (`DebouncesBothWays`), and one request per suspension or
tap (`WakeupsAreOwed`). Its invariant `Clock` says when a wrapped difference is the real one:
`changed_at` times the level until it has long settled, `pressed_at` the press in progress, and a
sample that disagrees with the stable level was too young at the last poll. Two assumptions keep
every difference the code looks at below the clock's period: `PressAssumption` (above) and
`SettleAssumption`, that debouncing and two gaps between polls do (20 ms and 10 of 49 days).

Model-checked only: the liveness properties; fairness is beyond the prover.

### Findings

`sleepwake_wake_dropped`: two Sleep gestures the host has not read fill the queue and
the host suspends. A Wake tap is dropped by `enqueue` (`control.c:29`), and no Wake is
queued, so nothing asks the host to resume, however often the user taps. The comment at
`control.c:74-76` and `emu/README.md:97-98` say the tap requests resume. The rest of
the behaviour, one request per suspension or tap and retry while a Wake is queued, holds.


## Ratchet

`Ratchet` models `tools/ratchet.py` as a lifecycle of one baseline file beside a tree that
commits change: `Record` (whole, or `RecordCutShort` by a full disk), `Check`,
`CheckRefused`, and `MergeByHand` for a baseline two branches both recorded. The
measurement is what `read_fuzz` and `read_sweep` let through: `Measured` leaves any lines
of the sweeps' output unread, as a changed output format would, and keeps the sums that
the code compares. `compare` is the operators `Shape`, `Worse`, `Improved` and the verdict
`Passes`, its advice `Advises`. One sweep stands for both (their keys never meet) and one of
fuzz's two totals for both. A crash or a timeout of a probe ends `ratchet.py` with nothing
written: no action.

| run | question | bounds |
|---|---|---|
| `ratchet_pass` | does exit 0 speak of the tree itself; does what is recorded add up by entry and by kind, whatever lines of the sweeps went unread; does recording settle the check and never hide a rise in the total? | two entries, two kinds of failure, two (N, SEED) pairs; lengths 1 or 2, at most one failure in an entry, fuzz's total 0 or 1: entries and kinds come, go and trade places, and totals offset each other |
| `ratchet_advice` | is `make baseline` never named beside a count that rose, as the README and the comment say? | violated: see below |

**Finding.** `compare` looks at an entry's failures only while its number of tried lengths
stands (`ratchet.py:257-260`). An entry whose descriptor grew and now fails is listed under
CHANGED SHAPE alone; if another entry fails less by as much, no kind rises either, and the
result names `make baseline` (299). README.md:79-80 promises advice "never beside a count
that rose". What does hold, and `AdviceKeepsTotals` checks it: the total cannot rise behind
such advice.

### Proofs

`RatchetProofs` proves the three properties of `ratchet_pass` for every finite corpus and set of kinds
and every bound on the counts. `WholeOrNothing` carries them: what `read_sweep` lets through is the
whole table. Rows that go missing lower a sum, since every entry is tried at some length and every
kind listed counts some failure (`RowsTold`); and the two sums the code compares with the one summary
line agree because failures counted by entry and by kind are the same failures (`BothWays`, from
`SumEitherWay`). The library's `SumFunction` adds in an order it chooses: `FoldTable` gives it as
a table over subsets, `SumTakesOut` shows that the order does not matter, and the rest of what is known of
sums follows by induction on subsets. These lemmas are in `ProofLemmas`, which holds what several proof
modules use: induction as membership of a set, and sums over finite sets. The invariant `RatchetInv` says that what the last recording
meant to leave is what some tree counted, that the file holds a part of it unless two of its rows
share a key, and that a verdict was reached on the file and the tree as they are. Nothing need be said
of which part a cut left: `Shape` catches what is missing. The proofs assume what
`RatchetAssumption` says: entries, kinds and fuzz's own key are different names. The theorems are
`PassSpeaksOfTheTree`, `RecordingSettles` and `AdviceNeverRaises`.

## Forked runs

`ForkedRun` is `truncate.c`'s loop over `support.h`: the parent and the child interleave
freely between `fork` and `waitpid`, over a pipe that fills. The child's program is any
output, ended in any way or never. Actions of the parent: `Exec`/`RunAsIs`
(`sweep_unsymbolized`), `Fork`, `CallFails`, `CloseWriteEnd`, `Read`, `ReadEof`, `WaitClean`, `WaitFailed`
(`run_forked`, `classify_failure`, `tally_add` and the loop), `Report`, `Replay`, `Replayed`
(`sweep_repro`); of the child: `SetsAlarm`, `Writes`, `Ends`, `AlarmFires`.

`shortreport.c` runs the same loop and adds `SkipUnfit`: a row whose length its device could not
have sent is not replayed, is named, and fails the run (`bad_cases`). `worst` is the first case that
failed, the one that is reproduced at the end. `ExitStatus` is what `main` returns; `truncate.c`
has no `unfit` and returns the same of the failures alone.

`forked_sweep` runs four cases, any of which may be unfit, over a pipe of two chunks, two chunks
kept of what a child prints, and a tally of three slots, so that the pipe blocks, the parent's
buffer overflows and the tally reaches its "other kinds". Output is a sequence of up to three
chunks; a chunk that carries a sanitizer's error line is never in an output that ends well, because
the probes are built with `-fno-sanitize-recover=all`. `TallyFaithful` compares the tally, the case to
reproduce and the exit status with what really failed. Fairness: both processes run and
`alarm(2)` fires; nothing makes the case under test end by itself, so that the sweep ends rests on
the alarm alone.

`Sweep` is what a reader of the summary is promised, without processes: cases are settled one by
one and in order, each passing, failing or skipped once; failures are counted and the first
remembered; then an answer comes, `clean` only over no failure and nothing skipped, or the sweep
gives up and has none. `ForkedRun` refines it (`ImplementsSweep`, safety and the answer in the end),
with `bad`, `worst` and `unfit` as what `Sweep` keeps. `GivesUp` is `CallFails`: a `pipe`, `fork` or
`waitpid` that fails, where the code exits with 3; no fairness makes one fail. A `read` that fails
for anything but a signal is not modelled: `read(2)` on the pipe the parent has just made knows no other
error, and the code would take it for the end of the output.

### Proofs

`ForkedRunProofs` proves `TypeOK`, `ForkedIsSweep` and `TallyIsFaithful`. For every number of cases, every output, and every size of the pipe, of
the text kept and of the tally, `TypeOK` holds and every step of `ForkedRun` is a step of `Sweep` or a
stutter (`ForkedIsSweep`). `TypeOK` is inductive as it stands: it bounds `bad` and `worst` by the
cases behind the loop, which is all the refinement needs. `BetweenKeepsCounts` carries the argument:
of seventeen actions eleven (`Between`) move nothing `Sweep` sees. That the answer comes needs fairness
and is left to TLC.

`TallyIsFaithful` proves `TallyFaithful` from two more invariants. `OutputInv`: what the child wrote
is what was read, followed by what the pipe still holds; of the first part the parent has kept all
it has room for; and it waits only for a child that is gone, with the pipe empty. So by the time
`classify_failure` runs it judges by all the child wrote (`AllRead`). `Ledger` strengthens the tally's
part by what `tally_add` relies on: while the last slot is free, every failure is under its own
name. Each of the four ways of `TallyAdd` has a lemma. The sum is a function defined by recursion
on the slots: that it exists, and what one more does to it (`OneMore`, `NewSlot`), is by
induction, which here is on membership of a set (`SetInduction` of `ProofLemmas`), since the
library's induction theorems take an operator.

## Device rigs

`RigBus` is what the four rigs share: mount state, one IN endpoint per interface, and the
environment (mount, loss of the bus, suspend, resume, collection by the host). All deadlines
are 64-bit and only ever asked whether they have passed, so `waiting` stands for one.
`PointerPath` holds the circle and scroll tables exactly as they are in `emu/main.c`.

| module | actions and the code they model |
|---|---|
| `KeyRig` | `Sends`, `Refused`: `device_task` and `send_burst` of the keyboard rigs; `HostCollects` keeps the host's key state per report ID |
| `RigLed` | `Flash`, `DarkGap`, `Holds`, `Yield`: the branches of `led_task` |
| `KeyboardRig` | composes the two: `PassSends`, `PassIdles` are one pass of the main loop, `device_task` then `led_task`, with TinyUSB's events between passes; the endpoint opens some time after the mount, or never |
| `GameballRig` | `Circles`, `Scrolls`, `Refused`: the branches of `device_task` |
| `SculptRig` | `Circles`, `Presses`, `Releases`, `ScrollSkipped`, `Scrolls`, `Key`, `Pauses`, `Refused`: the five phases; `SetProtocol` is the host's |
| `PointerRigs` | the two rigs that move a pointer over one bus: a build is one of them, so a behaviour is one or the other |

The host's `pointer` and `pads` sum every move that has left the endpoint, applied or lost with an
enumeration; with what still waits there they must make up exactly the step the rig stands at. The Sculpt's
scroll deltas are kept one by one (`scrolled`, with the waiting one `Burst`): they are the first `i` of the
burst while it scrolls and the whole burst after it. Its code leaves the scroll phase as soon as it finds
the mouse in boot protocol, which has no wheel; so a `SET_PROTOCOL(boot)` in the middle of a burst does skip
the rest of it. The history `cut` remembers that, and then what was sent stays the burst's first `i`
deltas (`BurstDue`).

A refused `tud_hid_report()` may happen at any time; `Ready` is TinyUSB's ready test. The
endpoint never being configured is the LED's code 3, kept because the code asks for it.

| run | question | bounds |
|---|---|---|
| `keyboard_rig` | can a key stay down, a burst be skipped or repeated, an LED code be shown in part, a stopped rig fail to say why? | two resets: one in the middle of a burst and one after it; the bitmap of 120 usages, of which the script's are all below |
| `pointer_rigs` | on either rig: is every delta of circle and scroll burst applied once, pending once or lost once, boot protocol cutting a Sculpt's burst short and nothing else doing so; does a button or key stick, a cycle lose a click, the positive control stop, whatever SET_PROTOCOL and the bus do? | three revolutions of 48 steps, as in the code; one reset, at any step; either protocol, changed at any time |

Fairness: the loop and the clock run, a report that is offered again and again is taken
(strong fairness, because suspension and refusal may interrupt it), and an awake host
collects what is pending. A host owes no resume: `KeysComeUp` and
`RigsKeepGoing` are for a host that is awake again and again, and `SaysWhy` for one that stops.

### Proofs

`KeyRigProofs` proves `DownMeansReleaseFollows` for every bitmap size and every number of
resets. Its `Inv` adds `PendingIsLatest`: what waits in the endpoint is the press of the burst
the rig stands in, or the release of the one before. Without it nothing ties the report
the host collects next to `step`, and the property is not inductive: a release of the wrong
collection could be pending. `LoopIsTheRig` shows that the main loop of `KeyboardRig`, with its LED and
its late endpoint, implements `KeyRig`, so `LoopReleasesFollow` carries the result over.
`LineInOrder` proves `TypesInOrder`, and `LoopTypesInOrder` carries it to the main loop: `TypingInv`
adds what the host saw pressed last: the burst the rig holds, once that press is collected, and the one
before it otherwise (`LastSeen`). It assumes `BitmapHoldsScript`, a
bitmap with room for the keys the script presses: `NkroBits > 56`, where the two devices have 120 and 152.
`WholeGroups` proves `GroupsAreWhole` of the LED: within a group the flashes are half the phases
gone by, and the phases end at twice the latched code (`Group`).

`PointerRigsProofs` proves the three safety properties of the pointing rigs for any number of resets
and revolutions. `EachDeltaOnce` rests on `AlongSteps`, that each step of a path adds one delta
of its table, whatever the table, and on the circle's and the burst's closing, which is computed; for the Sculpt's burst on `NextOfBurst`, that a
step of it appends its next delta, and `NotYetCut`, that a
rig still in its clicks or its burst has not cut it short.
`SculptInv` adds what `NothingStuck` and `FiveClicks` lack to be inductive: a press pending in an
endpoint is that of the phase the rig stands in (`PressPending`), and the buttons clicked so far
are those up to the rig's own index (`ClicksSoFar`). Both invariants assume `Empty` is not a
report, as the run's model value is not.

## Fuzz generator

`FuzzGenerator` follows `generate()` of `src/fuzz.c` by the bytes it writes, every random choice
left open, and `main`'s counting by `dbg_touch` and its per-descriptor flag. `fuzz_generator`
checks a buffer of 40 bytes with the code's own margins (16 for the loop, 8 within a run):
runs of 12 usages cross both. Three descriptors are enough for a flag or total left over
from one to reach the next. The run sets `CHECK_DEADLOCK FALSE`: the program ends.

`FuzzGeneratorProofs` proves both properties for every buffer of at least 24 bytes, every
number of items, every length of run and every N. Between items
and inside runs seven bytes are always left, which is what a run's bound of 8 and the
loop's of 16 both guarantee; `Fits` says so, and `InsideBuffer` alone would not survive the closing
bytes. For the counts, `Tallied` ties `badOnes` to the accesses `Counted` so far: those before the
present parse while one is under way, all of them otherwise.

## Parts that run on their own

Nine parts share no state with each other or with anything above. `Standalone` makes a
behaviour one of them, so that one run explores all nine; no property relates two. The firmware
under test is outside the repository, and the suites that judge by rules leave it as free as its type
allows: a suite that is right whatever it judges is right about any DeskHop. The two that judge by
tables of worked answers are as good as the tables, so there the tables are the source's own
and the firmware is one that decodes as declared, or with one fault of a list.

| module | actions and the code they model |
|---|---|
| `ControlSuite` | `NextDevice`, `RowUnfit`, `RunRow` (`run_once`), `Send` (the recorders), `ReturnsLocal`, `ReturnsRemote`, `Judge` (`row_ok`, the running count by branch), `Exit`: `cctest.c` over `recorders.c`. The receiver may send anything, any way, up to `MaxCalls` times, and remember what it likes |
| `DispatchSuite` | `NextCase`, `Route` (`hid_route`), `Misrouted`, `NotProbed`, `Probe` (`routed_by_luck`), `Return`: `dispatchtest.c` over `routing.c` and the receivers of `stubs.c`. The callback is any function of the first byte and of the interface slot, clean or left over |
| `KbdSuite` | `Build`, `RunKbdRow`, `ToSlots`, `CheckSlots`, `KExit`: `kbdtest.c`. Decoder, claims and `get_keyboard` are arbitrary; the tree is its number of fixes, 0 to 3, since each fix builds on the one before it |
| `KbdTable`, `KbdCases`, `KbdDescriptors` | the same suite on its 40 entries, 29 tables and 38 keyboards: `Probed` (what the Makefile found in the tree), `RunEntries` (`run_device`). Descriptors are reduced to the fields of their reports; reports and answers are byte for byte. The firmware decodes as tree 0 to 3 of the lineage the comments of `cases_kbd.h` describe, with either walk bounded or not, and with no fault or one of sixteen (13 of them on every tree): a fix left out, six keys cut to five, a bitmap's last bit or its offset lost, padding uncounted |
| `MouseSuite`, `MouseCases`, `MouseDescriptors` | `BuildMouse`, `RunDevices`, `RunButtonFallback`, `RunShortReports`: `mousetest.c` on its 29 entries, 23 tables and 30 descriptors, reduced in the same way. Trees have or lack each of the four gates, and no fault or one of eighteen, and four more that only a tree with a gate can have |
| `ReplayLine` | `Compiled`, `RefusesTables` (`build_entries`), `Begins`, `SkipsCase`, `Replays`, `NextEntry`, `Summary` (the sweep), `Retyped` (the line printed for the first failure, on this tree or one with other rows), `TypesOwn` (any line): `shortreport.c` around the forked run |
| `PointerBench` | `MouseMove`, `WheelTurns`, `MouseDown`, `MouseUp`, `KeyDown`, `Paint`, `Reset`, `TimeGoesBy`: the listeners, the frame and the button of `pointer-bench.html`. `ledger` is a history of what came since Reset |
| `PastedDump` | `ReadName`, `ReadLine`, `EndOfText`, and the four ends: `parse_hex` and `main` of `add_descriptor.py`. A line is what the regular expressions tell of it. What `sanity()` and `duplicate_of()` answer is left open |
| `RigDescriptor` | `Write` (a corpus entry), `Generate` (`gen_desc.py`: both rewrites, `input_reports`), `Asked` (`tud_hid_get_report_cb`). Bytes are real: `Walk` is `walk_items`, and its results are compared with an independent reading of the items the bytes were written from |

| run | question | bounds |
|---|---|---|
| `standalone` | is each verdict earned by the rows it speaks of; do the tables pass every tree that decodes as declared and fail every other; does the line to replay bring back its failure; is a printed entry the dump; does a rig present its corpus entry and answer GET_REPORT with what it declares; does the bench read what came? | three table entries in `ControlSuite`, two payloads, two sends a report: a row, a row after it, a device in between, and a second send; three rows of `DispatchSuite`: a row, its probe and a row after both; two rows or slot checks of `KbdSuite`, three keyboards as in `MAX_KEYBOARDS`; the mouse and keyboard tables whole; for `ReplayLine` two table rows, which may share a descriptor, be in boot protocol and be gated, with one or two cases that fit, fall below the floor or run past a `report[]` of three bytes; for the bench three events after Reset, two samples and two log rows kept, a window of 1 in a time of 2: each limit is met and passed; four lines of up to four bytes, with `MIN_BLOCK` 4 as in the code: a run kept, one dropped and what parts them; four items after the preamble, out of twelve: a Push, a change, an Input and a Pop; requests for any ID or none, that cut a report or do not |
| `paste_unread` | is a data line with a field no byte can be read from always refused, as the tool's comment says? | violated: see below; three lines |

The two payloads of `ControlSuite` are symmetric: it compares them with one another and no more. The run sets `CHECK_DEADLOCK FALSE`: each of them but the bench ends. Nothing here has fairness: nothing
waits.

Assumptions: TinyUSB writes the ID a GET_REPORT names in front of the buffer it hands to the
callback; items of a corpus entry are whole (the bytes end with an item), as `sanity()` warns
otherwise. `ReplyAsDeclared` speaks of IDs that are bytes and of reports shorter than 64 KiB, as HID has them: the model
keeps the code's `uint8_t` and `uint16_t` (`FirstId`, `Narrow`), which wrap past that.

### Proofs

`StandaloneProofs` proves eight of the ten invariants of these parts, without the bounds
on rows, sends, lines, events and items that the run needs. `VerdictEarned` (`cctest.c`): the running set `obeyed` is, until something fails, exactly the branches
that no answer so far has told from the firmware (`ControlInv`, `Unrefuted`); a row that the two
branches answer alike refutes neither. `RowsJudgedAlone` (`dispatchtest.c`): between a row's
beginning and its judgement the suite's counts are behind the true ones by this row and no other
(`DispatchInv`). `KbdPassEarned` (`kbdtest.c`): while nothing has failed nothing has gone wrong, and a tag is
earned by a column of the row's own (`TagIsEarned`). `NothingLostInPasting` (`add_descriptor.py`): until
there is a note or an error, the bytes kept and those of the run still open, put together, are what the
lines so far should leave (`DumpInv`); a run that is dropped leaves a note, and one byte unread an error.
`FlattenAppend` is the step: a line more adds its own fields behind the others.

`BenchReads` (`pointer-bench.html`) holds for every size of the path, of the log and of the rate's
window, and any sequence of events, frames and Resets. `BenchInv` says of each number on the page what
it is of `ledger`: a count of places in it, a sum over them, an extreme, its latest rows. `WhereGrows`
and `SumFunctionIs` say what one more event does to such a number. Painting only copies, but the log
on the screen may be older than `logRows` only while `dirtyLog` says so.

`LineReplays` (`shortreport.c`) holds for any tables, floors and case lengths within
`ReplayAssumption`. `ReplayInv` gives the counts as sums over the cases walked so far (`WalkedTo`), and ties the line
to the first case that failed (`LineTold`); `SelectGood` shows that whatever is typed, what runs is a case
above its floor and within `report[]`, and `FindIsARow` that a bare name is taken only where one row
has it.

`RewritesAsAsked` (`hiditems.py`, `gen_desc.py`) proves `OnlyWhatWasAsked` for every vocabulary of short
and long items and corpus entries of any length. `DescInv` is short: the bytes are those of the items
until `Generate`, and then those of the items as rewritten. The work is below it. `ReadsItem`: from the
bytes of an item, wherever they stand and whatever follows, `walk_items` reads that item and ends where
it ends, which for a short item is little-endian arithmetic and for a long one is skipping its data.
`WalkReads` follows by induction: the walk yields the items, each at its offset. Then `Normalises`, and
`AxesFixed`: up to item `k` the bytes written are the pieces so far, and what `fix_signed_axes` holds is
the last minimum and maximum (`AxisInv`). The recursive functions of the model are shown to exist, and to
agree with their defining equations, by `RecursionExists`.

`RepliesAsDeclared` (`gen_desc.py`, `usb_descriptors.c`) proves `ReplyAsDeclared` for the same entries, any
flags and any requests. The property reads the items without a stack; the code has one, and adds up bits as
it goes. `Ran(F, items)` is `input_reports` run on the items themselves, state by state; `ReportsOfRig` shows
that on the rig's bytes it ends with the same reports, since what is rewritten is nothing it minds.
`StackTold` then says what is on the stack after each item: as deep as the Pushes still open, each entry the
globals in force before the Push that left it. So `SettingTells`: what the code has in `now` is
the last value no Pop has undone. `BitsTold` is the invariant of the sums: one entry for each ID an
input has had, holding the bits of all of them so far, and the first input's ID first. The rest is the
callback: `FrontedTrims` says that the ID TinyUSB wrote, in front of what fits into one byte less, is the
report trimmed to what was asked for, and `SentFits` that nothing that fits its width is narrowed.

The two suites' tables (`KbdTable`, `MouseSuite`) are left to TLC.

**Finding.** `add_descriptor.py:251` says data lines with a field no byte can be read from each have
to be refused. A line whose every field is unreadable holds no byte, so `parse_hex` takes it
for prose before it counts what it could not read: with data on both sides, long enough to be
kept, the entry is printed with the line missing and no warning. What does hold is
`EntryIsTheDump`: a field cannot go missing from a line that has a byte in it.

## Plan

The order is by how much the rest of the harness leans on a part. Done: Sleep/Wake, the
ratchet, the forked sweeps and what they promise, the rigs, the fuzz generator, the suites'
verdicts and their tables, the line to replay, pasted dumps, a rig's descriptor, the pointer bench.
Next:

1. GET_REPORT of `RigDescriptor` beside the rigs: the reports they send and those they answer with
   have one length.
2. `instrument.py`'s groups of sites: a site that no longer matches beside one of its group
   that does.
3. `lift.py`'s choice of what it takes from the firmware.
4. `PastedDump` as the environment of `Ratchet` in place of `EditEntry`.

Each of these joins a run that exists, so that the number of runs stays small.

Abstract specifications: `GestureDelivery` for Sleep/Wake and `Sweep` for the forked sweeps
(both refinements checked, and their safety proved). To come: the recorded table as an upper
bound on the tree's counts, refined by `Ratchet`.

Theorems to prove next: those of the parts above. Of what is modelled now, the safety properties left
to TLC are two finite tables.

## What is proved and what is only checked

Proved for every value of the constants: the five invariants of `SleepWake` and its refinement of
`GestureDelivery`; the five history properties of `SleepWakeHistory`; the three of `Ratchet` that hold;
the three safety properties of `ForkedRun` (its types, the tally, and that its steps are those of
`Sweep`); the safety properties of the four rigs, the order in which the keyboards type included, and of the LED; both properties of the fuzz generator; the verdicts of the control,
dispatch and keyboard suites; what is printed of a pasted dump; the line to replay; what the bench reads; what a rig presents of its corpus entry and answers GET_REPORT with. The assumptions are those the modules name, which TLC evaluates in
every run. Only model-checked: all liveness, which the prover's want of fairness leaves out (`KeysComeUp`, `SaysWhy`,
`RigsKeepGoing`, `DeliversGesturesFairly`, `QueuedWakeResumesHost` and the liveness in `ImplementsSweep`), and two invariants of the
parts that run on their own: the tables of `KbdTable` and `MouseSuite`, which are finite and checked whole: TLC's answer about them is the answer, for the faults listed.

## Not modelled

* DeskHop's own parser, decoder and routing: outside this repository. The probes drive it; where a
  model needs it, it is any answer.
* `exhaust.c`, `timing.c`, `dump.c`: they print what DeskHop's parser makes of a descriptor, or how
  long it takes; no verdict, no state.
* Interfaces of the corpus no decode table uses, and the tables of `cctest.c` and `dispatchtest.c`,
  whose rows are any rows in `ControlSuite` and `DispatchSuite`.
* `lift.py`, `instrument.py`, `corpus_table.py`, `check_constants.py`: text in, text out; the first two
  are planned above.
* Drawing, roundness, radius and aspect of the pointer bench: arithmetic on samples, kept nowhere.
* `bootsel.c`: register access with interrupts masked; the button is any level at any poll.
* Static descriptors, strings, printing, Makefile, CI.
