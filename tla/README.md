# pigeond in TLA+

pigeond is a tap device whose other end is a slow, physical link: Ethernet frames
leave as QR codes on paper, as lines of a file on a USB stick, or on the console, and
come back through a camera or another USB stick. This directory holds TLA+ models of
the program, the TLC configurations that check them, and proofs checked by TLAPS.
File names and line numbers refer to `src/src/pigeond/`.

## Inventory

| Component | State | Operations | Used by | Model |
|---|---|---|---|---|
| `pointer_fifo.c` | `buffer`, `head`, `tail`, `size` | new, push, pop, clear, count, is_empty, is_full | frame pipe | `PointerFifo` |
| `pigeon_frame_pipe.c` | per direction a fifo, `fifo_mutex`, `write_cond` | push, wait, has_next, pop, try_pop, reset, update_ui | tunnel, link modules, controls | `FramePipe`, `FrameChannel` |
| `pigeon_frame.c` | a malloc'ed frame: header, data, sizes | new (with padding), free, getters, print | everyone who handles frames | `FramePipe`, `Encodings`, `Texts` |
| `pigeon_tunnel.c` | tap fd, two LongThreads, MTU | read loop (filter, push), write loop, init, set_mtu, start, stop | main | `FramePipe`, `Program` |
| `pigeon_link.c`, `pigeon_linkmod.c` | the chosen tx and rx link modules | init (first available), start, stop, frames_push, frames_pop | main, link modules | `Program`, `FramePipe` |
| `linkmods/` console, printer, camera, null | a LongThread each, device handles | one loop each | link | `FramePipe`, `Program` |
| `linkmods/linkmod_files.c` | `transfer_complete`, path, base64 context | tx loop, rx loop | link | `LinkmodFiles` |
| `beagle_controls.c` | a LongThread | poll the joystick, reset the pipe | main | `UserInterface`, `FramePipe` |
| `long_thread.c` | `thread`, `thread_stop`, `finished`, `thread_mutex`, callbacks | new, start, stop, join, is_running, thread function | every thread but playback | `LongThread` |
| `command_server.c`, `command_runner.c` | UDP socket, buffers, command table | datagram loop; `help`, `stop` | main | `Program`, `Texts` |
| `main.c` | all of the above | start in order, seccomp, join, stop, free | - | `Program` |
| `pigeon_ui.c`, `beagle_display.c`, `fsd_char.c` | display text, flash text and timer | set count, set flash, action; multiplexing loop | pipe, controls, link modules | `UserInterface`, `Texts` |
| `debounce.c`, `beagle_joystick.c` | press state and time; pins | debounce_action, read pins | ui, camera | `UserInterface` |
| `audioMixer.c` | slots for sounds, playback thread | queue sound, fill a buffer | ui | `UserInterface` |
| `base64.c`, `printer.c`, `barcode_decoder.c` | - | conversions between frames and media | link modules | `Encodings` |
| `util.c` | - | times, paths | debounce, ui | `UserInterface` (times) |
| `gpio.c` | - | sysfs reads and writes | joystick, display | - |
| `pdf417lib.c` | - | third-party encoder, not built | - | - |

How they interact. Up to nine threads run: main, command server, controls, display,
playback, tunnel read, tunnel write, link tx, link rx. Frames pass between them as
pointers through the two buffers of the frame pipe; each push, pop and reset also
updates the number on the display. Threads report actions to the user interface,
which flashes a text and may queue a sound. The controls thread empties both buffers
when the joystick is pressed. All threads but playback are LongThreads: main starts
them, waits for the command server to end, and stops them one after the other.

What is hard: ownership of frames across threads with a reset at any moment; the
condition variable, used without the mutex discipline it needs; the start and stop
protocol when callbacks or `pthread_create` fail; loops that block and so never see
`thread_stop`; a device that is pulled out in the middle of a transfer; a timer
written without a lock; a millisecond counter that wraps. `PROJECT.json` lists the
hazards line by line.

What makes the components correct: a frame has one owner and is not used after free;
frames come out in the order they went in and are lost only to a full buffer or a
reset; no frame the filter rejects leaves; a waiting reader gets the frame it waits
for; one live thread per LongThread object, bracketed by start_fn and stop_fn; a frame
popped for a transfer arrives at the other station, once and in order where nothing
fails; nothing is released under a thread that uses it; a press is answered, and once;
what is written on a medium is what is read from it.

## Modules

| Module | What it is |
|---|---|
| `PointerFifo` | the ring buffer: one operator per function, and `Contents`, the sequence a ring buffer stands for |
| `FramePipe` | the frame pipe and its five threads; uses `PointerFifo` |
| `FrameChannel` | the abstract specification: two bounded FIFO queues with loss on overflow and reset |
| `MCFramePipe` | headers and symmetry for TLC |
| `LongThread` | one LongThread object, its callers and the pthreads it creates |
| `LinkmodFiles` | two stations and the removable device between them |
| `Program` | main with all LongThreads, from the first start to the end of the process |
| `UserInterface` | button, controls thread, reported actions, display timer, playback |
| `Encodings`, `Texts` | pure functions: base64, padding, QR code to paper and back; commands, dump of a frame, digits |
| `Algorithms` | inputs for these and the properties of what they compute |
| `*_proofs` | theorems about the module they are named after |

### FramePipe

`fifo` is the pair of ring buffers, `heap` the allocated frames (address to header),
`held` the frame in each thread's local variable, `pc` where the thread is, `count`
and `display` the two halves of `_pigeon_frame_pipe_update_ui`. A step is a section
under `fifo_mutex`, a call on `write_cond`, or thread-local code:

- `TunnelRead`, `TunnelAllow`, `TunnelReject`: `_pigeon_tunnel_read_thread_loop`. A
  read error or an oversized frame returns to the start of the loop with nothing
  changed, a stuttering step.
- `LinkReceive`: the files or camera loop has decoded a frame.
- `Push`, `Signal`, then `UiCount`, `UiShow`: `pigeon_frame_pipe_push`.
- `HasNext`: the look of linkmod_files before it pops.
- `ReadIsEmpty`, `CondWait`, `SpuriousWakeup`: `pigeon_frame_pipe_wait`. The test and
  the call of `pthread_cond_wait` are two steps, since the mutex is released between.
- `TryPop`, `UiCount`, `UiShow`, `Use`: the rest of pop and what the reader does.
- `ResetTx`, `ResetRx`, `UiCount`, `UiShow`: `pigeon_frame_pipe_reset`.

`write_cond_mutex` is not in the state: writers never lock it and each buffer has one
reader. A frame whose push failed leaves `held` when the loop function returns and
stays in `heap`, as do the frames linkmod_files has written and those a reset forgets:
these are the leaks of the code. The constants `LinkTx` and `LinkRx` choose the loop
shape: `"console"` stands for the printer too, `"files"` as receiver for the camera
too. Frames are addresses with a header of two fields, the only ones the filter looks
at.

### LongThread

`thread` is the handle (the number of an instance, or 0), `inst` where each created
pthread is, `joined` whether it was joined. `start` and `stop` hold `thread_mutex`
over several steps (`StartBegin`, then `StartCreate`, `StartCreateFails` or
`StartRefused`; `StopBegin`, `StopJoin`, `StopEnd`), the thread function's steps
(`Test`, `LoopContinue`, `LoopStop`, `Finish`) fall anywhere in between. What
`pthread_create` leaves in the handle when it fails, and what `pthread_join` does
with a handle joined before, is undefined and is a choice. `setUp` and `started` are
observers: has start_fn run without a stop_fn since, and has start been called
without a successful stop since. `start_fn` says whether the object has one: Init
chooses, so that one run has both kinds of object. An object without a start_fn may be
started at any time, and `long_thread_start` refuses when it has a thread. For one with
a start_fn it does not: the result of start_fn replaces the error of line 52
(`long_thread.c:56`), a second thread is created and its handle overwrites the first,
which `NoOrphanThread` and `TeardownAfterThreadEnds` forbid. `StartsOnce` restricts the
callers of such an object to what main does: they start it when it is new or was
stopped. `finished` has a writer and no reset, as in the code.

### LinkmodFiles

A frame is its number in the order in which frames leave the tx pipe. `file` is the
frames file as programs see it, `disk` what is on the medium; a line is whole, torn (cut
before its newline) or garbled (a torn line with the next frame behind it). `tx` and
`rx` are the program counters and locals of the two loops, `pushed` what the receiver
pushed.

- The tx loop: `TxPoll` (opendir, and what it does with `transfer_complete`), then the
  rounds of `_push_to_frames_file`: the look into the pipe (`TxHasNext`, `TxNoFrame`),
  the pop with its wait (`TxWait`, `TxSpuriousWakeup`, `TxTryPop`), `TxOpen`, `TxWrite`,
  `TxLimit`, with `TimeLimit` for the clock, and at the end `TxUmount`. The joystick
  can empty the pipe between any two of these steps: a pop that then finds nothing
  sleeps until the next push, or returns NULL.
- The rx loop: `RxOpen`, `RxLine` for each line, `RxEnd` or `RxReadError`,
  `RxTruncate`, `RxUmount`.
- Around them: `FrameArrives`, `Writeback`, `Plug`, `Remove` (between transfers, all
  written back).
- Faults: `Reset`, the joystick; `Yank` at any moment, with every prefix of the appended
  lines, cut or not, or the old lines of an emptied file; a failing fopen or write
  (`"tx"`; a second cut line runs together with the first), read (`"read"`), umount; a
  file that cannot be opened again to empty it, and `RxRestart`, the receiving program
  stopped at any moment (both `"rx"`).

Assumed: Linux ignores `O_DSYNC` and `O_RSYNC` in `F_SETFL`, so that
`_fopen_with_sync` changes nothing; the frames directory exists while the device is
mounted; a device is not carried from one station to the other faster than the rx loop
notices that it is gone. A garbled line decodes to a frame nobody sent, is dropped, or
crashes the program through the length that `base64_decode` leaves unset. The lines are
short enough for the buffer of `fgets`; what happens to longer ones is in `Encodings`.

### Program

`pc` is main's place, `thread` and `thread_stop` each object, `linkmod` the chosen
modules, `joined`, `released` and `seccomp` what the name says, `txq` and `rxq` the
number of frames in the two buffers, `outcome` that of the process. Each call in main
is an action with its failure: `TunnelInit` to `StartLink`, `EnableSeccomp`,
`JoinServer`, then `StopBegin`/`StopJoin` per object in the order of main and of the
stop functions it calls, `CloseJoystick`, `TunnelFree`, `ControlsFree` and
`ServerFree`, which crashes: `main.c:147` sets `command_server` to NULL where
`beagle_controls` was meant. Each loop function has an action: the display and
controls loops return by themselves, those that pop need a frame, the tunnel needs one
from the tap device, the server a datagram.

Strict seccomp kills the thread of main that makes another system call, and nothing
else: the other threads go on. main makes one in a join that has to wait, and in a
stop_fn or free that closes a file or a socket (`KilledIn`, `CloseJoystick`); `Follows`
takes it to its next place or to its death. Inside a LongThread and inside the pipe the
steps are those of the two modules above; the lost wakeup is left out here, which can
only make more stops succeed. A failing ALSA write or a missing wave file exits the
process, and so does the camera thread when the files it leaves open use up the
descriptors.

### UserInterface

The clock `now` runs while the controls thread is at most `PollLate` late. The
difference of two times wraps at `2 * IntLimit`, as the int it is returned in.
`ControlsPoll` is one round of the controls thread: the pin (up, down, or undefined
when it cannot be read), `debounce_action`, and the reset. `Report`, `SetFlash`,
`queueSound` are the steps of `pigeon_ui_action` in any thread. `FrameTest`,
`FrameLoad` and `FrameStore` are the three accesses of the display thread to the timer
that any thread may write between. `fillPlaybackBuffer` is one buffer: `BreakAt` says
where its loop ends, sample read before the test included. The display struct is not
cleared after malloc, so the timer starts with any value; main's flash of "HI"
(`main.c:88`) is one of them. A pin file that cannot be opened makes the read of the pin
a NULL stream's: taken as an undefined value, where the program may also crash. The
mixer has one slot for a sound (`MAX_SOUND_BITES` is 1), `soundBites[0]`: a sound queued
while another plays meets a full table.

### Encodings, Texts, Algorithms

Bytes are numbers, buffers sequences; each function of the code is an operator
(`base64_encode`, `base64_decode`, `pigeon_frame_new` with the memory behind a short
buffer, `line_to_frame` with the line as `fgets` cuts it to its buffer, `cut_fields`,
`scaleByte`, `printer_printQRCode`, `get_tokens`, `find_string`,
`beagle_display_set_output_number`, ...). In a datagram the words `help` and `stop` and
the delimiter are characters of their own. The loop of `pigeon_frame_print_data` is an
action, one step for each turn (`print_turn`), and `dump` holds its variables and what
each turn printed; a carriage return in a string prints nothing, as in the code.
`SentRow` is a row as it goes to the printer, with what lies behind the bitmap;
`PrintedRow` is the part that has room on the paper. libqrencode, zbarimg, cut and fgets
are external and known by what the code relies on: the width of a code for a length, the
line of output, its fields, and a line cut to the buffer.

## Runs

| Run | Instance | Shows |
|---|---|---|
| `oneway` | ring of 3, 4 frames, one allowed and one IPv6 header, console, joystick | types, `SingleOwner`, `NoDanglingFrame`, `OnlyAllowedFramesLeave`, `IndInv` (the inductive invariant of the proofs), and that the pipe implements `FrameChannel` |
| `polling` | ring of 3, 2 frames, files in both directions, no joystick, fair | `PollingReaderNeverBlocks`, `PopReturnsFrame`, `SignalWakesReader`, `AwakeReaderDrains` |
| `thread` | 2 callers, 3 threads, with and without a start_fn, any callback and pthread_create may fail, join, fair | `ThreadInv`, `NoOrphanThread`, `TeardownAfterThreadEnds`, `SetUpWhileRunning`, `StopReturns` |
| `transfer` | 3 frames, 2 per transfer, 2 directory streams, 2 faults of any kind, resets among them, fair | types, `NothingLost`, `OnceInOrder`, `FileInOrder`, `MediumKeepsFrames`, `TransferEnds`, `DeviceIsReleased` |
| `lifecycle` | 4 kinds of station, buffers of 1, fair | types, `ReleasedAfterUse`, `SoundsLoadedBeforeUse`, `StopCommandEndsServer`, `FailedStartEnds` |
| `ui` | delays 3/2/2, an int that wraps at 6, time to 13, one reporting thread, sounds of 3 and 2 samples, buffers of 2, fair | types, `PressIsAnswered`, `ResetsAreSpaced`, `SoundIsWhole`, `FlashEnds`, `SlotIsFreed` |
| `algorithms` | all frames to 5 bytes over 4 byte values and frames of 1272, 1273, 1518 and 1519 bytes, all codes to 3 by 3 and single modules in 9 by 9 at scales 1, 2, 6 and 25 (too wide for the paper), datagrams to 5, data to 7, counts to 120, all frame sizes to the MTU | `FrameSurvivesFile`, `CameraKeepsFrame`, `FrameFitsEveryMedium`, `PrintedIsCode`, `CommandIsAnswered`, `StringsAreClosed`, `DisplayShowsCount` |
| `lost_wakeup` | ring of 3, 3 frames | violates `BlockedOnlyWhileEmpty` |
| `transfer_removed` | one failing umount | violates `ReadyOnlyAfterRemoval` |
| `stop_command` | the stations of `lifecycle` | violates `StopEndsProgram` |
| `camera_again` | camera and joystick | violates `NewPictureNeedsPress` |
| `sound_overrun` | as `ui`, time to 3 | violates `SoundIsNotOverrun` |

Bounds. A ring of 3 is the smallest in which head and tail wrap with more than one frame
inside. Four addresses fill two slots and leave one frame in the writer's and one in the
reader's hands. `oneway` has one direction; both at once with resets are more states
than TLC can visit in reasonable time, and rest on the theorem `Invariant`, which has no
bound. In `polling` two addresses are enough for a lost signal and for both frames to
wait in one buffer. Three frames and two per transfer need a second transfer, so that
the device goes back with a file the receiver has emptied; two faults let one undo the
other (a device pulled out, then a restart; a reset and a cut line). The four stations
have no hardware, files with a joystick, printer and camera with a joystick, and a
camera without one: every module of both lists is chosen in one of them. With delays of
3/2/2 and a wrap at 6 a press crosses the wrap, and time 13 is past twice the range.
Frames of up to 5 bytes are shorter than, equal to and longer than the smallest frame (3
here), end in every possible padding of base64, and their byte values include newline
and colon. The long frames lie on both sides of the two limits of a frame in a file:
1272 bytes make the longest line that fits the buffer of `fgets`, 1518 the longest
frame. Deadlock is not checked (`CHECK_DEADLOCK FALSE`) where the system may stop: a
bounded heap fills with leaked frames, an object stays stopped, the process ends, the
clock reaches its bound.

Fairness. A thread that can take a step does (weak fairness per thread): they are
plain pthreads that wait for each other only at mutexes held for a few instructions.
Nothing obliges frames or datagrams to arrive, a device to be plugged in or removed,
the joystick to be pressed, a write to be flushed or a spurious wakeup to happen. In
`thread` a loop function returns, which is true of the loops that poll and false of
those that block; `StopReturns` says nothing about these, `Program` does. In `transfer`
time passes: a transfer that has begun reaches its limit. `FlashEnds` needs the bounds of
its run too: actions that are reported for ever set the timer for ever, so it is a
property of what happens once they stop.

What the violations mean:

- `lost_wakeup` (`pigeon_frame_pipe.c:91`): the reader tests the buffer, a push comes
  and signals, then the reader goes to sleep on a frame. The next successful push
  wakes it. If the buffer fills first there is none: a failed push does not signal.
- `transfer_removed` (`linkmod_files.c:164`): directory streams are closed only on the
  branch that transfers. After a failed umount every poll leaves one open until
  opendir fails, which the code takes for the removal of the device.
- `stop_command` (`main.c:131`): the server ends and the process does not. main is
  killed by seccomp in the join that has to wait or in a stop_fn that closes something,
  or waits for a loop that is blocked.
- `camera_again` (`linkmod_camera.c:134`): `directions.y` is not reset after a picture
  without a code, so that the loop takes the next one at once.
- `sound_overrun` (`audioMixer.c:294`): the sample is read before the test whether the
  sound is over, and the test is `>` where the last sample is `samples - 1`. "Don't
  overflow any arrays!" says the comment at line 324; up to two samples beyond the data
  are read, and never more (`OverrunBounded`).

Other behaviour the models show and no property asserts the absence of: linkmod_files
never frees what it pops; reset forgets the frames in the buffers; with the joystick a
pop returns NULL after a reset (every caller checks), and a reset between the look of
linkmod_files into the pipe and its pop leaves it in pop, in the middle of a transfer
and past its limits, until the next frame (the exception in `TransferEnds`); a frame of
1273 to 1518 bytes, which the tunnel does not produce with the MTU it sets but
`pigeon_frame_new` admits, makes a line longer than the buffer of `fgets`: the cut line
ends the loop, and it is emptied out with the lines behind it; the camera thread leaves
a file open for each picture without a code and exits when it can open no more; main
crashes at its end; a colon behind a newline in a frame is lost between zbarimg and cut.

## Proofs

`PointerFifo_proofs`: for every size of at least 1, the operators keep a fifo well
formed, push appends to `Contents`, pop removes its head, clear empties it, and the
set of stored pointers changes accordingly (`PushAppends`, `PopRemovesHead` and the
lemmas under them).

`FramePipe_proofs`: for every size, every set of addresses and headers and every
choice of link modules, `IndInv` is inductive (`Invariant`). It is the conjunction of
the types, of `HeldByPC` (where in its code a thread has a frame: without it a step
that frees or pushes `held` could not be known to touch a real frame), of
`SingleOwner` and `NoDanglingFrame` (each needs the other: a frame is freed by its
one owner, and a new frame gets an address that nobody has because everything in use
is allocated), and of `AllowedOnTheWay`, which carries the filter's verdict from the
filter through the buffer to the link. `TypeCorrect`, `FramesHaveOneOwner`,
`NoUseAfterFree` and `FilterHolds` follow. `PipeImplementsChannel` shows that every
step maps to a step of `FrameChannel` or leaves it unchanged, with the lemmas on
`Contents` doing the work for Push, TryPop and the resets. `PopHasFrame` and
`PollingNeverBlocks` have the hypothesis `~HasJoystick`: then the controls thread stays
in its poll, and what a reader has seen is still there when it pops (`Undisturbed`).

`LongThread_proofs`: for any number of callers and threads, `ThreadInv` is inductive
(`ObjectInvariant`). The hypothesis `StartsOnce` concerns only objects with a start_fn:
they are started again only after a stop. Whoever is inside start or stop holds the
mutex, start creates only when there is no handle, and in stop_fn no thread is alive.
`OneThread`, `TeardownIsLast` and `SetupIsFirst` follow.

`LinkmodFiles_proofs`: for any number of frames, limit and faults. `FileInv`: the file
and the medium are increasing and hold no frame beyond the last one written (`Written`,
which leaves out the one in hand; `RoundInv` says when there is one). It survives a
removal because what is left is a beginning of the file with its last line cut, or the
medium. `FileOrdered` follows. `MediumInv` and `ReadInv` say that as long as no read
failed a whole line on the medium is in the file, or was pushed before the file was
emptied; whatever else is cut, removed or restarted, `MediumKept` follows. While no
write and no read failed (`Clean`), `Kept` holds: during a transfer the device is at the
tx station, all lines are whole, at the rx station the file is what is on the medium or
empty, and what is in it was pushed or is still to be read; with it no step takes a
frame out of `Safe`, and `NoFrameLost` follows. Without faults but resets and failing
umounts (`Harmless`), `Orderly` says that the frames pushed are 1, 2, ... and the lines
not read yet continue them up to `Written`: `ReceivedInOrder`.

`Program_proofs`: for every station, capacity and choice of failing calls. `StartInv`,
`JoinInv` and `StopInv` tie main's place to the threads: what has been joined has ended,
and past the stop of an object its thread is idle. `NothingReleasedInUse` and
`SoundsAreLoaded` follow.

`UserInterface_proofs`: for all delays, poll times, int widths, sound lengths and
buffer sizes. `ButtonInv` says that the start time of a press is not before the last
reset, and more than `DEBOUNCE_RELEASE_MS` after it while the press is to be acted on;
`DeltaIsBounded` says that the int difference is never more than the time that passed,
which is why the wrap delays an answer and never brings resets closer (`ResetsSpaced`,
`PressAnswered`). `SoundWhole` says that each buffer goes on at the sample behind the last
one read and the slot is given back only when all were read; `OverrunBounded` that never
more than two samples beyond them are read, which is as much as the code keeps of the
comment that `sound_overrun` refutes; `TypeCorrect` bounds the timer.

`Encodings_proofs`: what the conversions compute, for inputs of every size.
`Base64Undone` follows the text group by group: four sextets are the triple of bytes
they were taken from (`SextetsOfTriple`), the tables undo each other (`TableUndone`),
and the number of `=` is the number of bytes missing in the last group
(`PaddingCounted`). With `PaddedOnce` and the length of a line (`TextIs`) it gives
`FileUndone`: a frame whose line fits the buffer of `fgets` comes back, and of a longer
one comes nothing. `CutUndone` shows that the first colon of the first line is the one
of zbarimg and that no later line has one. `PrintedAsDrawn` follows a dot of the paper
through the scaled byte and the bitmap to its module (`ScaledBit`, `BitmapBit`): places
are quotients and remainders, unique by `DivisionIs`, and the two reversals of bit order
cancel (`MirroredEighth`). `BitmapFitsBuffer` shows that `width * (width + 7)/8`, which
C reads from left to right, is never less than the bytes of the bitmap. `LeastNatural`
(every set of naturals has a least element, from the library's well-foundedness of `<`)
stands in for induction: `Min` and `Max` are choices, and what they choose rests on it.

`Algorithms_proofs`: the seven invariants of `Algorithms`, for all bytes, lengths,
widths, scales and limits. `InputType` says what Init may choose and nothing changes;
`FrameSurvives`, `CameraReads`, `FrameFits` and `PrintedCode` apply the theorems above
to it. `CommandAnswered` needs that every character but a delimiter lies in a word
(`WordAround`), that a word is known by its beginning (`WordUnique`) and that the first
token is the word before which none begins (`FirstWordIs`). `CountShown` computes the
two characters. `StringsClosed` has an inductive invariant of its own, `Loop`: before
each turn the two indices are both 0 or those of a string that begins behind byte 0
and before this turn, a string is open exactly while the turn is not behind
`string_end`, and what the property says holds of every turn made. It needs to know
that what `_find_string` returns is 0 or at least four places on (`FoundIsString`): 0
for "no string" is never confused with a string that ends at 0.

Assumptions on constants: `Size >= 1`; NULL is no address and no header; headers have
the two fields; the link modules, stations and options are the ones named above; `NoOne`
is no caller; limits and lengths are positive; `DEBOUNCE_RELEASE_MS` is at most
`DEBOUNCE_DELAY_MS`, as in `debounce.h`; frames have between 1 and `ETHER_MAX_LEN`
bytes; bytes are in 0..255; the buffer of `fgets` has room for a character and the NUL.
Three relate the limits of the program to each other, as its headers do: the longest
frame (170 + 14) is at most the 321 bytes of the largest code, eight bytes at the scale
of the program (8 * 6) at most a row of paper (48), its line at most the read buffer
(1700); and help, stop and the longest "command not found" fit the response with their
NUL.

Only model-checked: the liveness properties (`SignalWakesReader`, `AwakeReaderDrains`,
`StopReturns`, `TransferEnds`, `DeviceIsReleased`, `StopCommandEndsServer`,
`FailedStartEnds`, `FlashEnds`, `SlotIsFreed`), which are out of the reach of TLAPS
here: they rest on fairness and on which actions are enabled. Every invariant and
action property of a passing run is stated by a theorem. What the functions outside
the program return (libqrencode's table of capacities, zbarimg's line, cut) is a
definition and not proved of them.

## Not modelled

- `gpio.c`: sysfs files without state of their own; that two objects share the pins
  is in `Program`. `pdf417lib`: third party and not built. The headers under
  `includes_armhf` belong to ALSA, zbar and qrencode. These make up more than two thirds
  of the lines of the tree; the program's own C files have about 5600 lines.
- The font table, which segments are lit, I2C and pin writes, the mapping of the four
  joystick pins to vectors, wave file parsing, V4L2 capture (an outcome: it works or
  exits), the tap ioctls (an outcome), the printer's serial line.
- Printing and logging: `print_header`, `printString`, `printTestBitmap`. `path_join`
  builds a string.
- Code nobody calls: `long_thread_wait`, `pigeon_frame_pipe_read_count` and
  `read_is_full`, `pigeon_link_wait`, the command parameter functions,
  `milliseconds_to_timespec`. Code after the crash at `main.c:149`: `pigeon_ui_destroy`,
  `AudioMixer_cleanup`, the frees of link and pipe.
- Memory exhaustion (`malloc` returning NULL), which the code does not check, and the
  memory order of the unsynchronised flags: their accesses are single reads and
  writes.
