--------------------------- MODULE UserInterface ---------------------------
(***************************************************************************)
(* What the user sees, hears and presses: the joystick button with its     *)
(* debouncing and the controls thread that polls it (debounce.c,           *)
(* beagle_joystick.c, beagle_controls.c), the actions other threads report *)
(* (pigeon_ui.c), the display thread with the flash and its timer          *)
(* (beagle_display.c), and the playback thread with its one slot for a     *)
(* sound (audioMixer.c).                                                   *)
(*                                                                         *)
(* The flash is written by any thread while the display thread reads it,   *)
(* without a lock: every load and store is a step.  The clock of the       *)
(* controls is counted in units of the constants.                          *)
(***************************************************************************)
EXTENDS Integers, FiniteSets

CONSTANTS
    DEBOUNCE_DELAY_MS, DEBOUNCE_DELAY_2_MS, DEBOUNCE_RELEASE_MS,
    POLL_DELAY,         \* the sleep between two polls of the joystick
    PollLate,           \* bound: how late a poll may come
    IntLimit,           \* 2^31: an int counts milliseconds
    MaxTime,            \* bound: the time at which a behaviour ends
    Writers,            \* the threads other than controls that report actions
    Actions,            \* the actions they report
    MaxReports,         \* bound: how many they report
    FRAMES_PER_SECOND,
    BeepSamples, SlowBusySamples,   \* the lengths of the two sounds
    BufferSize          \* the samples of one playback buffer

ASSUME DelaysAssumption ==
    /\ DEBOUNCE_DELAY_MS \in Nat
    /\ DEBOUNCE_DELAY_2_MS \in Nat
    /\ DEBOUNCE_RELEASE_MS \in Nat
    /\ POLL_DELAY \in Nat
    /\ PollLate \in Nat
    /\ IntLimit \in Nat \ {0}
    /\ MaxTime \in Nat

(* A press is let go sooner than it is acted on while it lasts. *)
ASSUME ReleaseAssumption == DEBOUNCE_RELEASE_MS <= DEBOUNCE_DELAY_MS

ASSUME SoundAssumption ==
    /\ BeepSamples \in Nat \ {0}
    /\ SlowBusySamples \in Nat \ {0}
    /\ BufferSize \in Nat \ {0}
    /\ FRAMES_PER_SECOND \in Nat \ {0}

NumSamples == [beep |-> BeepSamples, slow_busy_sound |-> SlowBusySamples]
Sounds == DOMAIN NumSamples

Shows(seconds, sound) == [seconds |-> seconds, sound |-> sound]

(* pigeon_ui_action: for how long each action flashes a text on the display,
   and its sound. *)
pigeon_ui_action ==
    [RX_BUSY      |-> Shows(2, "none"),
     RX_WAITING   |-> Shows(2, "none"),
     RX_SUCCESS   |-> Shows(2, "none"),
     RX_ERROR     |-> Shows(5, "none"),
     TX_BUSY      |-> Shows(8, "none"),
     TX_BUSY_SLOW |-> Shows(15, "slow_busy_sound"),
     TX_WAITING   |-> Shows(15, "beep"),
     TX_SUCCESS   |-> Shows(10, "beep"),
     TX_ERROR     |-> Shows(5, "beep"),
     TX_RESET     |-> Shows(2, "beep")]

ASSUME ActionsAssumption ==
    Actions \subseteq DOMAIN pigeon_ui_action /\ MaxReports \in Nat /\ "controls" \notin Writers

Reporters == Writers \cup {"controls"}

VARIABLES
    now,                \* the clock
    last_poll,          \* when the controls thread last polled
    debounce,           \* the Debounce struct of the button
    last_reset,         \* when pigeon_frame_pipe_reset was last called, or -1
    reporter,           \* each thread in pigeon_ui_action
    reports,            \* how many actions the Writers reported
    flash_time_frames,  \* how long the display still shows the flash
    display,            \* the display thread: where it is and what it has loaded
    has_audio,          \* the playback thread runs
    bite,               \* soundBites[0]
    lastRead            \* the last sample that was read of the sound in it

controlVars == <<now, last_poll, debounce, last_reset>>
reportVars == <<reporter, reports>>
displayVars == <<flash_time_frames, display>>
audioVars == <<has_audio, bite, lastRead>>
vars == <<controlVars, reportVars, displayVars, audioVars>>

MaxFrames == 15 * FRAMES_PER_SECOND

TypeOK ==
    /\ now \in 0 .. MaxTime
    /\ last_poll \in 0 .. now
    /\ debounce \in [pressed : BOOLEAN, done : BOOLEAN, start_time : 0 .. last_poll]
    /\ last_reset \in -1 .. last_poll
    /\ reporter \in [Reporters -> [at : {"idle", "timer", "sound"},
                                   action : DOMAIN pigeon_ui_action]]
    /\ reports \in 0 .. MaxReports
    /\ flash_time_frames \in 0 .. MaxFrames
    /\ display \in [at : {"test", "load", "store"}, frames : 0 .. MaxFrames]
    /\ has_audio \in BOOLEAN
    /\ bite \in [pSound : Sounds \cup {"none"}, location : Nat]
    /\ lastRead \in Nat \cup {-1}

Idle == [at |-> "idle", action |-> "TX_RESET"]

(* The structs start as zeros.  The display struct is not cleared after malloc,
   and main.c:88 flashes "HI" before the other threads start: its timer holds
   any number of frames up to the longest flash. *)
Init ==
    /\ now = 0
    /\ last_poll = 0
    /\ debounce = [pressed |-> FALSE, done |-> FALSE, start_time |-> 0]
    /\ last_reset = -1
    /\ reporter = [r \in Reporters |-> Idle]
    /\ reports = 0
    /\ flash_time_frames \in 0 .. MaxFrames
    /\ display = [at |-> "test", frames |-> 0]
    /\ has_audio \in BOOLEAN
    /\ bite = [pSound |-> "none", location |-> 0]
    /\ lastRead = -1

-----------------------------------------------------------------------------
(* The button *)

Tick ==
    /\ now < MaxTime
    /\ now < last_poll + POLL_DELAY + PollLate
    /\ now' = now + 1
    /\ UNCHANGED <<last_poll, debounce, last_reset, reportVars, displayVars,
                   audioVars>>

(* The difference of two times, as the int it is returned in. *)
timespec_delta_milliseconds(start, end) ==
    ((end - start + IntLimit) % (2 * IntLimit)) - IntLimit

Since(d) == timespec_delta_milliseconds(d.start_time, now)

no_minimum_gap(d, pressed) ==
    CASE pressed /\ ~d.pressed ->
             [result |-> FALSE, done |-> FALSE, start_time |-> now]
      [] pressed /\ d.pressed /\ Since(d) > (IF d.done THEN DEBOUNCE_DELAY_2_MS ELSE DEBOUNCE_DELAY_MS) ->
             [result |-> TRUE, done |-> TRUE, start_time |-> now]
      [] ~pressed /\ d.pressed /\ ~d.done ->
             [result |-> TRUE, done |-> TRUE, start_time |-> now]
      [] OTHER -> [result |-> FALSE, done |-> d.done, start_time |-> d.start_time]

only_on_release(d, pressed) ==
    CASE pressed /\ ~d.pressed /\ Since(d) > DEBOUNCE_RELEASE_MS ->
             [result |-> FALSE, done |-> FALSE, start_time |-> now]
      [] ~pressed /\ d.pressed /\ ~d.done ->
             [result |-> TRUE, done |-> TRUE, start_time |-> now]
      [] OTHER -> [result |-> FALSE, done |-> d.done, start_time |-> d.start_time]

(* debounce_action: a press that starts, one that has lasted long enough, and
   one that ends before it was acted on. *)
debounce_action(d, pressed) ==
    CASE pressed /\ ~d.pressed /\ Since(d) > DEBOUNCE_RELEASE_MS ->
             [result |-> FALSE, done |-> FALSE, start_time |-> now]
      [] pressed /\ d.pressed /\ Since(d) > (IF d.done THEN DEBOUNCE_DELAY_2_MS ELSE DEBOUNCE_DELAY_MS) ->
             [result |-> TRUE, done |-> TRUE, start_time |-> now]
      [] ~pressed /\ d.pressed /\ ~d.done ->
             [result |-> TRUE, done |-> TRUE, start_time |-> now]
      [] OTHER -> [result |-> FALSE, done |-> d.done, start_time |-> d.start_time]

(* _beagle_controls_thread_loop and pigeon_ui_is_reset_pressed.  The button is
   up or down, and bounces; when beagle_joystick_get_motion reads nothing from
   its pin it uses an undefined value.  (A value file that cannot be opened,
   which crashes the program in gpio_read, is left out.) *)
ControlsPoll ==
    /\ reporter["controls"].at = "idle"
    /\ now >= last_poll + POLL_DELAY
    /\ last_poll' = now
    /\ \E pressed \in BOOLEAN :
           LET after == debounce_action(debounce, pressed)
           IN  /\ debounce' = [pressed |-> pressed, done |-> after.done,
                               start_time |-> after.start_time]
               /\ last_reset' = IF after.result THEN now ELSE last_reset
               /\ reporter' = IF after.result
                              THEN [reporter EXCEPT !["controls"] =
                                        [at |-> "timer", action |-> "TX_RESET"]]
                              ELSE reporter
    /\ UNCHANGED <<now, reports, displayVars, audioVars>>

-----------------------------------------------------------------------------
(* pigeon_ui_action, in the thread r: beagle_display_set_flash writes the timer
   and the text, and a sound may follow. *)

Report(r, action) ==
    /\ r # "controls"
    /\ reporter[r].at = "idle"
    /\ reports < MaxReports
    /\ reports' = reports + 1
    /\ reporter' = [reporter EXCEPT ![r] = [at |-> "timer", action |-> action]]
    /\ UNCHANGED <<controlVars, displayVars, audioVars>>

Reported(r) == pigeon_ui_action[reporter[r].action]

Done(r) == reporter' = [reporter EXCEPT ![r] = Idle]

SetFlash(r) ==
    /\ reporter[r].at = "timer"
    /\ flash_time_frames' = Reported(r).seconds * FRAMES_PER_SECOND
    /\ IF Reported(r).sound = "none"
       THEN Done(r)
       ELSE reporter' = [reporter EXCEPT ![r].at = "sound"]
    /\ UNCHANGED <<controlVars, reports, display, audioVars>>

(* AudioMixer_queueSound, under its mutex: a sound that finds no free slot is
   dropped. *)
queueSound(r) ==
    /\ reporter[r].at = "sound"
    /\ IF bite.pSound = "none"
       THEN bite' = [pSound |-> Reported(r).sound, location |-> 0] /\ lastRead' = -1
       ELSE UNCHANGED <<bite, lastRead>>
    /\ Done(r)
    /\ UNCHANGED <<controlVars, reports, displayVars, has_audio>>

-----------------------------------------------------------------------------
(* _beagle_display_thread_loop: one frame tests the timer, and counts it down
   with a load and a store that other threads may write between. *)

frame_without_test ==
    /\ display.at = "test"
    /\ display' = [display EXCEPT !.at = "load"]
    /\ UNCHANGED <<controlVars, reportVars, flash_time_frames, audioVars>>

FrameTest ==
    /\ display.at = "test"
    /\ flash_time_frames > 0
    /\ display' = [display EXCEPT !.at = "load"]
    /\ UNCHANGED <<controlVars, reportVars, flash_time_frames, audioVars>>

FrameLoad ==
    /\ display.at = "load"
    /\ display' = [at |-> "store", frames |-> flash_time_frames]
    /\ UNCHANGED <<controlVars, reportVars, flash_time_frames, audioVars>>

timer_stands_still ==
    /\ display.at = "store"
    /\ flash_time_frames' = display.frames
    /\ display' = [at |-> "test", frames |-> 0]
    /\ UNCHANGED <<controlVars, reportVars, audioVars>>

FrameStore ==
    /\ display.at = "store"
    /\ flash_time_frames' = display.frames - 1
    /\ display' = [at |-> "test", frames |-> 0]
    /\ UNCHANGED <<controlVars, reportVars, audioVars>>

-----------------------------------------------------------------------------
(* playbackThread *)

break_too_early(location, samples) ==
    IF samples - 2 - location < BufferSize THEN samples - 2 - location ELSE BufferSize

(* The offset at which fillPlaybackBuffer's loop over one buffer breaks off,
   or BufferSize if it does not: the sample is read before the test. *)
BreakAt(location, samples) ==
    IF samples + 1 - location < BufferSize THEN samples + 1 - location ELSE BufferSize

location_stays ==
    /\ has_audio
    /\ bite.pSound # "none"
    /\ LET j == BreakAt(bite.location, NumSamples[bite.pSound])
       IN  /\ lastRead' = bite.location + (IF j < BufferSize THEN j ELSE BufferSize - 1)
           /\ bite' = [pSound |-> IF j < BufferSize THEN "none" ELSE bite.pSound,
                       location |-> bite.location]
    /\ UNCHANGED <<controlVars, reportVars, displayVars, has_audio>>

fillPlaybackBuffer ==
    /\ has_audio
    /\ bite.pSound # "none"
    /\ LET j == BreakAt(bite.location, NumSamples[bite.pSound])
       IN  /\ lastRead' = bite.location + (IF j < BufferSize THEN j ELSE BufferSize - 1)
           /\ bite' = [pSound |-> IF j < BufferSize THEN "none" ELSE bite.pSound,
                       location |-> bite.location + BufferSize]
    /\ UNCHANGED <<controlVars, reportVars, displayVars, has_audio>>

-----------------------------------------------------------------------------
ReportStep(r) == SetFlash(r) \/ queueSound(r)

DisplayStep == FrameTest \/ FrameLoad \/ FrameStore

Next ==
    \/ Tick
    \/ ControlsPoll
    \/ \E r \in Reporters :
           \/ \E action \in Actions : Report(r, action)
           \/ ReportStep(r)
    \/ DisplayStep
    \/ fillPlaybackBuffer

Spec == Init /\ [][Next]_vars

(* The threads run; nothing is assumed of the user and of the clock. *)
FairSpec ==
    /\ Spec
    /\ \A r \in Reporters : WF_vars(ReportStep(r))
    /\ WF_vars(DisplayStep)
    /\ WF_vars(fillPlaybackBuffer)

-----------------------------------------------------------------------------
(***************************************************************************)
(* Properties.                                                             *)
(***************************************************************************)

MinimumGap ==
    IF DEBOUNCE_DELAY_2_MS < DEBOUNCE_RELEASE_MS THEN DEBOUNCE_DELAY_2_MS
                                                 ELSE DEBOUNCE_RELEASE_MS

(* However the button bounces, whenever its pin cannot be read and also when
   the millisecond counter wraps round, two resets of the pipe are further
   apart than the shorter of the two delays of debounce.h. *)
ResetsAreSpaced ==
    [][last_reset' # last_reset /\ last_reset # -1
           => last_reset' - last_reset > MinimumGap]_vars

(* A press that started is acted on at the first poll after DEBOUNCE_DELAY_MS
   at the latest, as long as the clock is below the range of an int. *)
PressIsAnswered ==
    last_poll < IntLimit /\ debounce.pressed /\ ~debounce.done
        => last_poll - debounce.start_time <= DEBOUNCE_DELAY_MS

(* The display gets back to the number of frames after a flash, once threads
   stop reporting actions (MaxReports and MaxTime see to that here; reports that
   keep coming would keep the flash): the timer that all threads set and the
   display thread counts down without a lock neither stays where it is nor
   passes zero. *)
FlashEnds == flash_time_frames > 0 ~> flash_time_frames = 0

(* No sample of a sound is left out or read twice, whatever its length and the
   size of the playback buffer: each buffer goes on where the one before it
   stopped, and the slot is given back only after the last sample.  (That it is
   read beyond its last sample as well is what SoundIsNotOverrun is about.) *)
SoundIsWhole ==
    [][bite.pSound # "none" /\ bite' # bite
           => /\ bite.location = lastRead + 1
              /\ bite'.pSound = "none" => lastRead' >= NumSamples[bite.pSound] - 1]_vars

(* "Don't overflow any arrays!" (audioMixer.c:324): nothing is read beyond the
   samples of the sound. *)
SoundIsNotOverrun ==
    [][bite.pSound # "none" => lastRead' < NumSamples[bite.pSound]]_vars

(* A sound that was queued comes to its end, so that the next one can be. *)
SlotIsFreed == has_audio /\ bite.pSound # "none" ~> bite.pSound = "none"

=============================================================================
