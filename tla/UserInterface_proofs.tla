------------------------ MODULE UserInterface_proofs ------------------------
(***************************************************************************)
(* Proofs about UserInterface, for all delays, sounds, buffers and threads *)
(* that report actions.                                                    *)
(***************************************************************************)
EXTENDS UserInterface, TLAPS

-----------------------------------------------------------------------------
(* The button. *)

(* What debouncing keeps: the start time is not before the last reset, and a
   press that is still to be acted on began more than DEBOUNCE_RELEASE_MS after
   it. *)
ButtonInv ==
    /\ now \in Nat
    /\ last_poll \in Nat
    /\ last_poll <= now
    /\ debounce \in [pressed : BOOLEAN, done : BOOLEAN, start_time : Nat]
    /\ debounce.start_time <= last_poll
    /\ last_reset \in Int
    /\ -1 <= last_reset
    /\ last_reset <= last_poll
    /\ last_reset # -1 => last_reset <= debounce.start_time
    /\ last_reset # -1 /\ ~debounce.done =>
           debounce.start_time - last_reset > DEBOUNCE_RELEASE_MS

LEMMA Remainder ==
    ASSUME NEW a \in Nat, NEW b \in Nat \ {0}
    PROVE  /\ a % b \in Nat
           /\ a % b <= a
           /\ a < b => a % b = a
  OBVIOUS

(* timespec_delta_milliseconds never returns more than the time that passed,
   and returns exactly that as long as it fits an int. *)
LEMMA DeltaIsBounded ==
    ASSUME NEW start \in Nat, NEW end \in Nat, start <= end
    PROVE  /\ timespec_delta_milliseconds(start, end) \in Int
           /\ timespec_delta_milliseconds(start, end) <= end - start
           /\ end < IntLimit => timespec_delta_milliseconds(start, end) = end - start
  <1> DEFINE a == end - start + IntLimit
             b == 2 * IntLimit
  <1>1. /\ a \in Nat
        /\ b \in Nat \ {0}
        /\ end < IntLimit => a < b
    BY DelaysAssumption
  <1>2. /\ a % b \in Nat
        /\ a % b <= a
        /\ a < b => a % b = a
    BY <1>1, Remainder
  <1>3. timespec_delta_milliseconds(start, end) = (a % b) - IntLimit
    BY DEF timespec_delta_milliseconds
  <1> HIDE DEF b
  <1>4. IntLimit \in Nat
    BY DelaysAssumption
  <1>5. a = end - start + IntLimit
    OBVIOUS
  <1> HIDE DEF a
  <1>6. QED
    BY <1>1, <1>2, <1>3, <1>4, <1>5

LEMMA ButtonInit == Init => ButtonInv
  BY DelaysAssumption DEF Init, ButtonInv

(* A poll: what debounce_action makes of the struct, and what a reset needs. *)
LEMMA PollStep ==
    ASSUME ButtonInv, ControlsPoll
    PROVE  /\ ButtonInv'
           /\ last_reset' # last_reset /\ last_reset # -1
                  => last_reset' - last_reset > MinimumGap
           /\ PressIsAnswered'
  <1>1. PICK pressed \in BOOLEAN :
            /\ debounce' = [pressed |-> pressed,
                            done |-> debounce_action(debounce, pressed).done,
                            start_time |-> debounce_action(debounce, pressed).start_time]
            /\ last_reset' = IF debounce_action(debounce, pressed).result
                             THEN now ELSE last_reset
    BY DEF ControlsPoll
  <1>2. last_poll' = now /\ now' = now
    BY DEF ControlsPoll
  <1> DEFINE start == debounce.start_time
             since == Since(debounce)
  <1>3. /\ now \in Nat /\ start \in Nat /\ start <= now
        /\ debounce.pressed \in BOOLEAN /\ debounce.done \in BOOLEAN
    BY DEF ButtonInv
  <1>4. /\ since \in Int
        /\ since <= now - start
        /\ now < IntLimit => since = now - start
    BY <1>3, DeltaIsBounded DEF Since
  <1>5. /\ DEBOUNCE_DELAY_MS \in Nat /\ DEBOUNCE_DELAY_2_MS \in Nat
        /\ DEBOUNCE_RELEASE_MS \in Nat /\ IntLimit \in Nat
        /\ DEBOUNCE_RELEASE_MS <= DEBOUNCE_DELAY_MS
        /\ MinimumGap \in Nat
        /\ MinimumGap <= DEBOUNCE_DELAY_2_MS
        /\ MinimumGap <= DEBOUNCE_RELEASE_MS
    BY DelaysAssumption, ReleaseAssumption DEF MinimumGap
  <1>6. CASE pressed /\ ~debounce.pressed /\ since > DEBOUNCE_RELEASE_MS
    <2>1. debounce_action(debounce, pressed) =
              [result |-> FALSE, done |-> FALSE, start_time |-> now]
      BY <1>6 DEF debounce_action
    <2>2. /\ debounce' = [pressed |-> pressed, done |-> FALSE, start_time |-> now]
          /\ last_reset' = last_reset
      BY <2>1, <1>1
    <2>3. QED
      BY <2>2, <1>2, <1>3, <1>4, <1>5, <1>6 DEF ButtonInv, PressIsAnswered
  <1>7. CASE pressed /\ debounce.pressed
                 /\ since > (IF debounce.done THEN DEBOUNCE_DELAY_2_MS ELSE DEBOUNCE_DELAY_MS)
    <2>1. debounce_action(debounce, pressed) =
              [result |-> TRUE, done |-> TRUE, start_time |-> now]
      BY <1>7 DEF debounce_action
    <2>2. /\ debounce' = [pressed |-> pressed, done |-> TRUE, start_time |-> now]
          /\ last_reset' = now
      BY <2>1, <1>1
    <2>3. last_reset # -1 => now - last_reset > MinimumGap
      BY <1>3, <1>4, <1>5, <1>7 DEF ButtonInv
    <2>4. QED
      BY <2>2, <2>3, <1>2, <1>3 DEF ButtonInv, PressIsAnswered
  <1>8. CASE ~pressed /\ debounce.pressed /\ ~debounce.done
    <2>1. debounce_action(debounce, pressed) =
              [result |-> TRUE, done |-> TRUE, start_time |-> now]
      BY <1>8 DEF debounce_action
    <2>2. /\ debounce' = [pressed |-> pressed, done |-> TRUE, start_time |-> now]
          /\ last_reset' = now
      BY <2>1, <1>1
    <2>3. last_reset # -1 => now - last_reset > MinimumGap
      BY <1>3, <1>5, <1>8 DEF ButtonInv
    <2>4. QED
      BY <2>2, <2>3, <1>2, <1>3 DEF ButtonInv, PressIsAnswered
  <1>9. CASE /\ ~(pressed /\ ~debounce.pressed /\ since > DEBOUNCE_RELEASE_MS)
             /\ ~(pressed /\ debounce.pressed
                    /\ since > (IF debounce.done THEN DEBOUNCE_DELAY_2_MS ELSE DEBOUNCE_DELAY_MS))
             /\ ~(~pressed /\ debounce.pressed /\ ~debounce.done)
    <2>1. debounce_action(debounce, pressed) =
              [result |-> FALSE, done |-> debounce.done, start_time |-> start]
      BY <1>9 DEF debounce_action
    <2>2. /\ debounce' = [pressed |-> pressed, done |-> debounce.done, start_time |-> start]
          /\ last_reset' = last_reset
      BY <2>1, <1>1
    <2>3. pressed /\ ~debounce.done => since <= DEBOUNCE_DELAY_MS
      BY <1>3, <1>4, <1>5, <1>9
    <2>4. QED
      BY <2>2, <2>3, <1>2, <1>3, <1>4, <1>5 DEF ButtonInv, PressIsAnswered
  <1>10. QED
    BY <1>6, <1>7, <1>8, <1>9

(* Every other step leaves the button and the resets alone. *)
LEMMA OtherStep ==
    ASSUME ButtonInv, [Next]_vars, ~ControlsPoll
    PROVE  /\ ButtonInv'
           /\ last_reset' = last_reset
           /\ UNCHANGED <<last_poll, debounce>>
  <1>1. CASE Tick
    BY <1>1 DEF Tick, ButtonInv
  <1>2. CASE UNCHANGED controlVars
    BY <1>2 DEF controlVars, ButtonInv
  <1>3. CASE Next /\ ~Tick
    <2>1. UNCHANGED controlVars
      BY <1>3 DEF Next, ReportStep, DisplayStep, Report, SetFlash, queueSound, FrameTest,
                  FrameLoad, FrameStore, fillPlaybackBuffer
    <2>2. QED
      BY <2>1, <1>2
  <1>4. CASE UNCHANGED vars
    BY <1>2, <1>4 DEF vars
  <1>5. QED
    BY <1>1, <1>3, <1>4

LEMMA ButtonStep == ButtonInv /\ [Next]_vars => ButtonInv'
  BY PollStep, OtherStep

(* However the button bounces and however the clock wraps round, two resets of
   the frame pipe are more than the shorter delay of debounce.h apart. *)
THEOREM ResetsSpaced == Spec => ResetsAreSpaced
  <1>1. ButtonInv /\ [Next]_vars =>
            [last_reset' # last_reset /\ last_reset # -1
                 => last_reset' - last_reset > MinimumGap]_vars
    BY PollStep, OtherStep
  <1>2. QED
    BY <1>1, ButtonInit, ButtonStep, PTL DEF Spec, ResetsAreSpaced

(* A press is acted on at the first poll after DEBOUNCE_DELAY_MS at the latest,
   until the clock leaves the range of an int. *)
THEOREM PressAnswered == Spec => []PressIsAnswered
  <1>1. Init => PressIsAnswered
    BY DEF Init, PressIsAnswered
  <1>2. ButtonInv /\ PressIsAnswered /\ [Next]_vars => PressIsAnswered'
    <2> SUFFICES ASSUME ButtonInv, PressIsAnswered, [Next]_vars
                 PROVE  PressIsAnswered'
      OBVIOUS
    <2>1. CASE ControlsPoll
      BY <2>1, PollStep
    <2>2. CASE ~ControlsPoll
      BY <2>2, OtherStep DEF PressIsAnswered
    <2>3. QED
      BY <2>1, <2>2
  <1>3. QED
    BY <1>1, <1>2, ButtonInit, ButtonStep, PTL DEF Spec

-----------------------------------------------------------------------------
(* The flash and the sounds. *)

(* The timer is positive between the test and the load, and what was loaded is
   positive until the store: other threads only write positive values, and only
   the display thread counts down. *)
FlashInv ==
    /\ reporter \in [Reporters -> [at : {"idle", "timer", "sound"},
                                   action : DOMAIN pigeon_ui_action]]
    /\ flash_time_frames \in 0 .. MaxFrames
    /\ display \in [at : {"test", "load", "store"}, frames : 0 .. MaxFrames]
    /\ display.at = "load" => flash_time_frames > 0
    /\ display.at = "store" => display.frames > 0

(* A sound in the slot has been read as far as its location, which is at most
   one past its end; and nobody reports a sound there is none of. *)
SoundInv ==
    /\ has_audio \in BOOLEAN
    /\ bite \in [pSound : Sounds \cup {"none"}, location : Nat]
    /\ bite.pSound # "none" => /\ bite.location <= NumSamples[bite.pSound] + 1
                              /\ bite.location = lastRead + 1
    /\ lastRead \in Nat \cup {-1}
    /\ \A r \in Reporters : reporter[r].at = "sound" => Reported(r).sound \in Sounds

CountInv == reports \in 0 .. MaxReports /\ now \in 0 .. MaxTime

UiInv == ButtonInv /\ FlashInv /\ SoundInv /\ CountInv

(* What the table of pigeon_ui_action holds. *)
LEMMA ActionTable ==
    \A action \in DOMAIN pigeon_ui_action :
        /\ pigeon_ui_action[action].seconds \in 1 .. 15
        /\ pigeon_ui_action[action].sound \in Sounds \cup {"none"}
        /\ "none" \notin Sounds
  BY DEF pigeon_ui_action, Shows, Sounds, NumSamples

LEMMA FlashTime ==
    ASSUME NEW seconds \in 1 .. 15
    PROVE  /\ seconds * FRAMES_PER_SECOND \in 0 .. MaxFrames
           /\ seconds * FRAMES_PER_SECOND > 0
  BY SoundAssumption DEF MaxFrames

LEMMA SampleNumbers ==
    \A sound \in Sounds : NumSamples[sound] \in Nat \ {0}
  BY SoundAssumption DEF Sounds, NumSamples

LEMMA UiInit == Init => UiInv
  <1> SUFFICES ASSUME Init PROVE UiInv
    OBVIOUS
  <1>1. MaxFrames \in Nat
    BY SoundAssumption DEF MaxFrames
  <1>2. "TX_RESET" \in DOMAIN pigeon_ui_action
    BY DEF pigeon_ui_action
  <1>3. FlashInv
    BY <1>1, <1>2 DEF Init, FlashInv, Idle
  <1>4. SoundInv
    BY DEF Init, SoundInv, Idle
  <1>5. CountInv
    BY DelaysAssumption, ActionsAssumption DEF Init, CountInv
  <1>6. QED
    BY <1>3, <1>4, <1>5, ButtonInit DEF UiInv

LEMMA ReportKeeps ==
    ASSUME UiInv, NEW r \in Reporters, NEW action \in Actions, Report(r, action)
    PROVE  FlashInv' /\ SoundInv' /\ CountInv'
  <1>1. action \in DOMAIN pigeon_ui_action
    BY ActionsAssumption
  <1>2. FlashInv'
    BY <1>1 DEF Report, FlashInv, UiInv, displayVars
  <1>3. SoundInv'
    BY DEF Report, SoundInv, FlashInv, UiInv, audioVars, Reported
  <1>4. CountInv'
    BY ActionsAssumption DEF Report, CountInv, UiInv, controlVars
  <1>5. QED
    BY <1>2, <1>3, <1>4

LEMMA SetFlashKeeps ==
    ASSUME UiInv, NEW r \in Reporters, SetFlash(r)
    PROVE  FlashInv' /\ SoundInv' /\ CountInv'
  <1>1. reporter[r].action \in DOMAIN pigeon_ui_action
    BY DEF UiInv, FlashInv
  <1>2. /\ Reported(r).seconds \in 1 .. 15
        /\ Reported(r).sound \in Sounds \cup {"none"}
    BY <1>1, ActionTable DEF Reported
  <1>3. flash_time_frames' \in 0 .. MaxFrames /\ flash_time_frames' > 0
    BY <1>2, FlashTime DEF SetFlash
  <1>4. "TX_RESET" \in DOMAIN pigeon_ui_action
    BY DEF pigeon_ui_action
  <1>5. FlashInv'
    BY <1>1, <1>3, <1>4 DEF SetFlash, Done, Idle, FlashInv, UiInv
  <1>6. SoundInv'
    BY <1>2 DEF SetFlash, Done, Idle, SoundInv, FlashInv, UiInv, audioVars, Reported
  <1>7. CountInv'
    BY DEF SetFlash, CountInv, UiInv, controlVars
  <1>8. QED
    BY <1>5, <1>6, <1>7

LEMMA QueueKeeps ==
    ASSUME UiInv, NEW r \in Reporters, queueSound(r)
    PROVE  FlashInv' /\ SoundInv' /\ CountInv'
  <1>1. "TX_RESET" \in DOMAIN pigeon_ui_action
    BY DEF pigeon_ui_action
  <1>2. FlashInv'
    BY <1>1 DEF queueSound, Done, Idle, FlashInv, UiInv, displayVars
  <1>3. \A s \in Reporters : reporter'[s].at = "sound" => Reported(s)'.sound \in Sounds
    BY DEF queueSound, Done, Idle, SoundInv, FlashInv, UiInv, Reported
  <1>4. Reported(r).sound \in Sounds
    BY DEF queueSound, SoundInv, UiInv
  <1>5. bite' \in [pSound : Sounds \cup {"none"}, location : Nat]
        /\ (bite'.pSound # "none" => /\ bite'.location <= NumSamples[bite'.pSound] + 1
                                     /\ bite'.location = lastRead' + 1)
    <2>1. CASE bite.pSound = "none"
      BY <2>1, <1>4, SampleNumbers DEF queueSound
    <2>2. CASE bite.pSound # "none"
      BY <2>2 DEF queueSound, SoundInv, UiInv
    <2>3. QED
      BY <2>1, <2>2
  <1>6. SoundInv'
    BY <1>3, <1>5 DEF queueSound, SoundInv, UiInv
  <1>7. CountInv'
    BY DEF queueSound, CountInv, UiInv, controlVars
  <1>8. QED
    BY <1>2, <1>6, <1>7

LEMMA DisplayKeeps ==
    ASSUME UiInv, DisplayStep
    PROVE  FlashInv' /\ SoundInv' /\ CountInv'
  <1>1. MaxFrames \in Nat
    BY SoundAssumption DEF MaxFrames
  <1>2. FlashInv'
    <2>1. CASE FrameTest
      BY <2>1 DEF FrameTest, FlashInv, UiInv, reportVars
    <2>2. CASE FrameLoad
      BY <2>2 DEF FrameLoad, FlashInv, UiInv, reportVars
    <2>3. CASE FrameStore
      BY <2>3, <1>1 DEF FrameStore, FlashInv, UiInv, reportVars
    <2>4. QED
      BY <2>1, <2>2, <2>3 DEF DisplayStep
  <1>3. UNCHANGED <<reportVars, audioVars, controlVars>>
    BY DEF DisplayStep, FrameTest, FrameLoad, FrameStore
  <1>4. SoundInv' /\ CountInv'
    BY <1>3 DEF SoundInv, CountInv, UiInv, reportVars, audioVars, controlVars, Reported
  <1>5. QED
    BY <1>2, <1>4

(* One buffer: the loop breaks off inside it, and then never before its start,
   or the sound goes on with the next one. *)
LEMMA FillKeeps ==
    ASSUME UiInv, fillPlaybackBuffer
    PROVE  /\ FlashInv' /\ SoundInv' /\ CountInv'
           /\ bite'.pSound = "none" => lastRead' = NumSamples[bite.pSound] + 1
  <1>1. UNCHANGED <<reportVars, displayVars, controlVars, has_audio>>
    BY DEF fillPlaybackBuffer
  <1>2. FlashInv' /\ CountInv'
    BY <1>1 DEF FlashInv, CountInv, UiInv, reportVars, displayVars, controlVars
  <1> DEFINE samples == NumSamples[bite.pSound]
             j == BreakAt(bite.location, samples)
  <1>3. /\ bite.pSound \in Sounds
        /\ bite.location \in Nat
        /\ bite.location <= samples + 1
    BY DEF fillPlaybackBuffer, SoundInv, UiInv
  <1>4. samples \in Nat
    BY <1>3, SampleNumbers
  <1>5. /\ lastRead' = bite.location + (IF j < BufferSize THEN j ELSE BufferSize - 1)
        /\ bite' = [pSound |-> IF j < BufferSize THEN "none" ELSE bite.pSound,
                    location |-> bite.location + BufferSize]
    BY DEF fillPlaybackBuffer
  <1>6. "none" \notin Sounds
    BY DEF Sounds, NumSamples
  <1> HIDE DEF samples
  <1>7. CASE samples + 1 - bite.location < BufferSize
    <2>1. j = samples + 1 - bite.location
      BY <1>7 DEF BreakAt
    <2>2. bite'.pSound = "none" /\ bite'.location \in Nat /\ lastRead' = samples + 1
      BY <2>1, <1>3, <1>4, <1>5, <1>7, SoundAssumption
    <2>3. bite' \in [pSound : Sounds \cup {"none"}, location : Nat]
      BY <2>2, <1>5
    <2>4. SoundInv'
      BY <2>2, <2>3, <1>1, <1>4 DEF SoundInv, UiInv, reportVars, Reported
    <2>5. QED
      BY <2>2, <2>4, <1>2 DEF samples
  <1>8. CASE ~(samples + 1 - bite.location < BufferSize)
    <2>1. j = BufferSize
      BY <1>8 DEF BreakAt
    <2>2. /\ bite'.pSound = bite.pSound
          /\ bite'.location = bite.location + BufferSize
          /\ lastRead' = bite.location + BufferSize - 1
      BY <2>1, <1>3, <1>5, SoundAssumption
    <2>3. /\ bite'.location \in Nat
          /\ bite'.location <= samples + 1
          /\ lastRead' \in Nat
          /\ bite'.location = lastRead' + 1
      BY <2>2, <1>3, <1>4, <1>8, SoundAssumption
    <2>4. bite' \in [pSound : Sounds \cup {"none"}, location : Nat]
      BY <2>2, <2>3, <1>3, <1>5
    <2>5. SoundInv'
      BY <2>2, <2>3, <2>4, <1>1 DEF SoundInv, UiInv, reportVars, Reported, samples
    <2>6. QED
      BY <2>2, <2>5, <1>2, <1>3, <1>6
  <1>9. QED
    BY <1>7, <1>8

LEMMA ControlsKeep ==
    ASSUME UiInv, Tick \/ ControlsPoll
    PROVE  FlashInv' /\ SoundInv' /\ CountInv'
  <1>1. CASE Tick
    BY <1>1, DelaysAssumption DEF Tick, FlashInv, SoundInv, CountInv, UiInv, reportVars,
                                  displayVars, audioVars, Reported
  <1>2. CASE ControlsPoll
    <2>1. /\ \/ reporter' = reporter
             \/ reporter' = [reporter EXCEPT !["controls"] =
                                 [at |-> "timer", action |-> "TX_RESET"]]
          /\ UNCHANGED <<now, reports, displayVars, audioVars>>
      BY <1>2 DEF ControlsPoll
    <2>2. "TX_RESET" \in DOMAIN pigeon_ui_action
      BY DEF pigeon_ui_action
    <2>3. FlashInv'
      BY <2>1, <2>2 DEF FlashInv, UiInv, displayVars
    <2>4. SoundInv' /\ CountInv'
      BY <2>1 DEF SoundInv, FlashInv, CountInv, UiInv, audioVars, Reported
    <2>5. QED
      BY <2>3, <2>4
  <1>3. QED
    BY <1>1, <1>2

LEMMA UiStep == UiInv /\ [Next]_vars => UiInv'
  <1> SUFFICES ASSUME UiInv, [Next]_vars PROVE UiInv'
    OBVIOUS
  <1>1. ButtonInv'
    BY ButtonStep DEF UiInv
  <1>2. FlashInv' /\ SoundInv' /\ CountInv'
    <2>1. CASE UNCHANGED vars
      BY <2>1 DEF vars, FlashInv, SoundInv, CountInv, UiInv, controlVars, reportVars,
                  displayVars, audioVars, Reported
    <2>2. CASE Next
      BY <2>2, ControlsKeep, ReportKeeps, SetFlashKeeps, QueueKeeps, DisplayKeeps, FillKeeps
         DEF Next, ReportStep
    <2>3. QED
      BY <2>1, <2>2
  <1>3. QED
    BY <1>1, <1>2 DEF UiInv

(* The types hold: in particular the flash timer, which is counted down without
   a lock, stays between zero and the longest flash. *)
THEOREM TypeCorrect == Spec => []TypeOK
  <1>1. UiInv => TypeOK
    <2> SUFFICES ASSUME UiInv PROVE TypeOK
      OBVIOUS
    <2>1. /\ now \in 0 .. MaxTime /\ last_poll \in 0 .. now
          /\ debounce \in [pressed : BOOLEAN, done : BOOLEAN, start_time : 0 .. last_poll]
          /\ last_reset \in -1 .. last_poll
      <3>1. debounce.start_time \in 0 .. last_poll
        BY DEF UiInv, ButtonInv
      <3>2. QED
        BY <3>1 DEF UiInv, ButtonInv, CountInv
    <2>2. QED
      BY <2>1 DEF UiInv, FlashInv, SoundInv, CountInv, TypeOK
  <1>2. QED
    BY <1>1, UiInit, UiStep, PTL DEF Spec

(* What fillPlaybackBuffer reads beyond the end of a sound: at most two samples,
   for every length of the sound and of the buffer. *)
OverrunIsBounded ==
    [][bite.pSound # "none" => lastRead' <= NumSamples[bite.pSound] + 1]_vars

(* Only the playback thread changes a slot that is taken. *)
LEMMA SlotStep ==
    ASSUME UiInv, [Next]_vars, bite.pSound # "none"
    PROVE  fillPlaybackBuffer \/ UNCHANGED <<bite, lastRead>>
  <1>1. CASE \E r \in Reporters : queueSound(r)
    BY <1>1 DEF queueSound
  <1>2. CASE UNCHANGED vars
    BY <1>2 DEF vars, audioVars
  <1>3. CASE Next /\ ~ \E r \in Reporters : queueSound(r)
    BY <1>3 DEF Next, audioVars, ReportStep, DisplayStep, Tick, ControlsPoll, Report,
                SetFlash, FrameTest, FrameLoad, FrameStore
  <1>4. QED
    BY <1>1, <1>2, <1>3

(* No sample of a sound is left out or read twice, and its slot is given back
   only after the last one, for every length and buffer size. *)
THEOREM SoundWhole == Spec => SoundIsWhole
  <1>1. ASSUME UiInv, [Next]_vars
        PROVE  [bite.pSound # "none" /\ bite' # bite
                   => /\ bite.location = lastRead + 1
                      /\ bite'.pSound = "none"
                             => lastRead' >= NumSamples[bite.pSound] - 1]_vars
    <2> SUFFICES ASSUME bite.pSound # "none", bite' # bite
                 PROVE  /\ bite.location = lastRead + 1
                        /\ bite'.pSound = "none"
                               => lastRead' >= NumSamples[bite.pSound] - 1
      OBVIOUS
    <2>1. fillPlaybackBuffer
      BY <1>1, SlotStep
    <2>2. bite.pSound \in Sounds /\ bite.location = lastRead + 1
      BY <1>1 DEF UiInv, SoundInv
    <2>3. NumSamples[bite.pSound] \in Nat
      BY <2>2, SampleNumbers
    <2>4. bite'.pSound = "none" => lastRead' = NumSamples[bite.pSound] + 1
      BY <2>1, <1>1, FillKeeps
    <2>5. QED
      BY <2>2, <2>3, <2>4
  <1>2. QED
    BY <1>1, UiInit, UiStep, PTL DEF Spec, SoundIsWhole

(* The reads beyond the wave data, which SoundIsNotOverrun shows, end with the
   second sample. *)
THEOREM OverrunBounded == Spec => OverrunIsBounded
  <1>1. ASSUME UiInv, [Next]_vars
        PROVE  [bite.pSound # "none" => lastRead' <= NumSamples[bite.pSound] + 1]_vars
    <2> SUFFICES ASSUME bite.pSound # "none"
                 PROVE  lastRead' <= NumSamples[bite.pSound] + 1
      OBVIOUS
    <2>1. /\ bite.pSound \in Sounds
          /\ bite.location <= NumSamples[bite.pSound] + 1
          /\ bite.location = lastRead + 1
          /\ lastRead \in Int
      BY <1>1 DEF UiInv, SoundInv
    <2>2. NumSamples[bite.pSound] \in Nat
      BY <2>1, SampleNumbers
    <2>3. CASE UNCHANGED <<bite, lastRead>>
      BY <2>1, <2>2, <2>3
    <2>4. CASE fillPlaybackBuffer /\ bite'.pSound = "none"
      <3>1. lastRead' = NumSamples[bite.pSound] + 1
        BY <2>4, <1>1, FillKeeps
      <3>2. QED
        BY <3>1, <2>2
    <2>5. CASE fillPlaybackBuffer /\ bite'.pSound # "none"
      <3>1. SoundInv' /\ bite'.pSound = bite.pSound
        BY <2>5, <1>1, FillKeeps DEF fillPlaybackBuffer
      <3>2. /\ bite'.location <= NumSamples[bite.pSound] + 1
            /\ bite'.location = lastRead' + 1
            /\ lastRead' \in Int
        BY <3>1, <2>5 DEF SoundInv
      <3>3. QED
        BY <3>2, <2>2
    <2>6. QED
      BY <1>1, <2>3, <2>4, <2>5, SlotStep
  <1>2. QED
    BY <1>1, UiInit, UiStep, PTL DEF Spec, OverrunIsBounded

=============================================================================
