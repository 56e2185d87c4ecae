-------------------------------- MODULE Watch --------------------------------
(***************************************************************************)
(* The main loop of setup() in src.ino, the two buttons' interrupt         *)
(* handlers, and the two modes as far as they look at the buttons.         *)
(*                                                                         *)
(* What the modes do meanwhile is the matter of GpsReceiver, Tracking and  *)
(* Bluetooth: here they end when a button says so, or by themselves where  *)
(* the code lets them. Time is counted in ticks.                           *)
(*                                                                         *)
(* Init, Next and Spec are called LoopInit, LoopNext and LoopSpec here, so *)
(* that a module can extend this one and that of a mode.                   *)
(***************************************************************************)
EXTENDS Integers

CONSTANTS
    Debounce,       \* the 500 ms that the handlers ask for, in ticks
    Wrap            \* the number of ticks after which millis() starts over

ASSUME TimeAssumption ==
    /\ Debounce \in Nat \ {0}
    /\ Wrap \in Nat /\ Debounce + 1 < Wrap

Button == {"green", "blue"}

VARIABLES
    pressed,        \* g_green_button_pressed, g_blue_button_pressed
    since,          \* millis() - last, in the width of millis()
    pc,             \* where the program is
    madeIn,         \* history: the phase of the press that set the flag
    ago             \* history: ticks since a press was last accepted

loop_vars == <<pressed, since, pc, madeIn, ago>>

(* run_tracking and gps_standby; run_bluetooth; and the main loop itself,  *)
(* with the display of the home screen.                                    *)
TrackingPlace == {"initialize", "tracking", "standby", "clearBlue"}
BluetoothPlace == {"advertise", "session", "sleep", "result", "clearGreen"}
HomePlace == {"loop", "homeFromTracking", "testBlue", "takeBlue", "homeFromBluetooth"}

PhaseOf(p) ==
    CASE p \in TrackingPlace    -> "tracking"
      [] p \in BluetoothPlace   -> "bluetooth"
      [] p \in HomePlace        -> "home"

Phase == {"tracking", "bluetooth", "home"}

LoopTypeOK ==
    /\ pressed \in [Button -> BOOLEAN]
    /\ since \in [Button -> 0..Wrap - 1]
    /\ pc \in TrackingPlace \cup BluetoothPlace \cup HomePlace
    /\ madeIn \in [Button -> Phase]
    /\ ago \in [Button -> 0..Debounce + 1]

(* last is 0 in both handlers, whatever the time the setup has taken.      *)
LoopInit ==
    /\ pressed = [b \in Button |-> FALSE]
    /\ \E t \in 0..Wrap - 1 : since = [b \in Button |-> t]
    /\ pc = "loop"
    /\ madeIn = [b \in Button |-> "home"]
    /\ ago = [b \in Button |-> Debounce + 1]

-----------------------------------------------------------------------------
(* Time and the buttons                                                    *)

(* MUTANT: the difference is that of wider numbers.                        *)
TickUnwrapped ==
    /\ since' = [b \in Button |-> IF since[b] < Wrap THEN since[b] + 1 ELSE 0]
    /\ ago' = [b \in Button |-> IF ago[b] > Debounce THEN ago[b] ELSE ago[b] + 1]
    /\ UNCHANGED <<pressed, pc, madeIn>>

Tick ==
    /\ since' = [b \in Button |-> IF since[b] < Wrap - 1 THEN since[b] + 1 ELSE 0]
    /\ ago' = [b \in Button |-> IF ago[b] > Debounce THEN ago[b] ELSE ago[b] + 1]
    /\ UNCHANGED <<pressed, pc, madeIn>>

(* MUTANT: a press that is accepted does not count as the last one.        *)
HandlePressForgetful(b) ==
    IF since[b] > Debounce
    THEN /\ pressed' = [pressed EXCEPT ![b] = TRUE]
         /\ madeIn' = [madeIn EXCEPT ![b] = PhaseOf(pc)]
         /\ ago' = [ago EXCEPT ![b] = 0]
         /\ UNCHANGED <<since, pc>>
    ELSE since' = [since EXCEPT ![b] = 0] /\ UNCHANGED <<pressed, pc, madeIn, ago>>

(* green_button_handler and blue_button_handler, at each falling edge, the *)
(* bounces of a press included.                                            *)
HandlePress(b) ==
    /\ since' = [since EXCEPT ![b] = 0]
    /\ IF since[b] > Debounce
       THEN /\ pressed' = [pressed EXCEPT ![b] = TRUE]
            /\ madeIn' = [madeIn EXCEPT ![b] = PhaseOf(pc)]
            /\ ago' = [ago EXCEPT ![b] = 0]
       ELSE UNCHANGED <<pressed, madeIn, ago>>
    /\ UNCHANGED pc

-----------------------------------------------------------------------------
(* The program. What it does with interrupts disabled is one step.         *)

Take(b) == pressed[b] /\ pressed' = [pressed EXCEPT ![b] = FALSE]

Clear(b) == pressed' = [pressed EXCEPT ![b] = FALSE]

Goto(p, q) == pc = p /\ pc' = q /\ UNCHANGED <<since, madeIn, ago>>

(* The main loop asks for green before blue.                               *)
StartTracking == Goto("loop", "initialize") /\ Take("green")

StartBluetooth == Goto("loop", "advertise") /\ ~ pressed["green"] /\ Take("blue")

(* After tracking, the same pass of the loop asks for blue with interrupts *)
(* enabled, and clears the flag in a step of its own.                      *)
SkipBlue == Goto("testBlue", "loop") /\ ~ pressed["blue"] /\ UNCHANGED pressed
SeeBlue == Goto("testBlue", "takeBlue") /\ pressed["blue"] /\ UNCHANGED pressed

(* MUTANT: the flag is not cleared.                                        *)
TakeBlueNot == Goto("takeBlue", "advertise") /\ UNCHANGED pressed
TakeBlue == Goto("takeBlue", "advertise") /\ Clear("blue")

(* run_tracking: gps_initialize does not look at the buttons, the loop     *)
(* ends with green, however many lines it has used.                        *)
Initialized == Goto("initialize", "tracking") /\ UNCHANGED pressed
EndTracking == Goto("tracking", "standby") /\ Take("green")
StandBy == Goto("standby", "clearBlue") /\ UNCHANGED pressed

(* MUTANT: the presses of the other button are left as they are.           *)
ClearBlueNot == Goto("clearBlue", "homeFromTracking") /\ UNCHANGED pressed
ClearBlue == Goto("clearBlue", "homeFromTracking") /\ Clear("blue")

PrintHomeFromTracking == Goto("homeFromTracking", "testBlue") /\ UNCHANGED pressed

(* run_bluetooth: the session ends with blue or by itself, and the result  *)
(* stays until blue is found pressed.                                      *)
Advertised == Goto("advertise", "session") /\ UNCHANGED pressed
EndSession == Goto("session", "sleep") /\ (Take("blue") \/ UNCHANGED pressed)
Asleep == Goto("sleep", "result") /\ UNCHANGED pressed
EndBluetooth == Goto("result", "clearGreen") /\ Take("blue")

ClearGreen == Goto("clearGreen", "homeFromBluetooth") /\ Clear("green")

(* MUTANT: the flag is cleared after the home screen is shown.             *)
PrintHomeThenClear == Goto("homeFromBluetooth", "loop") /\ Clear("green")
PrintHomeFromBluetooth == Goto("homeFromBluetooth", "loop") /\ UNCHANGED pressed

-----------------------------------------------------------------------------

Program ==
    \/ StartTracking \/ StartBluetooth
    \/ Initialized \/ EndTracking \/ StandBy \/ ClearBlue \/ PrintHomeFromTracking
    \/ SkipBlue \/ SeeBlue \/ TakeBlue
    \/ Advertised \/ EndSession \/ Asleep \/ EndBluetooth
    \/ ClearGreen \/ PrintHomeFromBluetooth

LoopNext ==
    \/ Tick
    \/ \E b \in Button : HandlePress(b)
    \/ Program

LoopSpec == LoopInit /\ [][LoopNext]_loop_vars

(* The processor runs. That the waits in gps_initialize, the advertising   *)
(* and the way to sleep end is what the other modules are about.           *)
FairLoopSpec == LoopSpec /\ WF_loop_vars(Program)

-----------------------------------------------------------------------------
(* Properties                                                              *)

(* src.ino:52, "Button presses are only received if they are 500ms apart": *)
(* also with bounces between them, and as millis() starts over.            *)
PressesApart ==
    [][\A b \in Button : (ago'[b] = 0 /\ ago'[b] # ago[b]) => ago[b] > Debounce]_loop_vars

(* src.ino:141 and 156: a press of the other mode's button while a mode    *)
(* runs does not start that other mode, neither at once nor later.         *)
OnlyAskedFor ==
    [][/\ pc' = "initialize" /\ pc # pc' => madeIn["green"] # "bluetooth"
       /\ pc' = "advertise" /\ pc # pc' => madeIn["blue"] # "tracking"]_loop_vars

(* What ends a mode is a press made while that mode runs: the one that     *)
(* has started it, or any before, does not end it as well.                 *)
EndedByOwnPress ==
    [][/\ pc = "tracking" /\ pressed' # pressed /\ pc' # pc
            => madeIn["green"] = "tracking"
       /\ pc \in {"session", "result"} /\ pressed' # pressed /\ pc' # pc
            => madeIn["blue"] = "bluetooth"]_loop_vars

(* A press made when no mode runs is answered by a mode, also one made     *)
(* while the home screen is being shown; if both are pressed, by one mode. *)
HomePressIsServed ==
    (\E b \in Button : pressed[b] /\ madeIn[b] = "home" /\ pc \in HomePlace)
        ~> pc \in {"initialize", "advertise"}

=============================================================================
