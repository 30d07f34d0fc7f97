----------------------------- MODULE IoDevices -----------------------------
(***************************************************************************)
(* applications/ioDevices.c: softPWM_thread, which drives three LEDs and   *)
(* the buzzer with a software PWM counted in 10 ms ticks, and              *)
(* button_thread, which polls and debounces the button.                    *)
(*                                                                         *)
(* External: the button's contact, which may bounce.                       *)
(***************************************************************************)
EXTENDS Integers, Sequences

CONSTANTS
    Settings        \* [device -> the arguments of its sotfPwmSet call]

PwmDevs == {"ledr", "ledg", "ledb", "beep"}
Order == <<"ledr", "ledg", "ledb", "beep">>

ASSUME SettingsAssumption ==
    Settings \in [PwmDevs -> [time : Nat, per : Nat, duty : 0..100, flag : {0, 1}]]

VARIABLES
    pwm,            \* [PwmDevs -> the descriptor: cnt, time, period, duty, flag]
    level,          \* [PwmDevs -> output level of the pin]
    turn,           \* softPWM_thread: 0 before the settings, else device index
    contact,        \* level of BUTTON_PIN
    bpc,            \* button_thread
    button_up,      \* the released flag
    reported        \* history: "button down" printed, no release seen since

pwmVars == <<pwm, level, turn>>
buttonVars == <<contact, bpc, button_up, reported>>
ioVars == <<pwm, level, turn, contact, bpc, button_up, reported>>

----------------------------------------------------------------------------
(* softPWM_thread *)

div == 10

sotfPwmSet(d) ==
    [cnt |-> pwm[d].cnt, time |-> Settings[d].time \div div,
     period |-> Settings[d].per \div div, duty |-> Settings[d].duty,
     flag |-> Settings[d].flag]

\* The descriptor after one call: the duration is counted down first.
Ticked(p) ==
    LET t == IF p.time >= 1 THEN p.time - 1 ELSE p.time
    IN  [p EXCEPT !.time = t,
                  !.cnt = IF t # 0 \/ p.flag = 1
                          THEN IF p.cnt + 1 >= p.period THEN 0 ELSE p.cnt + 1
                          ELSE p.cnt]

\* Mutant: endless mode is forgotten.
Active_Timed(p) == p.time # 0

Active(p) == p.time # 0 \/ p.flag = 1

\* The level written for the descriptor after the tick.
Output(p) ==
    IF Active(p) /\ p.cnt <= (p.period * p.duty) \div 100 THEN 1 ELSE 0

\* The four sotfPwmSet calls at the start of the thread.
PwmStart ==
    /\ turn = 0
    /\ pwm' = [d \in PwmDevs |-> sotfPwmSet(d)]
    /\ turn' = 1
    /\ UNCHANGED <<level, buttonVars>>

\* One call for the device whose turn it is.
softPwm_process ==
    LET d == Order[turn]
        p == Ticked(pwm[d])
    IN  /\ turn # 0
        /\ pwm' = [pwm EXCEPT ![d] = p]
        /\ level' = [level EXCEPT ![d] = Output(p)]
        /\ turn' = IF turn = 4 THEN 1 ELSE turn + 1
        /\ UNCHANGED buttonVars

----------------------------------------------------------------------------
(* button_thread *)

\* The contact closes (0) or opens (1).
Contact ==
    /\ contact' = 1 - contact
    /\ UNCHANGED <<bpc, button_up, reported, pwmVars>>

\* First test; when it fails the else branch reads the pin again.
Poll ==
    /\ bpc = "poll"
    /\ bpc' = IF button_up = 1 /\ contact = 0 THEN "debounce" ELSE "else"
    /\ UNCHANGED <<contact, button_up, reported, pwmVars>>

PollElse ==
    /\ bpc = "else"
    /\ bpc' = "poll"
    /\ button_up' = IF contact = 1 THEN 1 ELSE button_up
    /\ reported' = (reported /\ contact = 0)
    /\ UNCHANGED <<contact, pwmVars>>

\* Mutant: the flag stays set, so a held button is reported over and over.
Debounce_NotCleared ==
    /\ bpc = "debounce"
    /\ bpc' = "poll"
    /\ reported' = (reported \/ contact = 0)
    /\ UNCHANGED <<contact, button_up, pwmVars>>

\* After 10 ms: the flag is cleared before the second read decides.
Debounce ==
    /\ bpc = "debounce"
    /\ bpc' = "poll"
    /\ button_up' = 0
    /\ reported' = (reported \/ contact = 0)
    /\ UNCHANGED <<contact, pwmVars>>

----------------------------------------------------------------------------
\* ioDevs_thread_init: all pins low, contact open (pulled up).
Io_Init ==
    /\ pwm = [d \in PwmDevs |-> [cnt |-> 0, time |-> 0, period |-> 0, duty |-> 0, flag |-> 0]]
    /\ level = [d \in PwmDevs |-> 0]
    /\ turn = 0
    /\ contact = 1
    /\ bpc = "poll"
    /\ button_up = 1
    /\ reported = FALSE

softPWM_thread == PwmStart \/ softPwm_process
button_thread == Poll \/ PollElse \/ Debounce

Io_Next == softPWM_thread \/ button_thread \/ Contact

Io_Spec == Io_Init /\ [][Io_Next]_ioVars

\* Both threads only ever sleep.
Io_FairSpec == Io_Spec /\ WF_ioVars(softPWM_thread) /\ WF_ioVars(button_thread)

----------------------------------------------------------------------------
(* Properties *)

\* A device with a duration falls silent for good; an endless one keeps
\* changing (softPwm_process).
DurationObeyed ==
    /\ \A d \in PwmDevs : Settings[d].flag = 0 => <>[](level[d] = 0)
    /\ \A d \in PwmDevs : Settings[d].flag = 1 =>
            []<>(level[d] = 1) /\ []<>(level[d] = 0)

\* "button down" is printed once per press: never again before the thread
\* has read the contact open.
OneReportPerPress ==
    [][bpc = "debounce" /\ bpc' = "poll" /\ contact = 0 => ~reported]_ioVars

============================================================================
