------------------------------ MODULE Pca9685 ------------------------------
(***************************************************************************)
(* drivers/pca9685.c: the PWM chip behind the propellers and the servos,   *)
(* programmed over I2C.  A call is the sequence of I2C transactions it     *)
(* makes, and transactions of different threads interleave.                *)
(*                                                                         *)
(* External: the chip.  It is powered up asleep, every channel full-off    *)
(* and without auto-increment: of a word the second byte then goes where   *)
(* the first one went.  Asleep it turns no output on or off.  Full-off     *)
(* beats full-on, which beats the counters; a write to ALL_LED writes      *)
(* every channel and a read of it returns 0; the prescaler is writable     *)
(* only while the chip sleeps.                                             *)
(***************************************************************************)
EXTENDS Integers, Sequences

CONSTANTS
    Pins,           \* channels of the chip, 0 .. PIN_ALL - 1
    PIN_ALL,        \* the pin that stands for every channel
    Threads,        \* threads that write pins, once pca9685Setup has returned
    Owns,           \* [Threads -> pins the thread writes]
    Nibble, Byte,   \* values of the high and of the low half of a counter
    Freqs,          \* frequencies asked for
    FREQ_MIN, FREQ_MAX,
    Prescale(_)     \* the prescaler value of a frequency

Max12 == Nibble * Byte          \* 4096
Values == 0..Max12

ASSUME PinsAssumption == PIN_ALL \in Nat /\ Pins = 0..(PIN_ALL - 1)
ASSUME OwnsAssumption ==
    /\ Owns \in [Threads -> SUBSET (Pins \cup {PIN_ALL})]
    /\ "main" \notin Threads
ASSUME HalvesAssumption ==      \* four bits and the full bit fit a register
    /\ Nibble \in Nat \ {0} /\ Byte \in Nat \ {0}
    /\ 2 * Nibble <= Byte

\* The two registers of a 16-bit counter: the low byte, and the high byte with
\* its full bit (bit 4).
Word(full, count) ==
    [full |-> full, hi |-> count \div Byte, lo |-> count % Byte]
Count(w) == w.hi * Byte + w.lo

VARIABLES
    led,        \* [Pins -> [on, off : the LEDn_ON and LEDn_OFF registers]]
    mode1,      \* MODE1 of the chip: sleep, auto-increment and restart bits
    prescale,   \* PRE_SCALE of the chip
    shadow,     \* the static struct pca9685_dev the bits are assigned to
    todo,       \* [callers -> transactions its call has still to make]
    state,      \* [callers -> the value its last read of a half returned]
    local,      \* the local pca9685_dev of pca9685PWMSetFreq
    target,     \* [callers -> the pin its call is about]
    inited,     \* pca9685Setup: "no", "running", "yes", "failed"
    asked,      \* history: [Pins -> low or high, as last asked of the channel]
    before,     \* history: [Pins -> what it commanded when its call began]
    clashed     \* history: pins that two calls were about at the same time

history == <<asked, before, clashed>>
pcaVars == <<led, mode1, prescale, shadow, todo, state, local, target,
             inited, history>>

Callers == Threads \cup {"main"}

----------------------------------------------------------------------------
(* The I2C transactions of each function.                                  *)

baseReg(pin) == IF pin >= PIN_ALL THEN Pins ELSE {pin}

Read8(pin, half) == [op |-> "read", pin |-> pin, half |-> half]
Write8(pin, half, tf) ==
    [op |-> "write8", pin |-> pin, half |-> half, full |-> tf]
Write16(pin, half, w) ==
    [op |-> "write16", pin |-> pin, half |-> half, word |-> w]
ReadMode == [op |-> "readMode"]
WriteMode(sl, rs) == [op |-> "writeMode", sleep |-> sl, restart |-> rs]
WritePrescale(p) == [op |-> "prescale", value |-> p]
NewNode == [op |-> "node"]

pca9685FullOff(pin, tf) == << Read8(pin, "off"), Write8(pin, "off", tf) >>

\* Mutant: full-off is left set, and wins over full-on.
FullOn_KeepsOff(pin, tf) == << Read8(pin, "on"), Write8(pin, "on", tf) >>
\* Mutant: full-off is cleared before full-on is set.
FullOn_OffFirst(pin, tf) ==
    (IF tf THEN pca9685FullOff(pin, FALSE) ELSE << >>)
        \o << Read8(pin, "on"), Write8(pin, "on", tf) >>

pca9685FullOn(pin, tf) ==
    << Read8(pin, "on"), Write8(pin, "on", tf) >>
        \o (IF tf THEN pca9685FullOff(pin, FALSE) ELSE << >>)

pca9685PWMWrite(pin, on, off) ==
    << Write16(pin, "on", Word(FALSE, on % Max12)),
       Write16(pin, "off", Word(FALSE, off % Max12)) >>

pca9685PWMReset ==
    << Write16(PIN_ALL, "on", Word(FALSE, 0)),
       Write16(PIN_ALL, "off", Word(TRUE, 0)) >>

\* The bits are assigned to the static struct, but MODE1 is written from a
\* local variable of the same name: what was read.
pca9685PWMSetFreq(freq) ==
    LET f == IF freq > FREQ_MAX THEN FREQ_MAX
             ELSE IF freq < FREQ_MIN THEN FREQ_MIN ELSE freq
    IN  << ReadMode, WriteMode(TRUE, FALSE), WritePrescale(Prescale(f)),
           WriteMode(FALSE, FALSE), WriteMode(FALSE, TRUE) >>

myPwmWrite(pin, value) ==
    IF value >= Max12 THEN pca9685FullOn(pin, TRUE)
    ELSE IF value > 0 THEN pca9685PWMWrite(pin, 0, value)
    ELSE pca9685FullOff(pin, TRUE)

myOnOffWrite(pin, value) ==
    IF value # 0 THEN pca9685FullOn(pin, TRUE) ELSE pca9685FullOff(pin, TRUE)

----------------------------------------------------------------------------
(* What the chip drives on a pin: 0 is low, Max12 is high.                 *)

\* What the registers of a channel ask for ...
Commanded(l) == IF l.off.full THEN 0
                ELSE IF l.on.full THEN Max12
                ELSE Count(l.off) - Count(l.on)

\* ... and what its output, low until the chip is woken, is.
Driven(p) == IF mode1.sleep THEN 0 ELSE Commanded(led[p])

PoweredUp == [on |-> Word(FALSE, 0), off |-> Word(TRUE, 0)]

Pca_Init ==
    /\ led = [p \in Pins |-> PoweredUp]
    /\ mode1 = [sleep |-> TRUE, ai |-> FALSE, restart |-> FALSE]
    /\ prescale = 0
    /\ shadow = [sleep |-> FALSE, restart |-> FALSE]
    /\ todo = [c \in Callers |-> << >>]
    /\ state = [c \in Callers |-> 0]
    /\ local = [sleep |-> FALSE, ai |-> FALSE, restart |-> FALSE]
    /\ target = [c \in Callers |-> PIN_ALL]
    /\ inited = "no"
    /\ asked = [p \in Pins |-> 0]
    /\ before = [p \in Pins |-> 0]
    /\ clashed = {}

\* pca9685Setup: opening the bus fails, or the frequency is set, the node is
\* made and every output is reset (wiringPiNewNode ends the process rather than
\* return NULL).  Its call of pca9685PWMFreq is taken to be of
\* pca9685PWMSetFreq, the only definition there is.
pca9685Setup ==
    /\ inited = "no"
    /\ \/ inited' = "failed" /\ UNCHANGED todo
       \/ \E f \in Freqs :
            /\ inited' = "running"
            /\ todo' = [todo EXCEPT !["main"] =
                    pca9685PWMSetFreq(f) \o <<NewNode>> \o pca9685PWMReset]
    /\ UNCHANGED <<led, mode1, prescale, shadow, state, local, target, history>>

Setup_Return ==
    /\ inited = "running"
    /\ todo["main"] = << >>
    /\ inited' = "yes"
    /\ UNCHANGED <<led, mode1, prescale, shadow, todo, state, local, target, history>>

Busy(p) == \E c \in Callers : todo[c] # << >> /\ p \in baseReg(target[c])

\* pwmWrite or digitalWrite of an owned pin.
Call(t, pin, value, ops) ==
    /\ inited = "yes"
    /\ todo[t] = << >>
    /\ pin \in Owns[t]
    /\ todo' = [todo EXCEPT ![t] = ops]
    /\ target' = [target EXCEPT ![t] = pin]
    /\ asked' = [p \in Pins |->
            IF p \in baseReg(pin) /\ value \in {0, Max12} THEN value ELSE asked[p]]
    /\ before' = [p \in Pins |->
            IF p \in baseReg(pin) THEN Commanded(led[p]) ELSE before[p]]
    /\ clashed' = clashed \cup {p \in baseReg(pin) : Busy(p)}
    /\ UNCHANGED <<led, mode1, prescale, shadow, state, local, inited>>

pwmWrite(t) == \E pin \in Owns[t], v \in Values :
    Call(t, pin, v, myPwmWrite(pin, v))
digitalWrite(t) == \E pin \in Owns[t], v \in {0, 1} :
    Call(t, pin, v * Max12, myOnOffWrite(pin, v))

----------------------------------------------------------------------------
(* One I2C transaction of caller c.                                        *)

Next_Op(c, kind) ==
    /\ todo[c] # << >>
    /\ Head(todo[c]).op = kind
    /\ todo' = [todo EXCEPT ![c] = Tail(@)]

Op(c) == Head(todo[c])

\* The high register of the half, without its full bit; ALL_LED reads as 0.
ReadReg8(c) ==
    /\ Next_Op(c, "read")
    /\ state' = [state EXCEPT ![c] =
            IF Op(c).pin >= PIN_ALL THEN 0 ELSE led[Op(c).pin][Op(c).half].hi]
    /\ UNCHANGED <<led, mode1, prescale, shadow, local, target, inited, history>>

\* state | 0x10 or state & 0xEF, written to the high register.
WriteReg8(c) ==
    /\ Next_Op(c, "write8")
    /\ led' = [p \in Pins |-> IF p \notin baseReg(Op(c).pin) THEN led[p]
            ELSE [led[p] EXCEPT ![Op(c).half] =
                    [full |-> Op(c).full, hi |-> state[c], lo |-> @.lo]]]
    /\ UNCHANGED <<mode1, prescale, shadow, state, local, target, inited, history>>

\* Two bytes from the low register of the half on: the low one, then the high one
\* with the full bit, into the next register or over the first.
Stored(r, w) ==
    IF mode1.ai THEN w
    ELSE [r EXCEPT !.lo = w.hi + (IF w.full THEN Nibble ELSE 0)]

WriteReg16(c) ==
    /\ Next_Op(c, "write16")
    /\ led' = [p \in Pins |-> IF p \notin baseReg(Op(c).pin) THEN led[p]
            ELSE [led[p] EXCEPT ![Op(c).half] = Stored(@, Op(c).word)]]
    /\ UNCHANGED <<mode1, prescale, shadow, state, local, target, inited, history>>

Mode_Read(c) ==
    /\ Next_Op(c, "readMode")
    /\ local' = mode1
    /\ UNCHANGED <<led, mode1, prescale, shadow, state, target, inited, history>>

\* Mutant: the bits that were assigned are written.
Mode_Write_Assigned(c) ==
    /\ Next_Op(c, "writeMode")
    /\ shadow' = [sleep |-> Op(c).sleep, restart |-> Op(c).restart]
    /\ mode1' = [local EXCEPT !.sleep = Op(c).sleep, !.restart = Op(c).restart]
    /\ UNCHANGED <<led, prescale, state, local, target, inited, history>>

Mode_Write(c) ==
    /\ Next_Op(c, "writeMode")
    /\ shadow' = [sleep |-> Op(c).sleep, restart |-> Op(c).restart]
    /\ mode1' = local
    /\ UNCHANGED <<led, prescale, state, local, target, inited, history>>

Prescale_Write(c) ==
    /\ Next_Op(c, "prescale")
    /\ prescale' = IF mode1.sleep THEN Op(c).value ELSE prescale
    /\ UNCHANGED <<led, mode1, shadow, state, local, target, inited, history>>

Node_Made(c) ==
    /\ Next_Op(c, "node")
    /\ UNCHANGED <<led, mode1, prescale, shadow, state, local, target, inited, history>>

Pca_Next ==
    \/ pca9685Setup
    \/ Setup_Return
    \/ \E t \in Threads : pwmWrite(t) \/ digitalWrite(t)
    \/ \E c \in Callers : \/ ReadReg8(c) \/ WriteReg8(c) \/ WriteReg16(c)
                          \/ Mode_Read(c) \/ Mode_Write(c) \/ Prescale_Write(c)
                          \/ Node_Made(c)

Pca_Spec == Pca_Init /\ [][Pca_Next]_pcaVars

----------------------------------------------------------------------------
(* Properties *)

\* MODE1 is written back as it was read (pca9685.c:47-62), so the chip never leaves
\* the sleep it is powered up in and drives no output, whatever is asked of it: the
\* opposite of what pca9685.c:56 and :188 say.
OutputsStayLow == \A p \in Pins : Driven(p) = 0

\* What reaches the registers all the same: a channel set full-on or full-off by
\* myPwmWrite or myOnOffWrite, alone or with all, is what was last asked once the
\* calls about it have returned, and in between one of what it was and what is
\* asked; nothing clears a full bit but pca9685FullOn, so counter values written
\* before, meanwhile or after change nothing, and never show.
SwitchedAsAsked ==
    inited = "yes" => \A p \in Pins \ clashed :
        /\ Commanded(led[p]) \in {before[p], asked[p]}
        /\ ~Busy(p) => Commanded(led[p]) = asked[p]
=============================================================================
