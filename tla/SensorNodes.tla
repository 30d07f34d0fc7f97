---------------------------- MODULE SensorNodes ----------------------------
(***************************************************************************)
(* How the sensor threads of applications/sensor.c come up, and the        *)
(* readings of the depth sensor they find.                                 *)
(*                                                                         *)
(* sensor_lowSpeed_callback_fun sets up the ADS1118 converter,             *)
(* depthSensor_thread tries the MS5837 and then the SPL1301 to find out    *)
(* which depth sensor is plugged in; the steps of those Setups are the     *)
(* actions of Ms5837 and Spl1301.  Each driver registers a "node", a       *)
(* range of pin numbers, in the one linked list wiringPiNodes, which no    *)
(* lock protects: the overlap check, the read of the list head and the     *)
(* store of the new head are separate steps of the two threads.            *)
(* wiringPiFailure(WPI_FATAL) ends the whole process.                      *)
(***************************************************************************)
EXTENDS Integers, Ms5837, Spl1301

CONSTANTS
    AdsBase,     \* the argument of ads1118Setup
    DepthBase,   \* DEPTH_SENSOR_PIN_BASE
    Fds,         \* descriptors an open() may return
    Boards       \* the boards the program may be started on: records of the
                 \* variables that describe the hardware

\* wiringPiNewNode ends the process for a base below 64.
ASSUME BaseAssumption ==
    AdsBase \in Nat /\ DepthBase \in Nat /\ AdsBase >= 64 /\ DepthBase >= 64
ASSUME FdAssumption == Fds \subseteq Nat
\* A PROM carries its CRC; registers hold bytes; the rates asked for
\* are those of the driver (its own calls ask for 8), or too low for a shift.
ASSUME BoardsAssumption ==
    \A b \in Boards :
        /\ b.ms => b.prom \in [PromWords -> 0..(2^16 - 1)] /\ RightCrc(b.prom)
        /\ b.water.D2 \subseteq Nat
        /\ b.spl => b.mem \in [0..17 -> Bytes]
        /\ b.samples # {} /\ b.samples \subseteq Bytes \X Bytes \X Bytes
        /\ \A ch \in Channels : /\ b.asked[ch].over \in Nat
                                /\ \/ b.asked[ch].over <= 8
                                   \/ \E e \in 0..7 : b.asked[ch].over = 2^e

VARIABLES
    buses,        \* the bus devices /dev holds: "spi" and "i2c"
    returnCodes,  \* wiringPiReturnCodes: a failed open returns -1, not exit
    pc,           \* [Threads -> program point]
    driver,       \* [Threads -> the driver whose Setup the thread runs]
    pin,          \* [Threads -> pin the overlap check looks at next]
    own_fd,       \* [Drivers -> the static descriptor of its Setup]
    heap,         \* [Drivers -> the node its Setup made]
    head,         \* wiringPiNodes
    name,         \* depthSensor->name
    alive         \* the process has not exited

world == <<buses, returnCodes>>
nodeVars == <<world, pc, driver, pin, own_fd, heap, head, name, alive>>
sensorVars == <<msVars, splVars, nodeVars>>

Threads == {"lowSpeed", "depth"}
DepthDrivers == {"ms5837", "spl1301"}
Drivers == {"ads1118"} \cup DepthDrivers
Null == "null"

BaseOf(d) == IF d = "ads1118" THEN AdsBase ELSE DepthBase
NumPins(d) == IF d = "ads1118" THEN 4 ELSE 2
BusOf(d) == IF d = "ads1118" THEN "spi" ELSE "i2c"
Pins(d) == BaseOf(d) .. (BaseOf(d) + NumPins(d) - 1)

\* The pin after the last one wiringPiNewNode checks for an overlap.
ScanEnd(d) == BaseOf(d) + NumPins(d)

NoNode == [base |-> 0, max |-> 0, fd |-> 0, read |-> "none", next |-> Null]

\* The first node of the list that has the pin, or Null.
wiringPiFindNode(p) ==
    LET from[d \in Drivers \cup {Null}] ==
            IF d = Null \/ p \in heap[d].base .. heap[d].max THEN d
            ELSE from[heap[d].next]
    IN  from[head]

-----------------------------------------------------------------------------
Start_Init ==
    /\ \E b \in Boards :
        /\ buses = b.buses /\ returnCodes = b.returnCodes
        /\ ms_present = b.ms /\ prom = b.prom /\ noisy = b.noisy /\ water = b.water
        /\ spl_present = b.spl /\ mem = b.mem /\ samples = b.samples
        /\ asked = b.asked /\ shift = b.shift /\ mode = b.mode
    /\ Ms_Init /\ Spl_Init
    /\ pc = [t \in Threads |-> "open"]
    /\ driver = [t \in Threads |-> IF t = "lowSpeed" THEN "ads1118" ELSE "ms5837"]
    /\ pin = [t \in Threads |-> 0]
    /\ own_fd = [d \in Drivers |-> 0]
    /\ heap = [d \in Drivers |-> NoNode]
    /\ head = Null
    /\ name = "unset"
    /\ alive = TRUE

At(t, p) == alive /\ pc[t] = p
Goto(t, p) == pc' = [pc EXCEPT ![t] = p]

\* wiringPiFailure's exit(EXIT_FAILURE), taken by whichever thread.
Exit ==
    /\ alive' = FALSE
    /\ UNCHANGED <<world, pc, driver, pin, own_fd, heap, head, name>>

\* Mutant: The second driver of the "else if" is never tried.
Next_Driver_Once ==
    /\ name' = "no plugged a depthSensor"
    /\ Goto("depth", "done")
    /\ UNCHANGED driver

\* depthSensor_thread's "else if": a Setup that failed hands over to the
\* next driver, and after the last one no sensor is taken to be there.
Next_Driver ==
    IF driver["depth"] = "ms5837"
    THEN /\ driver' = [driver EXCEPT !["depth"] = "spl1301"]
         /\ Goto("depth", "open")
         /\ UNCHANGED name
    ELSE /\ name' = "no plugged a depthSensor"
         /\ Goto("depth", "done")
         /\ UNCHANGED driver

\* wiringPiSPISetup / wiringPiI2CSetupInterface where the device is there.
Open(t) ==
    /\ At(t, "open")
    /\ BusOf(driver[t]) \in buses
    /\ \E f \in Fds : own_fd' = [own_fd EXCEPT ![driver[t]] = f]
    /\ Goto(t, "probe")
    /\ UNCHANGED <<world, driver, pin, heap, head, name, alive>>

\* The same where it is not: the library exits the process, unless the
\* environment asks for return codes.
Open_Exit(t) ==
    /\ At(t, "open")
    /\ BusOf(driver[t]) \notin buses
    /\ ~ returnCodes
    /\ Exit

\* ads1118Setup logs a failed open and goes on with fd = -1.
Ads_Open_Failed ==
    /\ At("lowSpeed", "open")
    /\ "spi" \notin buses
    /\ returnCodes
    /\ own_fd' = [own_fd EXCEPT !["ads1118"] = -1]
    /\ Goto("lowSpeed", "probe")
    /\ UNCHANGED <<world, driver, pin, heap, head, name, alive>>

\* A depth driver returns -1 at once.
Depth_Open_Failed ==
    /\ At("depth", "open")
    /\ "i2c" \notin buses
    /\ returnCodes
    /\ own_fd' = [own_fd EXCEPT ![driver["depth"]] = -1]
    /\ Next_Driver
    /\ UNCHANGED <<world, pin, heap, head, alive>>

\* Writing the configuration register tells nothing about the chip.
Ads_Probe ==
    /\ At("lowSpeed", "probe")
    /\ pin' = [pin EXCEPT !["lowSpeed"] = AdsBase]
    /\ Goto("lowSpeed", "scan")
    /\ UNCHANGED <<world, driver, own_fd, heap, head, name, alive>>

\* The Setup of a depth driver up to its verdict on the chip.
Depth_Setup ==
    /\ At("depth", "probe")
    /\ \/ driver["depth"] = "ms5837" /\ Ms_Setup /\ UNCHANGED splVars
       \/ driver["depth"] = "spl1301" /\ Spl_Setup /\ UNCHANGED msVars
    /\ UNCHANGED nodeVars

\* The CRC of the MS5837, or c0 of the SPL1301, tells whether the chip is
\* there; without it the Setup returns -1.
Answers(d) == IF d = "ms5837" THEN ms_pc = "ready" ELSE spl_pc = "idle"
Refused(d) == IF d = "ms5837" THEN ms_pc = "absent" ELSE spl_pc = "absent"

Depth_Probe ==
    /\ At("depth", "probe")
    /\ \/ /\ Answers(driver["depth"])
          /\ pin' = [pin EXCEPT !["depth"] = DepthBase]
          /\ Goto("depth", "scan")
          /\ UNCHANGED <<driver, name>>
       \/ /\ Refused(driver["depth"])
          /\ Next_Driver
          /\ UNCHANGED pin
    /\ UNCHANGED <<world, own_fd, heap, head, alive>>

\* Mutant: The loop of the check does not advance its pin.
NewNode_Scan_NoStep(t) ==
    /\ At(t, "scan")
    /\ pin[t] < ScanEnd(driver[t])
    /\ wiringPiFindNode(pin[t]) = Null
    /\ UNCHANGED nodeVars

\* One pin of wiringPiNewNode's overlap check.
NewNode_Scan(t) ==
    /\ At(t, "scan")
    /\ pin[t] < ScanEnd(driver[t])
    /\ wiringPiFindNode(pin[t]) = Null
    /\ pin' = [pin EXCEPT ![t] = @ + 1]
    /\ UNCHANGED <<world, pc, driver, own_fd, heap, head, name, alive>>

NewNode_Overlap(t) ==
    /\ At(t, "scan")
    /\ pin[t] < ScanEnd(driver[t])
    /\ wiringPiFindNode(pin[t]) # Null
    /\ Exit

\* calloc, the pin range, the dummy methods: node->next is the head as read
\* now.
NewNode_Next(t) ==
    /\ At(t, "scan")
    /\ pin[t] = ScanEnd(driver[t])
    /\ heap' = [heap EXCEPT ![driver[t]] =
                  [base |-> BaseOf(driver[t]),
                   max |-> BaseOf(driver[t]) + NumPins(driver[t]) - 1,
                   fd |-> 0, read |-> "dummy", next |-> head]]
    /\ Goto(t, "link")
    /\ UNCHANGED <<world, driver, pin, own_fd, head, name, alive>>

\* wiringPiNodes = node
NewNode_Link(t) ==
    /\ At(t, "link")
    /\ head' = driver[t]
    /\ Goto(t, "register")
    /\ UNCHANGED <<world, driver, pin, own_fd, heap, name, alive>>

\* Mutant: The Setup forgets its read method.
Register_NoMethod(t) ==
    /\ At(t, "register")
    /\ heap' = [heap EXCEPT ![driver[t]].fd = own_fd[driver[t]]]
    /\ IF t = "depth"
       THEN /\ name' = driver[t]
       ELSE UNCHANGED name
    /\ Goto(t, "done")
    /\ UNCHANGED <<world, driver, pin, own_fd, head, alive>>

\* The Setup stores its descriptor and its read method in the node and
\* returns the descriptor; a depth driver that returned fd > 0 is the sensor.
Register(t) ==
    /\ At(t, "register")
    /\ heap' = [heap EXCEPT ![driver[t]].fd = own_fd[driver[t]],
                            ![driver[t]].read = driver[t]]
    /\ IF t = "depth"
       THEN IF own_fd[driver[t]] > 0
            THEN /\ name' = driver[t]
                 /\ Goto(t, "done")
                 /\ UNCHANGED driver
            ELSE Next_Driver
       ELSE Goto(t, "done") /\ UNCHANGED <<driver, name>>
    /\ UNCHANGED <<world, pin, own_fd, head, alive>>

NodeStep(t) ==
    \/ Open(t) \/ Open_Exit(t)
    \/ t = "lowSpeed" /\ (Ads_Open_Failed \/ Ads_Probe)
    \/ t = "depth" /\ (Depth_Open_Failed \/ Depth_Probe)
    \/ NewNode_Scan(t) \/ NewNode_Overlap(t)
    \/ NewNode_Next(t) \/ NewNode_Link(t) \/ Register(t)

ThreadStep(t) ==
    \/ NodeStep(t) /\ UNCHANGED <<msVars, splVars>>
    \/ t = "depth" /\ Depth_Setup

\* analogRead on pin DepthBase + ch reaches the driver whose node the list
\* yields, once it has stored its method.
Reaches(d, ch) ==
    /\ alive
    /\ wiringPiFindNode(DepthBase + ch) = d
    /\ heap[d].read = d

\* Readings: any thread may call analogRead (the calls in depthSensor_thread
\* are commented out).  A caller waits for its reading.
analogRead ==
    \/ /\ \E ch \in {PRESSURE_SENSOR, TEMPERATURE_SENSOR} :
            Reaches("ms5837", ch) /\ ms5837_myDigitalRead(ch)
       /\ UNCHANGED splVars
    \/ /\ \/ Reaches("spl1301", PRESSURE_SENSOR) /\ spl1301_myDigitalRead("P")
          \/ Reaches("spl1301", TEMPERATURE_SENSOR) /\ spl1301_myDigitalRead("T")
          \/ alive /\ Spl_Read
       /\ UNCHANGED msVars

Reading ==
    /\ \/ analogRead
       \/ alive /\ Chip_Sample /\ UNCHANGED msVars
    /\ UNCHANGED nodeVars

Finished == ~ alive \/ \A t \in Threads : pc[t] = "done"

\* Both threads then loop for ever without touching the nodes.
Stay == Finished /\ UNCHANGED sensorVars

Start_Next == (\E t \in Threads : ThreadStep(t)) \/ Reading \/ Stay

Start_Spec == Start_Init /\ [][Start_Next]_sensorVars /\ \A t \in Threads : WF_sensorVars(ThreadStep(t))

-----------------------------------------------------------------------------

\* When depthSensor_thread has finished its trials, depthSensor->name is that
\* of the first driver whose check the plugged-in chip passes, whatever the
\* other thread did to the list meanwhile; never that of a chip that is not
\* there.  The check of the MS5837 is made on the words of its PROM as they
\* arrived, bytes swapped: one that is plugged in is missed unless those words
\* happen to carry their CRC, so that the name often is not "which sensor is
\* plugged in" ("来判断接入的是哪种传感器", sensor.c:93).
FirstPlugged ==
    IF "i2c" \notin buses THEN "no plugged a depthSensor"
    ELSE IF ms_present /\ RightCrc(Arrived) THEN "ms5837"
    ELSE IF spl_present /\ Field(0, 3) # -1 THEN "spl1301"
    ELSE "no plugged a depthSensor"
DetectionRight == alive /\ pc["depth"] = "done" => name = FirstPlugged

\* A pin that leads to the node of a driver whose Setup has returned leads to
\* that driver: the node has its descriptor, its read method and its pins, so
\* a read of the pin talks to the right chip; and what the SPL1301's driver
\* then computes with is what that chip holds and runs with.
NodesComplete ==
    alive => \A t \in Threads : pc[t] = "done" /\ (t = "depth" => name = driver[t]) =>
        /\ name = "spl1301" => CalibRight /\ ConfigConsistent
        /\ \A p \in Pins("ads1118") \cup Pins("ms5837") :
            wiringPiFindNode(p) = driver[t] =>
                /\ heap[driver[t]].fd = own_fd[driver[t]]
                /\ heap[driver[t]].read = driver[t]
                /\ heap[driver[t]].base .. heap[driver[t]].max = Pins(driver[t])

\* Start-up settles: both threads get through their Setups or the process
\* ends; neither hangs in the overlap check or in the trials.
StartupSettles == <>[]Finished
=============================================================================
