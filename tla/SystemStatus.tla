---------------------------- MODULE SystemStatus ----------------------------
(***************************************************************************)
(* The threads that watch the board: cpu_status_thread, net_speed_thread   *)
(* and mem_disk_status_thread (applications/data.c) and                    *)
(* sensor_lowSpeed_callback_fun (applications/sensor.c), on top of         *)
(* drivers/cpu_status.c, which opens a file or a pipe for every reading.   *)
(* get_cpu_temp keeps its FILE* in a static variable that two of the       *)
(* threads share; get_net_data never closes its file.                      *)
(*                                                                         *)
(* External: the stdio library.  A handle is a number, 0 is NULL; a closed *)
(* handle may be handed out again.  Using NULL ends the process; using a   *)
(* closed handle may.                                                      *)
(***************************************************************************)
EXTENDS Integers, Sequences, FiniteSets

CONSTANTS
    MaxFiles,       \* files a process may have open
    M               \* 2^32: counters of /proc/stat are uint32_t

AllThreads == {"cpu", "low", "net", "mem"}

ASSUME SizesAssumption == MaxFiles \in Nat /\ M \in Nat

VARIABLES
    Threads,        \* the threads that are scheduled; the others sleep
    MaxTicks,       \* idle and busy ticks in one second of sleep: bound
    pc,             \* [Threads -> index into the thread's program]
    fp,             \* the static FILE* of get_cpu_temp
    mine,           \* [Threads -> the handle the thread's last fopen returned]
    files,          \* open handles
    idle, busy,     \* /proc/stat: the idle counter, and the sum of the others
    snap,           \* [Threads -> idle and total time read first]; 0: none
    gone,           \* history: [Threads -> idle and busy ticks since then]
    usage,          \* [Threads -> cpu usage as <<numerator, denominator>>]
    sever_sock,     \* the server's socket exists
    ip,             \* system->net.ip has been filled in
    alive,
    shared          \* history: two threads were inside get_cpu_temp at a time

status_vars ==
    <<Threads, MaxTicks, pc, fp, mine, files, idle, busy, snap, gone, usage,
      sever_sock, ip, alive, shared>>
statVars == <<idle, busy, snap, gone, usage>>

\* Mutant: the temperature is read after its file has been closed.
Program_CloseFirst == [t \in AllThreads |->
    CASE t = "cpu" -> <<"tempOpen", "tempClose", "tempRead",
                        "stat1", "close", "stat2", "close", "usage", "oled">>
      [] t = "low" -> <<"stat1", "close", "stat2", "close", "usage",
                        "tempOpen", "tempClose", "tempRead">>
      [] t = "net" -> <<"ip", "netData", "netData">>
      [] t = "mem" -> <<"open", "close", "open", "close">>]

\* The calls each thread makes, in order; the loop starts at LoopStart.
Program == [t \in AllThreads |->
    CASE t = "cpu" -> <<"tempOpen", "tempRead", "tempClose",
                        "stat1", "close", "stat2", "close", "usage", "oled">>
      [] t = "low" -> <<"stat1", "close", "stat2", "close", "usage",
                        "tempOpen", "tempRead", "tempClose">>
      [] t = "net" -> <<"ip", "netData", "netData">>
      [] t = "mem" -> <<"open", "close", "open", "close">>]
LoopStart(t) == IF t = "net" THEN 2 ELSE 1

At(t, op) == alive /\ Program[t][pc[t]] = op
Go(t) == pc' = [pc EXCEPT ![t] = IF @ = Len(Program[t]) THEN LoopStart(t) ELSE @ + 1]

\* fopen: a free handle, NULL when there is none.
Handles == 1..MaxFiles
FreeHandle == IF files = Handles THEN 0 ELSE CHOOSE h \in Handles : h \notin files

----------------------------------------------------------------------------
Status_Init ==
    /\ pc = [t \in Threads |-> 1]
    /\ fp = 0
    /\ mine = [t \in Threads |-> 0]
    /\ files = {}
    /\ idle = 0 /\ busy = 0
    /\ snap = [t \in Threads |-> <<0, 0>>]
    /\ gone = [t \in Threads |-> <<0, 0>>]
    /\ usage = [t \in Threads |-> <<0, 1>>]
    /\ sever_sock = FALSE /\ ip = FALSE
    /\ alive = TRUE /\ shared = FALSE

\* An fopen and the reads through the local FILE* that follow it; NULL is not
\* tested for.
OpenAndRead(t) ==
    /\ mine' = [mine EXCEPT ![t] = FreeHandle]
    /\ files' = files \cup ({FreeHandle} \ {0})
    /\ alive' = (FreeHandle # 0)
    /\ Go(t)

\* get_memory_status and get_disk_status up to their close.
get_memory_disk_status(t) ==
    /\ At(t, "open")
    /\ OpenAndRead(t)
    /\ UNCHANGED <<fp, statVars, sever_sock, ip>>

\* Mutant: the shared handle is closed instead of the thread's own.
close_Shared(t) ==
    /\ At(t, "close")
    /\ files' = files \ {fp}
    /\ mine' = [mine EXCEPT ![t] = 0]
    /\ Go(t)
    /\ UNCHANGED <<fp, statVars, sever_sock, ip, alive>>

\* fclose or pclose of the thread's own file.
close(t) ==
    /\ At(t, "close")
    /\ files' = files \ {mine[t]}
    /\ mine' = [mine EXCEPT ![t] = 0]
    /\ Go(t)
    /\ UNCHANGED <<fp, statVars, sever_sock, ip, alive>>

\* get_net_data: the file is read and forgotten.
get_net_data(t) ==
    /\ At(t, "netData")
    /\ OpenAndRead(t)
    /\ UNCHANGED <<fp, statVars, sever_sock, ip>>

\* get_localip: without the server's socket the ioctl fails and ip stays
\* empty; it is called once.
get_localip(t) ==
    /\ At(t, "ip")
    /\ ip' = sever_sock
    /\ Go(t)
    /\ UNCHANGED <<fp, mine, files, statVars, sever_sock, alive>>

\* Done by the server's thread; only net_speed_thread looks.
server_socket ==
    /\ alive /\ ~sever_sock /\ "net" \in Threads
    /\ sever_sock' = TRUE
    /\ UNCHANGED <<pc, fp, mine, files, statVars, ip, alive>>

----------------------------------------------------------------------------
(* get_cpu_usage *)

\* Between the two readings.
Measuring(t) ==
    /\ alive
    /\ \/ Program[t][pc[t]] = "stat2"
       \/ /\ Program[t][pc[t]] = "close" /\ pc[t] < Len(Program[t])
          /\ Program[t][pc[t] + 1] = "stat2"

\* Time passes: an idle tick (i = 1) or a tick of another state (i = 2).  While
\* nobody measures it only shifts where the counters start from.
Tick(i) ==
    /\ \E t \in Threads : Measuring(t)
    /\ \A t \in Threads : Measuring(t) => gone[t][i] < MaxTicks[i]
    /\ idle' = IF i = 1 THEN (idle + 1) % M ELSE idle
    /\ busy' = IF i = 2 THEN (busy + 1) % M ELSE busy
    /\ gone' = [t \in Threads |-> IF Measuring(t) THEN [gone[t] EXCEPT ![i] = @ + 1]
                                                  ELSE gone[t]]
    /\ UNCHANGED <<pc, fp, mine, files, snap, usage, sever_sock, ip, alive>>

get_cpuTotalTime == (idle + busy) % M

\* First reading.
get_cpuInfo1(t) ==
    /\ At(t, "stat1")
    /\ OpenAndRead(t)
    /\ snap' = [snap EXCEPT ![t] = <<idle, get_cpuTotalTime>>]
    /\ gone' = [gone EXCEPT ![t] = <<0, 0>>]
    /\ UNCHANGED <<fp, idle, busy, usage, sever_sock, ip>>

\* Mutant: the difference of counters that have wrapped is taken for 0.
Diff_NoWrap(a, b) == IF a < b THEN 0 ELSE a - b

\* The difference of two uint32_t.
Diff(a, b) == (a - b + M) % M

\* Second reading, a second later: the differences replace the snapshot.
get_cpuInfo2(t) ==
    /\ At(t, "stat2")
    /\ gone[t] # <<0, 0>>           \* a second has passed
    /\ OpenAndRead(t)
    /\ snap' = [snap EXCEPT ![t] = <<Diff(idle, @[1]), Diff(get_cpuTotalTime, @[2])>>]
    /\ UNCHANGED <<fp, idle, busy, gone, usage, sever_sock, ip>>

\* usage = (total_diff - idle_diff) / total_diff; the readings were locals.
get_cpu_usage(t) ==
    /\ At(t, "usage")
    /\ usage' = [usage EXCEPT ![t] = <<Diff(snap[t][2], snap[t][1]), snap[t][2]>>]
    /\ snap' = [snap EXCEPT ![t] = <<0, 0>>] /\ gone' = [gone EXCEPT ![t] = <<0, 0>>]
    /\ Go(t)
    /\ UNCHANGED <<fp, mine, files, idle, busy, sever_sock, ip, alive>>

----------------------------------------------------------------------------
(* get_cpu_temp *)

InTemp(t) == Program[t][pc[t]] \in {"tempRead", "tempClose"}

temp_fopen(t) ==
    /\ At(t, "tempOpen")
    /\ fp' = FreeHandle
    /\ mine' = [mine EXCEPT ![t] = FreeHandle]
    /\ files' = files \cup ({FreeHandle} \ {0})
    /\ shared' = (shared \/ \E u \in Threads \ {t} : InTemp(u))
    /\ Go(t)
    /\ UNCHANGED <<statVars, sever_sock, ip, alive>>

\* What using handle h may do to the process.
Outcomes(h) == IF h = 0 THEN {FALSE} ELSE IF h \in files THEN {TRUE} ELSE BOOLEAN

temp_fscanf(t) ==
    /\ At(t, "tempRead")
    /\ alive' \in Outcomes(fp)
    /\ Go(t)
    /\ UNCHANGED <<fp, mine, files, statVars, sever_sock, ip>>

temp_fclose(t) ==
    /\ At(t, "tempClose")
    /\ alive' \in Outcomes(fp)
    /\ files' = files \ {fp}
    /\ mine' = [mine EXCEPT ![t] = 0]
    /\ Go(t)
    /\ UNCHANGED <<fp, statVars, sever_sock, ip>>

----------------------------------------------------------------------------
thread(t) ==
    \/ temp_fopen(t)
    \/ /\ \/ get_memory_disk_status(t) \/ close(t) \/ get_net_data(t)
          \/ get_localip(t) \/ get_cpuInfo1(t) \/ get_cpuInfo2(t)
          \/ get_cpu_usage(t) \/ temp_fscanf(t) \/ temp_fclose(t)
       /\ UNCHANGED shared

surroundings == ((\E i \in {1, 2} : Tick(i)) \/ server_socket) /\ UNCHANGED shared

----------------------------------------------------------------------------
(* Properties *)

\* get_cpu_temp (cpu_status.c:28): until two threads have been inside it at the
\* same time, a file a thread is about to read or close is open and is no other
\* thread's, although handles are reused at once and all share one FILE*.
OwnFilesOnly ==
    alive /\ ~shared => \A t \in Threads \ {"net"} : mine[t] # 0 =>
        mine[t] \in files /\ \A u \in Threads \ {"net", t} : mine[u] # mine[t]

\* Files that nobody will close.
Leaked == files \ {mine[t] : t \in Threads \ {"net"}}

\* get_net_data (cpu_status.c:179): unless two threads have been inside
\* get_cpu_temp at the same time, the process ends only when the files left
\* open do not leave one for each other thread.
EndsOnlyOfLeak ==
    \/ alive \/ shared
    \/ Cardinality(Leaked) + Cardinality(Threads \ {"net"}) >= MaxFiles

\* The usage is the true share of busy ticks in the second measured, also
\* when the counters wrap around in it.
UsageExact ==
    [][\A t \in Threads : At(t, "usage") /\ pc'[t] # pc[t] =>
            usage'[t] = <<gone[t][2], gone[t][1] + gone[t][2]>>]_status_vars
============================================================================
