---------------------------- MODULE BoardProofs ----------------------------
(***************************************************************************)
(* Proofs about Board, for every scene: the status threads with every      *)
(* number of files and width of the kernel's counters, and the status page *)
(* that one of them draws while main may still set the display up.         *)
(***************************************************************************)
EXTENDS Board, FiniteSetTheorems, WellFoundedInduction, TLAPS

(* Where in its program a thread is.                                       *)

Op(t, i) == Program[t][i]
After(t, i) == IF i = Len(Program[t]) THEN LoopStart(t) ELSE i + 1

\* With a file of its own open.
Holding == {"tempRead", "tempClose", "close"}

\* Between the two readings of get_cpu_usage, and after the second one.
Between(t, i) ==
    Op(t, i) = "stat2" \/ (Op(t, i) = "close" /\ i < Len(Program[t]) /\ Op(t, i + 1) = "stat2")
Measured(t, i) ==
    Op(t, i) = "usage" \/ (Op(t, i) = "close" /\ i < Len(Program[t]) /\ Op(t, i + 1) = "usage")

\* What follows each operation in the programs of the threads.
LEMMA Path ==
    ASSUME NEW t \in AllThreads, NEW i \in 1..Len(Program[t])
    PROVE  LET j == After(t, i)
           IN  /\ j \in 1..Len(Program[t]) /\ j \in Nat
               /\ Op(t, i) = "tempOpen" => Op(t, j) = "tempRead"
               /\ Op(t, i) = "tempRead" => Op(t, j) = "tempClose"
               /\ Op(t, i) \in {"stat1", "stat2", "open"} => Op(t, j) = "close"
               /\ Op(t, i) \in {"tempClose", "close", "usage", "oled", "ip", "netData"}
                     => Op(t, j) \notin Holding
               /\ Between(t, j) => Op(t, i) = "stat1" \/ (Between(t, i) /\ Op(t, i) = "close")
               /\ Measured(t, j) => Op(t, i) = "stat2" \/ (Measured(t, i) /\ Op(t, i) = "close")
               /\ ~(Between(t, i) /\ Measured(t, i))
               /\ t = "net" => Op(t, i) \in {"ip", "netData"}
               /\ t # "net" => Op(t, i) \notin {"ip", "netData"}
  <1> USE DEF Op, After, Between, Measured, LoopStart, Holding
  <1>1. CASE t = "cpu"
    <2>1. Program[t] = <<"tempOpen", "tempRead", "tempClose",
                        "stat1", "close", "stat2", "close", "usage", "oled">>
      BY <1>1 DEF Program, AllThreads
    <2> QED BY <1>1, <2>1, SMTT(60)
  <1>2. CASE t = "low"
    <2>1. Program[t] = <<"stat1", "close", "stat2", "close", "usage",
                        "tempOpen", "tempRead", "tempClose">>
      BY <1>2 DEF Program, AllThreads
    <2> QED BY <1>2, <2>1, SMTT(60)
  <1>3. CASE t = "net"
    <2>1. Program[t] = <<"ip", "netData", "netData">>
      BY <1>3 DEF Program, AllThreads
    <2> QED BY <1>3, <2>1
  <1>4. CASE t = "mem"
    <2>1. Program[t] = <<"open", "close", "open", "close">>
      BY <1>4 DEF Program, AllThreads
    <2> QED BY <1>4, <2>1
  <1> QED BY <1>1, <1>2, <1>3, <1>4 DEF AllThreads

----------------------------------------------------------------------------
(* Types and moves *)

Types ==
    /\ Threads \subseteq AllThreads
    /\ MaxTicks \in Nat \X Nat /\ MaxTicks[1] + MaxTicks[2] < M
    /\ pc \in [Threads -> Nat] /\ \A t \in Threads : pc[t] \in 1..Len(Program[t])
    /\ fp \in 0..MaxFiles
    /\ mine \in [Threads -> 0..MaxFiles]
    /\ files \subseteq Handles
    /\ idle \in 0..(M - 1) /\ busy \in 0..(M - 1)
    /\ snap \in [Threads -> Nat \X Nat]
    /\ gone \in [Threads -> Nat \X Nat]
    /\ usage \in [Threads -> Nat \X Nat]
    /\ alive \in BOOLEAN /\ shared \in BOOLEAN

\* fopen returns a free handle or NULL.
LEMMA FreeHandleIs ==
    ASSUME files \subseteq Handles
    PROVE  /\ FreeHandle \in 0..MaxFiles
           /\ FreeHandle = 0 => files = Handles
           /\ FreeHandle # 0 => FreeHandle \in Handles /\ FreeHandle \notin files
  <1>1. CASE files = Handles
    BY <1>1, SizesAssumption DEF FreeHandle, Handles
  <1>2. CASE files # Handles
    <2>1. \E h \in Handles : h \notin files
      BY <1>2
    <2>2. (CHOOSE h \in Handles : h \notin files) \in Handles \ files
      BY <2>1
    <2> QED BY <1>2, <2>2, SizesAssumption DEF FreeHandle, Handles
  <1> QED BY <1>1, <1>2

\* One thread goes on to what follows in its program.
LEMMA Goes ==
    ASSUME Types, Threads' = Threads, NEW t \in Threads, Go(t)
    PROVE  /\ pc' \in [Threads -> Nat] /\ \A u \in Threads : pc'[u] \in 1..Len(Program[u])
           /\ pc'[t] = After(t, pc[t])
           /\ \A u \in Threads : u # t => pc'[u] = pc[u]
  <1>1. pc' = [pc EXCEPT ![t] = After(t, pc[t])]
    BY DEF Go, After, Types
  <1>2. After(t, pc[t]) \in 1..Len(Program[t]) /\ After(t, pc[t]) \in Nat
    BY Path DEF Types
  <1> QED BY <1>1, <1>2 DEF Types

\* x mod M, for the sums and differences of two counters.
LEMMA SmallMod ==
    ASSUME M > 0, NEW x \in 0..(2 * M - 1)
    PROVE  x % M = IF x < M THEN x ELSE x - M
  <1>1. x \in Int /\ M \in Int
    BY SizesAssumption
  <1>2. x \div M \in Int /\ x % M \in 0..(M - 1) /\ x = M * (x \div M) + (x % M)
    BY <1>1, SMTT(30)
  <1> DEFINE q == x \div M
  <1>3. q \in {0, 1}
    <2> SUFFICES ASSUME q \notin {0, 1} PROVE FALSE
      OBVIOUS
    <2>1. CASE q >= 2
      <3>1. M * q >= M * 2
        BY <2>1, <1>1, <1>2, SMTT(30)
      <3> QED BY <3>1, <1>1, <1>2
    <2>2. CASE q <= -1
      <3>1. M * q <= -M
        BY <2>2, <1>1, <1>2, SMTT(30)
      <3> QED BY <3>1, <1>1, <1>2
    <2> QED BY <2>1, <2>2, <1>2
  <1>4. CASE q = 0
    BY <1>4, <1>1, <1>2
  <1>5. CASE q = 1
    BY <1>5, <1>1, <1>2
  <1> QED BY <1>3, <1>4, <1>5

LEMMA TypesInit == Init => Types
  <1> SUFFICES ASSUME Init PROVE Types
    OBVIOUS
  <1>1. PICK s \in Scenes : Threads = s.threads /\ MaxTicks = s.ticks
    BY DEF Init
  <1>2. /\ Threads \subseteq AllThreads
        /\ MaxTicks \in Nat \X Nat /\ MaxTicks[1] + MaxTicks[2] < M
    BY <1>1, ScenesAssumption
  <1>3. Status_Init
    BY DEF Init
  <1>4. \A t \in AllThreads : 1 \in 1..Len(Program[t])
    BY DEF Program, AllThreads
  <1>5. 0 \in 0..(M - 1) /\ 0 \in 0..MaxFiles
    BY <1>2, SizesAssumption
  <1> QED BY <1>2, <1>3, <1>4, <1>5 DEF Types, Status_Init

\* A counter of /proc/stat goes on within its width.
LEMMA CounterType ==
    ASSUME M > 0, NEW n \in 0..(M - 1)
    PROVE  (n + 1) % M \in 0..(M - 1) /\ M \in Nat
  <1>1. M \in Nat /\ n + 1 \in 0..(2 * M - 1)
    BY SizesAssumption
  <1> QED BY <1>1, SmallMod

LEMMA DiffType ==
    ASSUME M > 0, NEW a \in Nat, NEW b \in Nat
    PROVE  Diff(a, b) \in Nat
  BY SizesAssumption, SMTT(30) DEF Diff

LEMMA TickTypes ==
    ASSUME Types, NEW i \in {1, 2}, Tick(i), UNCHANGED <<Threads, MaxTicks, shared>>
    PROVE  Types'
  <1>1. M > 0
    BY SizesAssumption DEF Types
  <1>2. ASSUME NEW t \in Threads PROVE [gone[t] EXCEPT ![i] = @ + 1] \in Nat \X Nat
    <2>1. PICK a \in Nat, b \in Nat : gone[t] = <<a, b>>
      <3>1. gone[t] \in Nat \X Nat
        BY DEF Types
      <3>2. gone[t][1] \in Nat /\ gone[t][2] \in Nat /\ gone[t] = <<gone[t][1], gone[t][2]>>
        BY <3>1
      <3> QED BY <3>2
    <2>2. [<<a, b>> EXCEPT ![1] = @ + 1] = <<a + 1, b>> /\ [<<a, b>> EXCEPT ![2] = @ + 1] = <<a, b + 1>>
      OBVIOUS
    <2> QED BY <2>1, <2>2
  <1>3. gone' \in [Threads -> Nat \X Nat]
    BY <1>2 DEF Tick, Types
  <1>4. idle' \in 0..(M - 1) /\ busy' \in 0..(M - 1)
    BY <1>1, CounterType DEF Tick, Types
  <1> QED BY <1>3, <1>4 DEF Tick, Types

LEMMA ThreadTypes ==
    ASSUME Types, NEW t \in Threads, thread(t), UNCHANGED <<Threads, MaxTicks>>
    PROVE  Types'
  <1>1. M > 0 /\ M \in Nat
    BY SizesAssumption DEF Types
  <1>2. FreeHandle \in 0..MaxFiles /\ files \cup ({FreeHandle} \ {0}) \subseteq Handles
    BY FreeHandleIs DEF Types
  <1>3. ASSUME Go(t)
        PROVE  pc' \in [Threads -> Nat] /\ \A u \in Threads : pc'[u] \in 1..Len(Program[u])
    BY <1>3, Goes
  <1>4. \A h : Outcomes(h) \subseteq BOOLEAN
    BY DEF Outcomes
  <1>5. 0 \in 0..MaxFiles
    BY SizesAssumption
  <1>6. CASE temp_fopen(t)
    BY <1>2, <1>3, <1>6 DEF temp_fopen, Types, statVars
  <1>7. CASE get_memory_disk_status(t) /\ UNCHANGED shared
    BY <1>2, <1>3, <1>7 DEF get_memory_disk_status, OpenAndRead, Types, statVars
  <1>8. CASE close(t) /\ UNCHANGED shared
    BY <1>3, <1>5, <1>8 DEF close, Types, statVars
  <1>9. CASE get_net_data(t) /\ UNCHANGED shared
    BY <1>2, <1>3, <1>9 DEF get_net_data, OpenAndRead, Types, statVars
  <1>10. CASE get_localip(t) /\ UNCHANGED shared
    BY <1>3, <1>10 DEF get_localip, Types, statVars
  <1>11. CASE get_cpuInfo1(t) /\ UNCHANGED shared
    <2>1. idle + busy \in 0..(2 * M - 1)
      BY <1>1 DEF Types
    <2>2. <<idle, get_cpuTotalTime>> \in Nat \X Nat /\ <<0, 0>> \in Nat \X Nat
      BY <1>1, <2>1, SmallMod DEF get_cpuTotalTime, Types
    <2> QED BY <1>2, <1>3, <1>11, <2>2 DEF get_cpuInfo1, OpenAndRead, Types
  <1>12. CASE get_cpuInfo2(t) /\ UNCHANGED shared
    <2>1. idle + busy \in 0..(2 * M - 1)
      BY <1>1 DEF Types
    <2>2. get_cpuTotalTime \in Nat /\ idle \in Nat /\ snap[t][1] \in Nat /\ snap[t][2] \in Nat
      BY <1>1, <2>1, SmallMod DEF get_cpuTotalTime, Types
    <2>3. <<Diff(idle, snap[t][1]), Diff(get_cpuTotalTime, snap[t][2])>> \in Nat \X Nat
      BY <1>1, <2>2, DiffType
    <2> QED BY <1>2, <1>3, <1>12, <2>3 DEF get_cpuInfo2, OpenAndRead, Types
  <1>13. CASE get_cpu_usage(t) /\ UNCHANGED shared
    <2>1. snap[t][1] \in Nat /\ snap[t][2] \in Nat
      BY DEF Types
    <2>2. <<Diff(snap[t][2], snap[t][1]), snap[t][2]>> \in Nat \X Nat /\ <<0, 0>> \in Nat \X Nat
      BY <1>1, <2>1, DiffType
    <2> QED BY <1>3, <1>13, <2>2 DEF get_cpu_usage, Types
  <1>14. CASE temp_fscanf(t) /\ UNCHANGED shared
    BY <1>3, <1>4, <1>14 DEF temp_fscanf, Types, statVars
  <1>15. CASE temp_fclose(t) /\ UNCHANGED shared
    BY <1>3, <1>4, <1>5, <1>15 DEF temp_fclose, Types, statVars
  <1> QED BY <1>6, <1>7, <1>8, <1>9, <1>10, <1>11, <1>12, <1>13, <1>14, <1>15 DEF thread

LEMMA TypesStep == Types /\ [Next]_vars => Types'
  <1> SUFFICES ASSUME Types, [Next]_vars PROVE Types'
    OBVIOUS
  <1>1. ASSUME NEW t \in Threads, thread(t), UNCHANGED <<Threads, MaxTicks>> PROVE Types'
    BY <1>1, ThreadTypes
  <1>2. ASSUME surroundings, UNCHANGED <<Threads, MaxTicks>> PROVE Types'
    <2>1. ASSUME NEW i \in {1, 2}, Tick(i) PROVE Types'
      BY <1>2, <2>1, TickTypes DEF surroundings
    <2>2. CASE server_socket
      BY <1>2, <2>2 DEF surroundings, server_socket, statVars, Types
    <2> QED BY <1>2, <2>1, <2>2 DEF surroundings
  <1>3. CASE oled_show_status
    <2>1. "cpu" \in Threads /\ (Go("cpu") \/ UNCHANGED pc)
      BY <1>3 DEF oled_show_status
    <2>2. pc' \in [Threads -> Nat] /\ \A u \in Threads : pc'[u] \in 1..Len(Program[u])
      <3>1. CASE Go("cpu")
        BY <2>1, <1>3, <3>1, Goes DEF oled_show_status
      <3>2. CASE UNCHANGED pc
        BY <3>2 DEF Types
      <3> QED BY <2>1, <3>1, <3>2
    <2> QED BY <1>3, <2>2 DEF oled_show_status, Types, statVars
  <1>4. CASE UNCHANGED status_vars
    BY <1>4 DEF status_vars, Types
  <1> QED BY <1>1, <1>2, <1>3, <1>4 DEF Next, vars

----------------------------------------------------------------------------
(* Files: every thread but the network's holds at most one, its own        *)

Others == Threads \ {"net"}

\* The files left open do not leave one for each other thread.
Exhausted == Cardinality(Leaked) + Cardinality(Others) >= MaxFiles

HeldRight(t) ==
    /\ mine[t] # 0 => Op(t, pc[t]) \in Holding
    /\ Op(t, pc[t]) = "close" => mine[t] # 0
    /\ InTemp(t) => fp = mine[t] /\ (mine[t] = 0 => Exhausted)
    /\ \A u \in Others : InTemp(t) /\ InTemp(u) => t = u

FilesInv ==
    ~shared => IF alive THEN OwnFilesOnly /\ \A t \in Others : HeldRight(t) ELSE Exhausted

LEMMA Finite ==
    ASSUME Types
    PROVE  /\ IsFiniteSet(Leaked) /\ Cardinality(Leaked) \in Nat
           /\ IsFiniteSet(Others) /\ Cardinality(Others) \in Nat
           /\ Cardinality(Handles) = MaxFiles
  <1>1. IsFiniteSet(Handles) /\ Cardinality(Handles) = MaxFiles
    BY FS_Interval, SizesAssumption DEF Handles
  <1>2. IsFiniteSet(Leaked)
    BY <1>1, FS_Subset DEF Leaked, Types
  <1>3. IsFiniteSet(AllThreads)
    <2>1. IsFiniteSet({}) /\ AllThreads = ((({} \cup {"cpu"}) \cup {"low"}) \cup {"net"}) \cup {"mem"}
      BY FS_EmptySet DEF AllThreads
    <2> QED BY <2>1, FS_AddElement
  <1>4. IsFiniteSet(Others)
    BY <1>3, FS_Subset DEF Others, Types
  <1> QED BY <1>1, <1>2, <1>4, FS_CardinalityType

\* When every handle is open, each is leaked or held.
LEMMA Full ==
    ASSUME Types, files = Handles
    PROVE  Exhausted
  <1> DEFINE f == [t \in Others |-> mine[t]]
             held == {mine[t] : t \in Others}
  <1>1. f \in Surjection(Others, held)
    BY DEF Surjection
  <1>2. IsFiniteSet(held) /\ Cardinality(held) <= Cardinality(Others) /\ Cardinality(held) \in Nat
    BY <1>1, Finite, FS_Surjection, FS_CardinalityType
  <1>3. IsFiniteSet(Leaked \cup held) /\ Handles \subseteq Leaked \cup held
    BY <1>2, Finite, FS_Union DEF Leaked, Others
  <1>4. Cardinality(Handles) <= Cardinality(Leaked \cup held)
    BY <1>3, FS_Subset
  <1>5. /\ Cardinality(Leaked \cup held)
               = Cardinality(Leaked) + Cardinality(held) - Cardinality(Leaked \cap held)
        /\ Cardinality(Leaked \cap held) \in Nat
    BY <1>2, Finite, FS_Union, FS_Subset, FS_CardinalityType
  <1> HIDE DEF held
  <1> QED BY <1>2, <1>4, <1>5, Finite, SizesAssumption DEF Exhausted

\* A file that is leaked stays so.
LEMMA StaysExhausted ==
    ASSUME Types, Types', Threads' = Threads, Leaked \subseteq Leaked', Exhausted
    PROVE  Exhausted'
  <1>1. IsFiniteSet(Leaked') /\ Cardinality(Leaked') \in Nat
    <2>1. IsFiniteSet(Handles)
      BY FS_Interval, SizesAssumption DEF Handles
    <2>2. Leaked' \subseteq Handles
      BY DEF Leaked, Types
    <2> QED BY <2>1, <2>2, FS_Subset, FS_CardinalityType
  <1>2. Cardinality(Leaked) <= Cardinality(Leaked')
    BY <1>1, FS_Subset
  <1>3. Others' = Others
    BY DEF Others
  <1> QED BY <1>1, <1>2, <1>3, Finite, SizesAssumption DEF Exhausted

LEMMA FilesInit == Init => FilesInv
  <1> SUFFICES ASSUME Init PROVE FilesInv
    OBVIOUS
  <1>1. Types /\ Status_Init
    BY TypesInit DEF Init
  <1>2. \A t \in Threads : Op(t, pc[t]) \notin Holding
    <2> TAKE t \in Threads
    <2>1. pc[t] = 1 /\ t \in AllThreads
      BY <1>1 DEF Status_Init, Types
    <2> QED BY <2>1 DEF Op, Holding, Program, AllThreads
  <1> QED BY <1>1, <1>2 DEF FilesInv, OwnFilesOnly, HeldRight, Others, Status_Init, InTemp, Op, Holding

\* What a step of thread t leaves of the others.
LEMMA OthersHeld ==
    ASSUME Types, Types', FilesInv, alive, ~shared, Threads' = Threads,
           NEW t \in Others, Go(t), Leaked \subseteq Leaked', fp' = fp,
           \A u \in Others \ {t} : mine'[u] = mine[u], InTemp(t)' => InTemp(t)
    PROVE  \A u \in Others \ {t} : HeldRight(u)'
  <1>1. Others' = Others /\ \A u \in Others \ {t} : pc'[u] = pc[u] /\ (InTemp(u)' <=> InTemp(u))
    BY Goes DEF Others, InTemp
  <1>2. Exhausted => Exhausted'
    BY StaysExhausted
  <1> QED BY <1>1, <1>2 DEF FilesInv, HeldRight

\* fopen of a file that the thread keeps to itself.
LEMMA OpenStep ==
    ASSUME Types, Types', FilesInv, alive, ~shared, Threads' = Threads,
           NEW t \in Threads, Op(t, pc[t]) \in {"open", "stat1", "stat2"},
           OpenAndRead(t), fp' = fp, shared' = shared
    PROVE  FilesInv'
  <1>1. t \in Others /\ mine[t] = 0
    BY Path DEF Types, FilesInv, HeldRight, Holding, Others
  <1>2. Op(t, pc'[t]) = "close" /\ \A u \in Others \ {t} : pc'[u] = pc[u]
    <2>1. pc'[t] = After(t, pc[t]) /\ \A u \in Others \ {t} : pc'[u] = pc[u]
      BY Goes DEF OpenAndRead, Others
    <2>2. t \in AllThreads /\ pc[t] \in 1..Len(Program[t])
      BY DEF Types
    <2> QED BY <2>1, <2>2, Path
  <1>3. \A u \in Others \ {t} : mine'[u] = mine[u]
    BY DEF OpenAndRead, Types, Others
  <1>4. mine'[t] = FreeHandle
    BY DEF OpenAndRead, Types
  <1>5. Leaked \subseteq Leaked'
    <2> SUFFICES ASSUME NEW h \in files, \A u \in Others : mine[u] # h
                 PROVE  h \in files' /\ \A u \in Others : mine'[u] # h
      BY DEF Leaked, Others
    <2>1. h \in files' /\ h # FreeHandle
      <3>1. files \subseteq Handles
        BY DEF Types
      <3>2. FreeHandle # 0 => FreeHandle \notin files
        BY <3>1, FreeHandleIs
      <3>3. h # 0
        BY <3>1 DEF Handles
      <3> QED BY <3>2, <3>3 DEF OpenAndRead
    <2> QED BY <1>3, <1>4, <2>1
  <1>6. Others' = Others
    BY DEF Others
  <1>7. CASE FreeHandle = 0
    BY <1>5, <1>7, FreeHandleIs, Full, StaysExhausted DEF OpenAndRead, FilesInv, Types
  <1>8. CASE FreeHandle # 0
    <2>1. FreeHandle \in files' /\ \A u \in Others \ {t} : mine'[u] # FreeHandle
      <3>1. FreeHandle \in files'
        BY <1>8 DEF OpenAndRead
      <3>2. FreeHandle \notin files
        BY <1>8, FreeHandleIs DEF Types
      <3>3. \A u \in Others : mine[u] # 0 => mine[u] \in files
        BY DEF FilesInv, OwnFilesOnly, Others
      <3> QED BY <1>3, <1>8, <3>1, <3>2, <3>3
    <2>2. OwnFilesOnly'
      BY <1>3, <1>4, <2>1 DEF OwnFilesOnly, OpenAndRead, FilesInv, Others
    <2>3. ~InTemp(t)' /\ HeldRight(t)'
      BY <1>2, <1>4, <1>8 DEF HeldRight, InTemp, Op, Holding
    <2>4. \A u \in Others \ {t} : HeldRight(u)'
      BY <1>1, <1>3, <1>5, <2>3, OthersHeld DEF OpenAndRead
    <2> QED BY <1>1, <1>6, <1>8, <2>2, <2>3, <2>4 DEF FilesInv, OpenAndRead
  <1> QED BY <1>7, <1>8

\* get_net_data's fopen, which nobody closes.
LEMMA NetStep ==
    ASSUME Types, Types', FilesInv, alive, ~shared, Threads' = Threads,
           NEW t \in Threads, get_net_data(t), shared' = shared
    PROVE  FilesInv'
  <1>1. t = "net"
    BY Path DEF get_net_data, At, Types, Op
  <1>2. /\ \A u \in Others : pc'[u] = pc[u] /\ mine'[u] = mine[u]
        /\ Others' = Others /\ fp' = fp /\ files \subseteq files'
    BY <1>1, Goes DEF get_net_data, OpenAndRead, Types, Others
  <1>3. Leaked \subseteq Leaked'
    BY <1>2 DEF Leaked, Others
  <1>4. Exhausted => Exhausted'
    BY <1>3, StaysExhausted
  <1>5. CASE FreeHandle = 0
    <2>1. Exhausted
      BY <1>5, FreeHandleIs, Full DEF Types
    <2> QED BY <1>4, <1>5, <2>1 DEF FilesInv, get_net_data, OpenAndRead
  <1>6. CASE FreeHandle # 0
    <2>1. OwnFilesOnly'
      BY <1>2 DEF OwnFilesOnly, FilesInv, Others
    <2>2. \A u \in Others : HeldRight(u)'
      BY <1>2, <1>4 DEF FilesInv, HeldRight, InTemp, Op
    <2> QED BY <1>2, <1>6, <2>1, <2>2 DEF FilesInv, get_net_data, OpenAndRead
  <1> QED BY <1>5, <1>6

\* The thread's own file is closed; get_cpu_temp's is its own, too.
LEMMA CloseStep ==
    ASSUME Types, Types', FilesInv, alive, ~shared, Threads' = Threads,
           NEW t \in Others, Op(t, pc[t]) \in {"close", "tempClose"}, mine[t] # 0,
           Go(t), files' = files \ {mine[t]}, mine' = [mine EXCEPT ![t] = 0],
           fp' = fp, alive' = alive, shared' = shared
    PROVE  FilesInv'
  <1>1. Op(t, pc'[t]) \notin Holding /\ \A u \in Others \ {t} : pc'[u] = pc[u]
    <2>1. pc'[t] = After(t, pc[t]) /\ \A u \in Others \ {t} : pc'[u] = pc[u]
      BY Goes DEF Others
    <2>2. t \in AllThreads /\ pc[t] \in 1..Len(Program[t])
      BY DEF Types, Others
    <2> QED BY <2>1, <2>2, Path
  <1>2. mine'[t] = 0 /\ \A u \in Others \ {t} : mine'[u] = mine[u]
    BY DEF Types, Others
  <1>3. Others' = Others
    BY DEF Others
  <1>4. Leaked \subseteq Leaked'
    <2> SUFFICES ASSUME NEW h \in files, \A u \in Others : mine[u] # h
                 PROVE  h \in files' /\ \A u \in Others : mine'[u] # h
      BY DEF Leaked, Others
    <2>1. h \in files' /\ h # 0
      BY DEF Types, Handles
    <2> QED BY <1>2, <2>1
  <1>5. OwnFilesOnly'
    BY <1>2, <1>3 DEF OwnFilesOnly, FilesInv, Others
  <1>6. ~InTemp(t)' /\ HeldRight(t)'
    BY <1>1, <1>2 DEF HeldRight, InTemp, Op, Holding
  <1>7. \A u \in Others \ {t} : HeldRight(u)'
    BY <1>2, <1>4, <1>6, OthersHeld
  <1> QED BY <1>3, <1>5, <1>6, <1>7 DEF FilesInv

\* get_cpu_temp's fopen, while nobody else is in that function.
LEMMA TempOpenStep ==
    ASSUME Types, Types', FilesInv, alive, ~shared, ~shared', Threads' = Threads,
           NEW t \in Threads, temp_fopen(t)
    PROVE  FilesInv'
  <1>1. Go(t) /\ Op(t, pc[t]) = "tempOpen"
    BY DEF temp_fopen, At, Op
  <1>2. t \in Others /\ mine[t] = 0
    BY <1>1, Path DEF Types, FilesInv, HeldRight, Holding, Others
  <1>3. Op(t, pc'[t]) = "tempRead" /\ \A u \in Others \ {t} : pc'[u] = pc[u]
    <2>1. pc'[t] = After(t, pc[t]) /\ \A u \in Others \ {t} : pc'[u] = pc[u]
      BY <1>1, Goes DEF Others
    <2>2. t \in AllThreads /\ pc[t] \in 1..Len(Program[t])
      BY DEF Types
    <2> QED BY <1>1, <2>1, <2>2, Path
  <1>4. /\ mine'[t] = FreeHandle /\ \A u \in Others \ {t} : mine'[u] = mine[u]
        /\ Others' = Others /\ fp' = FreeHandle /\ alive'
    BY <1>2 DEF temp_fopen, Types, Others
  <1>5. files \subseteq Handles /\ (FreeHandle = 0 => files = Handles)
            /\ (FreeHandle # 0 => FreeHandle \notin files)
            /\ files' = files \cup ({FreeHandle} \ {0})
    BY FreeHandleIs DEF Types, temp_fopen
  <1>6. Leaked \subseteq Leaked'
    <2> SUFFICES ASSUME NEW h \in files, \A u \in Others : mine[u] # h
                 PROVE  h \in files' /\ \A u \in Others : mine'[u] # h
      BY DEF Leaked, Others
    <2>1. h \in files' /\ h # 0
      BY <1>5 DEF Handles
    <2> QED BY <1>4, <1>5, <2>1
  <1>7. \A u \in Others \ {t} : ~InTemp(u) /\ ~InTemp(u)'
    BY <1>3 DEF temp_fopen, InTemp, Others
  <1>8. Exhausted => Exhausted'
    BY <1>6, StaysExhausted
  <1>9. HeldRight(t)'
    <2>1. FreeHandle = 0 => Exhausted
      BY <1>5, Full
    <2> QED BY <1>3, <1>4, <1>7, <1>8, <2>1 DEF HeldRight, Holding, Op
  <1>10. \A u \in Others \ {t} : HeldRight(u)'
    BY <1>3, <1>4, <1>7 DEF FilesInv, HeldRight
  <1>11. OwnFilesOnly'
    <2>1. \A u \in Others \ {t} : mine[u] # 0 => mine[u] \in files /\ mine[u] # FreeHandle
      BY <1>5 DEF FilesInv, OwnFilesOnly, Others
    <2> QED BY <1>2, <1>4, <1>5, <2>1 DEF FilesInv, OwnFilesOnly, Others
  <1> QED BY <1>2, <1>4, <1>9, <1>10, <1>11 DEF FilesInv

\* get_cpu_temp's fscanf and fclose: the thread is alone in that function, so
\* the shared FILE* is its own.
LEMMA TempStep ==
    ASSUME Types, Types', FilesInv, alive, ~shared, Threads' = Threads, shared' = shared,
           NEW t \in Threads, temp_fscanf(t) \/ temp_fclose(t)
    PROVE  FilesInv'
  <1>1. InTemp(t) /\ Go(t) /\ fp' = fp /\ alive' \in Outcomes(fp)
    BY DEF temp_fscanf, temp_fclose, At, InTemp
  <1>2. t \in Others /\ fp = mine[t]
    <2>1. t # "net"
      BY <1>1, Path DEF InTemp, Types, Op
    <2> QED BY <1>1, <2>1 DEF FilesInv, HeldRight, Others
  <1>3. Others' = Others
    BY DEF Others
  <1>4. CASE mine[t] = 0
    <2>1. Exhausted /\ ~alive'
      BY <1>1, <1>2, <1>4 DEF FilesInv, HeldRight, Outcomes
    <2>2. files' = files /\ \A u \in Others : mine'[u] = mine[u]
      <3>1. 0 \notin files
        BY DEF Types, Handles
      <3>2. files' \in {files, files \ {0}} /\ mine' \in {mine, [mine EXCEPT ![t] = 0]}
        BY <1>2, <1>4 DEF temp_fscanf, temp_fclose
      <3>3. \A u \in Others : mine'[u] = mine[u]
        BY <1>4, <3>2 DEF Types, Others
      <3> QED BY <3>1, <3>2, <3>3
    <2>3. Leaked \subseteq Leaked'
      BY <2>2 DEF Leaked, Others
    <2> QED BY <2>1, <2>3, StaysExhausted DEF FilesInv
  <1>5. CASE mine[t] # 0
    <2>1. alive' = alive
      BY <1>1, <1>2, <1>5 DEF FilesInv, OwnFilesOnly, Outcomes, Others
    <2>2. CASE temp_fclose(t)
      BY <1>2, <1>5, <2>1, <2>2, CloseStep DEF temp_fclose, At, Op
    <2>3. CASE temp_fscanf(t)
      <3>1. /\ Op(t, pc'[t]) = "tempClose" /\ \A u \in Others \ {t} : pc'[u] = pc[u]
        <4>1. pc'[t] = After(t, pc[t]) /\ \A u \in Others \ {t} : pc'[u] = pc[u]
          BY <1>1, Goes DEF Others
        <4>2. t \in AllThreads /\ pc[t] \in 1..Len(Program[t]) /\ Op(t, pc[t]) = "tempRead"
          BY <2>3 DEF Types, temp_fscanf, At, Op
        <4> QED BY <4>1, <4>2, Path
      <3>2. mine' = mine /\ files' = files
        BY <2>3 DEF temp_fscanf
      <3>3. Leaked \subseteq Leaked'
        BY <3>2 DEF Leaked
      <3>4. OwnFilesOnly'
        BY <3>2 DEF OwnFilesOnly, FilesInv
      <3>5. InTemp(t)' /\ \A u \in Others \ {t} : InTemp(u)' <=> InTemp(u)
        BY <3>1 DEF InTemp, Op
      <3>6. HeldRight(t)'
        BY <1>1, <1>2, <1>3, <1>5, <3>1, <3>2, <3>5 DEF FilesInv, HeldRight, Holding
      <3>7. \A u \in Others \ {t} : HeldRight(u)'
        BY <1>1, <1>2, <3>2, <3>3, OthersHeld
      <3> QED BY <1>3, <2>1, <3>4, <3>6, <3>7 DEF FilesInv
    <2> QED BY <2>2, <2>3
  <1> QED BY <1>4, <1>5

\* A step that uses no file.
LEMMA NoFileStep ==
    ASSUME Types, Types', FilesInv, alive, ~shared, Threads' = Threads, shared' = shared,
           NEW t \in Threads, Go(t), Op(t, pc[t]) \in {"ip", "usage", "oled"},
           UNCHANGED <<fp, mine, files, alive>>
    PROVE  FilesInv'
  <1>1. Op(t, pc'[t]) \notin Holding /\ \A u \in Threads \ {t} : pc'[u] = pc[u]
    <2>1. pc'[t] = After(t, pc[t]) /\ \A u \in Threads \ {t} : pc'[u] = pc[u]
      BY Goes
    <2>2. t \in AllThreads /\ pc[t] \in 1..Len(Program[t])
      BY DEF Types
    <2> QED BY <2>1, <2>2, Path
  <1>2. Leaked' = Leaked /\ Others' = Others
    BY DEF Leaked, Others
  <1>3. Exhausted => Exhausted'
    BY <1>2, StaysExhausted
  <1>4. Op(t, pc[t]) \notin Holding /\ ~InTemp(t)'
    BY <1>1 DEF Holding, InTemp, Op
  <1>5. t \in Others => mine[t] = 0
    BY <1>4 DEF FilesInv, HeldRight
  <1>6. \A u \in Others : HeldRight(u)'
    BY <1>1, <1>2, <1>3, <1>4, <1>5 DEF FilesInv, HeldRight, InTemp, Op, Holding, Others
  <1>7. OwnFilesOnly'
    BY DEF OwnFilesOnly, FilesInv
  <1> QED BY <1>2, <1>6, <1>7 DEF FilesInv

\* Nothing of the files is touched.
LEMMA StillStep ==
    ASSUME Types, FilesInv, UNCHANGED <<Threads, pc, fp, mine, files, alive, shared>>
    PROVE  FilesInv'
  <1>1. Leaked' = Leaked /\ Others' = Others /\ OwnFilesOnly' = OwnFilesOnly
    BY DEF Leaked, Others, OwnFilesOnly
  <1>2. Exhausted' = Exhausted /\ \A t \in Others : InTemp(t)' = InTemp(t)
    BY <1>1 DEF Exhausted, InTemp
  <1> QED BY <1>1, <1>2 DEF FilesInv, HeldRight

LEMMA FilesStep == Types /\ FilesInv /\ [Next]_vars => FilesInv'
  <1> SUFFICES ASSUME Types, FilesInv, [Next]_vars PROVE FilesInv'
    OBVIOUS
  <1>1. Types'
    BY TypesStep
  <1>2. SUFFICES ASSUME ~shared' PROVE FilesInv'
    BY DEF FilesInv
  <1>3. ASSUME NEW t \in Threads, thread(t), UNCHANGED <<Threads, MaxTicks>> PROVE FilesInv'
    <2>1. alive /\ ~shared
      <3>1. \E op : At(t, op)
        BY <1>3 DEF thread, temp_fopen, get_memory_disk_status, close, get_net_data,
              get_localip, get_cpuInfo1, get_cpuInfo2, get_cpu_usage, temp_fscanf, temp_fclose
      <3>2. shared => shared'
        BY <1>3 DEF thread, temp_fopen
      <3> QED BY <1>2, <3>1, <3>2 DEF At, Types
    <2>2. CASE temp_fopen(t)
      BY <1>1, <1>2, <1>3, <2>1, <2>2, TempOpenStep
    <2>3. CASE (get_memory_disk_status(t) \/ get_cpuInfo1(t) \/ get_cpuInfo2(t)) /\ UNCHANGED shared
      <3>1. Op(t, pc[t]) \in {"open", "stat1", "stat2"} /\ OpenAndRead(t) /\ fp' = fp
        BY <2>3 DEF get_memory_disk_status, get_cpuInfo1, get_cpuInfo2, At, Op
      <3> QED BY <1>1, <1>3, <2>1, <2>3, <3>1, OpenStep
    <2>4. CASE close(t) /\ UNCHANGED shared
      <3>1. Op(t, pc[t]) = "close"
        BY <2>4 DEF close, At, Op
      <3>2. t \in AllThreads /\ pc[t] \in 1..Len(Program[t])
        BY DEF Types
      <3>3. t \in Others /\ mine[t] # 0
        <4>1. t # "net"
          BY <3>1, <3>2, Path
        <4> QED BY <2>1, <3>1, <4>1 DEF Others, FilesInv, HeldRight
      <3> QED BY <1>1, <1>3, <2>1, <2>4, <3>1, <3>3, CloseStep DEF close
    <2>5. CASE get_net_data(t) /\ UNCHANGED shared
      BY <1>1, <1>3, <2>1, <2>5, NetStep
    <2>6. CASE (get_localip(t) \/ get_cpu_usage(t)) /\ UNCHANGED shared
      <3>1. Op(t, pc[t]) \in {"ip", "usage", "oled"} /\ Go(t) /\ UNCHANGED <<fp, mine, files, alive>>
        BY <2>6 DEF get_localip, get_cpu_usage, At, Op
      <3> QED BY <1>1, <1>3, <2>1, <2>6, <3>1, NoFileStep
    <2>7. CASE (temp_fscanf(t) \/ temp_fclose(t)) /\ UNCHANGED shared
      BY <1>1, <1>3, <2>1, <2>7, TempStep
    <2> QED BY <1>3, <2>2, <2>3, <2>4, <2>5, <2>6, <2>7 DEF thread
  <1>4. ASSUME surroundings, UNCHANGED <<Threads, MaxTicks>> PROVE FilesInv'
    BY <1>4, StillStep DEF surroundings, Tick, server_socket
  <1>5. CASE oled_show_status
    <2>1. CASE Go("cpu")
      <3>1. alive /\ "cpu" \in Threads /\ Op("cpu", pc["cpu"]) = "oled"
                /\ UNCHANGED <<Threads, fp, mine, files, alive, shared>>
        BY <1>5 DEF oled_show_status, At, Op
      <3> QED BY <1>1, <1>2, <2>1, <3>1, NoFileStep
    <2>2. CASE UNCHANGED pc
      BY <1>5, <2>2, StillStep DEF oled_show_status
    <2> QED BY <1>5, <2>1, <2>2 DEF oled_show_status
  <1>6. CASE UNCHANGED status_vars
    BY <1>6, StillStep DEF status_vars
  <1> QED BY <1>3, <1>4, <1>5, <1>6 DEF Next, vars

----------------------------------------------------------------------------
(* The usage: what has passed since the first reading is the difference of *)
(* two counters, which go on modulo M                                      *)

\* Between its two readings a thread can tell the ticks gone from its snapshot.
Counting(t) ==
    /\ gone[t][1] <= MaxTicks[1] /\ gone[t][2] <= MaxTicks[2]
    /\ snap[t][1] \in 0..(M - 1) /\ snap[t][2] \in 0..(M - 1)
    /\ Diff(idle, snap[t][1]) = gone[t][1]
    /\ Diff(get_cpuTotalTime, snap[t][2]) = gone[t][1] + gone[t][2]

Counted(t) ==
    /\ gone[t][1] <= MaxTicks[1] /\ gone[t][2] <= MaxTicks[2]
    /\ snap[t] = <<gone[t][1], gone[t][1] + gone[t][2]>>

UsageInv ==
    \A t \in Threads : /\ Between(t, pc[t]) => Counting(t)
                       /\ Measured(t, pc[t]) => Counted(t)

LEMMA DiffIs ==
    ASSUME M > 0, NEW a \in 0..(M - 1), NEW b \in 0..(M - 1)
    PROVE  Diff(a, b) = IF a >= b THEN a - b ELSE a - b + M
  <1>1. M \in Nat /\ a - b + M \in 0..(2 * M - 1)
    BY SizesAssumption
  <1> QED BY <1>1, SmallMod DEF Diff

\* A tick later the difference is one more, unless it reaches M.
LEMMA DiffNext ==
    ASSUME M > 0, NEW a \in 0..(M - 1), NEW b \in 0..(M - 1), Diff(a, b) + 1 < M
    PROVE  Diff((a + 1) % M, b) = Diff(a, b) + 1
  <1>1. M \in Nat /\ a + 1 \in 0..(2 * M - 1)
    BY SizesAssumption
  <1>2. (a + 1) % M = IF a + 1 < M THEN a + 1 ELSE a + 1 - M
    BY <1>1, SmallMod
  <1>3. (a + 1) % M \in 0..(M - 1)
    BY <1>1, <1>2
  <1> QED BY <1>1, <1>2, <1>3, DiffIs

LEMMA TotalIs ==
    ASSUME Types
    PROVE  /\ M > 0 /\ M \in Nat /\ get_cpuTotalTime \in 0..(M - 1)
           /\ get_cpuTotalTime = IF idle + busy < M THEN idle + busy ELSE idle + busy - M
  <1>1. M > 0 /\ M \in Nat
    BY SizesAssumption DEF Types
  <1>2. idle \in 0..(M - 1) /\ busy \in 0..(M - 1)
    BY DEF Types
  <1>3. idle + busy \in 0..(2 * M - 1)
    BY <1>1, <1>2
  <1> QED BY <1>1, <1>2, <1>3, SmallMod DEF get_cpuTotalTime

\* A tick of either kind is one of the total.
LEMMA TotalNext ==
    ASSUME Types, NEW i \in {1, 2}, Tick(i)
    PROVE  /\ get_cpuTotalTime' = (get_cpuTotalTime + 1) % M
           /\ idle' = IF i = 1 THEN (idle + 1) % M ELSE idle
  <1>1. M > 0 /\ M \in Nat /\ idle \in 0..(M - 1) /\ busy \in 0..(M - 1)
    BY SizesAssumption DEF Types
  <1>2. /\ idle' = IF i = 1 THEN (idle + 1) % M ELSE idle
        /\ busy' = IF i = 2 THEN (busy + 1) % M ELSE busy
    BY DEF Tick
  <1>3. \A n \in 0..(M - 1) : (n + 1) % M = IF n + 1 < M THEN n + 1 ELSE n + 1 - M
    <2> TAKE n \in 0..(M - 1)
    <2>1. n + 1 \in 0..(2 * M - 1)
      BY <1>1
    <2> QED BY <1>1, <2>1, SmallMod
  <1>4. idle' \in 0..(M - 1) /\ busy' \in 0..(M - 1) /\ idle' + busy' \in 0..(2 * M - 1)
    BY <1>1, <1>2, <1>3
  <1>5. get_cpuTotalTime' = IF idle' + busy' < M THEN idle' + busy' ELSE (idle' + busy') - M
    <2>1. get_cpuTotalTime' = (idle' + busy') % M
      BY DEF get_cpuTotalTime
    <2> QED BY <1>1, <1>4, <2>1, SmallMod
  <1>6. (get_cpuTotalTime + 1) % M
          = IF get_cpuTotalTime + 1 < M THEN get_cpuTotalTime + 1 ELSE get_cpuTotalTime + 1 - M
    BY <1>3, TotalIs
  <1>7. CASE i = 1
    <2>1. idle' = (IF idle + 1 < M THEN idle + 1 ELSE idle + 1 - M) /\ busy' = busy
      BY <1>1, <1>2, <1>3, <1>7
    <2>2. get_cpuTotalTime' = (get_cpuTotalTime + 1) % M
      BY <1>1, <1>5, <1>6, <2>1, TotalIs
    <2> QED BY <1>2, <2>2
  <1>8. CASE i = 2
    <2>1. idle' = idle /\ busy' = (IF busy + 1 < M THEN busy + 1 ELSE busy + 1 - M)
      BY <1>1, <1>2, <1>3, <1>8
    <2>2. get_cpuTotalTime' = (get_cpuTotalTime + 1) % M
      BY <1>1, <1>5, <1>6, <2>1, TotalIs
    <2> QED BY <1>2, <2>2
  <1> QED BY <1>7, <1>8

LEMMA TickCounts ==
    ASSUME Types, UsageInv, NEW i \in {1, 2}, Tick(i), UNCHANGED <<Threads, MaxTicks>>
    PROVE  UsageInv'
  <1> SUFFICES ASSUME NEW t \in Threads
               PROVE  /\ Between(t, pc[t]) => Counting(t)'
                      /\ Measured(t, pc[t]) => Counted(t)'
    BY DEF UsageInv, Tick
  <1>1. M > 0 /\ M \in Nat /\ MaxTicks[1] \in Nat /\ MaxTicks[2] \in Nat
            /\ MaxTicks[1] + MaxTicks[2] < M
            /\ gone[t][1] \in Nat /\ gone[t][2] \in Nat /\ idle \in 0..(M - 1)
    BY SizesAssumption DEF Types
  <1>2. snap' = snap /\ MaxTicks' = MaxTicks /\ (Measuring(t) <=> Between(t, pc[t]))
    BY DEF Tick, Measuring, Between, Op, Types
  <1>3. CASE Between(t, pc[t])
    <2>1. Counting(t) /\ gone[t][i] < MaxTicks[i] /\ ~Measured(t, pc[t])
      BY <1>2, <1>3, Path DEF Tick, UsageInv, Types
    <2>2. gone'[t] = [gone[t] EXCEPT ![i] = @ + 1]
      BY <1>2, <1>3 DEF Tick, Types
    <2>3. gone[t] \in Nat \X Nat
      BY DEF Types
    <2>4. /\ gone'[t][1] = IF i = 1 THEN gone[t][1] + 1 ELSE gone[t][1]
          /\ gone'[t][2] = IF i = 2 THEN gone[t][2] + 1 ELSE gone[t][2]
      BY <2>2, <2>3
    <2>5. gone'[t][1] <= MaxTicks[1] /\ gone'[t][2] <= MaxTicks[2]
             /\ gone[t][1] + gone[t][2] + 1 < M
      BY <1>1, <2>1, <2>4 DEF Counting
    <2>6. Diff(get_cpuTotalTime', snap[t][2]) = gone'[t][1] + gone'[t][2]
      BY <1>1, <2>1, <2>4, <2>5, TotalIs, TotalNext, DiffNext DEF Counting
    <2>7. Diff(idle', snap[t][1]) = gone'[t][1]
      <3>1. CASE i = 1
        BY <1>1, <2>1, <2>4, <2>5, <3>1, TotalNext, DiffNext DEF Counting
      <3>2. CASE i = 2
        BY <1>1, <2>1, <2>4, <3>2, TotalNext DEF Counting
      <3> QED BY <3>1, <3>2
    <2> QED BY <1>2, <2>1, <2>5, <2>6, <2>7 DEF Counting
  <1>4. CASE ~Between(t, pc[t])
    <2>1. gone'[t] = gone[t]
      BY <1>2, <1>4 DEF Tick
    <2> QED BY <1>2, <1>4, <2>1 DEF UsageInv, Counted
  <1> QED BY <1>3, <1>4

\* A reading or the result of one thread.
LEMMA ThreadCounts ==
    ASSUME Types, UsageInv, NEW t \in Threads, thread(t), UNCHANGED <<Threads, MaxTicks>>
    PROVE  UsageInv'
  <1>1. Go(t) /\ UNCHANGED <<idle, busy>>
    BY DEF thread, temp_fopen, get_memory_disk_status, close, get_net_data, get_localip,
           get_cpuInfo1, get_cpuInfo2, get_cpu_usage, temp_fscanf, temp_fclose, OpenAndRead, statVars
  <1>2. pc'[t] = After(t, pc[t]) /\ \A u \in Threads \ {t} : pc'[u] = pc[u]
    BY <1>1, Goes
  <1>3. \A u \in Threads \ {t} : snap'[u] = snap[u] /\ gone'[u] = gone[u]
    BY DEF thread, temp_fopen, get_memory_disk_status, close, get_net_data, get_localip,
           get_cpuInfo1, get_cpuInfo2, get_cpu_usage, temp_fscanf, temp_fclose, statVars, Types
  <1>4. get_cpuTotalTime' = get_cpuTotalTime
    BY <1>1 DEF get_cpuTotalTime
  <1>5. \A u \in Threads \ {t} : /\ Between(u, pc'[u]) => Counting(u)'
                                 /\ Measured(u, pc'[u]) => Counted(u)'
    BY <1>1, <1>2, <1>3, <1>4 DEF UsageInv, Counting, Counted
  <1>6. t \in AllThreads /\ pc[t] \in 1..Len(Program[t])
    BY DEF Types
  <1>7. /\ M > 0 /\ M \in Nat /\ MaxTicks[1] \in Nat /\ MaxTicks[2] \in Nat
        /\ MaxTicks[1] + MaxTicks[2] < M
        /\ idle \in 0..(M - 1) /\ get_cpuTotalTime \in 0..(M - 1)
    BY TotalIs DEF Types
  <1>8. CASE get_cpuInfo1(t)
    <2>1. snap'[t] = <<idle, get_cpuTotalTime>> /\ gone'[t] = <<0, 0>>
      BY <1>8 DEF get_cpuInfo1, Types
    <2>2. Diff(idle, idle) = 0 /\ Diff(get_cpuTotalTime, get_cpuTotalTime) = 0
      BY <1>7, DiffIs
    <2>3. Counting(t)'
      BY <1>1, <1>4, <1>7, <2>1, <2>2 DEF Counting
    <2>4. ~Measured(t, pc'[t])
      BY <1>2, <1>6, <1>8, Path DEF get_cpuInfo1, At, Op, Measured
    <2> QED BY <1>5, <2>3, <2>4 DEF UsageInv
  <1>9. CASE get_cpuInfo2(t)
    <2>1. Between(t, pc[t])
      BY <1>9 DEF get_cpuInfo2, At, Between, Op
    <2>2. Counting(t)
      BY <2>1 DEF UsageInv
    <2>3. snap'[t] = <<Diff(idle, snap[t][1]), Diff(get_cpuTotalTime, snap[t][2])>> /\ gone' = gone
      BY <1>9 DEF get_cpuInfo2, Types
    <2>4. Counted(t)'
      BY <2>2, <2>3 DEF Counting, Counted
    <2>5. ~Between(t, pc'[t])
      BY <1>2, <1>6, <1>9, <2>1, Path DEF get_cpuInfo2, At, Op
    <2> QED BY <1>5, <2>4, <2>5 DEF UsageInv
  <1>10. CASE Op(t, pc[t]) \notin {"stat1", "stat2", "usage"}
    <2>1. snap' = snap /\ gone' = gone
      BY <1>10 DEF thread, temp_fopen, get_memory_disk_status, close, get_net_data, get_localip,
           get_cpuInfo1, get_cpuInfo2, get_cpu_usage, temp_fscanf, temp_fclose, statVars, At, Op
    <2>2. /\ Between(t, pc'[t]) => Between(t, pc[t])
          /\ Measured(t, pc'[t]) => Measured(t, pc[t])
      BY <1>2, <1>6, <1>10, Path
    <2> QED BY <1>1, <1>4, <1>5, <2>1, <2>2 DEF UsageInv, Counting, Counted
  <1>11. CASE get_cpu_usage(t)
    <2>1. ~Between(t, pc'[t]) /\ ~Measured(t, pc'[t])
      <3>1. Op(t, pc[t]) = "usage"
        BY <1>11 DEF get_cpu_usage, At, Op
      <3> QED BY <1>2, <1>6, <3>1, Path
    <2> QED BY <1>5, <2>1 DEF UsageInv
  <1>12. Op(t, pc[t]) \in {"stat1", "stat2", "usage"}
           => get_cpuInfo1(t) \/ get_cpuInfo2(t) \/ get_cpu_usage(t)
    BY DEF thread, temp_fopen, get_memory_disk_status, close, get_net_data, get_localip,
           temp_fscanf, temp_fclose, At, Op
  <1> QED BY <1>8, <1>9, <1>10, <1>11, <1>12

LEMMA UsageInit == Init => UsageInv
  <1> SUFFICES ASSUME Init, NEW t \in Threads
               PROVE  ~Between(t, pc[t]) /\ ~Measured(t, pc[t])
    BY DEF UsageInv
  <1>1. Types /\ pc[t] = 1
    BY TypesInit DEF Init, Status_Init
  <1>2. t \in AllThreads
    BY <1>1 DEF Types
  <1> QED BY <1>1, <1>2 DEF Between, Measured, Op, Program, AllThreads

LEMMA UsageStep == Types /\ UsageInv /\ [Next]_vars => UsageInv'
  <1> SUFFICES ASSUME Types, UsageInv, [Next]_vars PROVE UsageInv'
    OBVIOUS
  <1>1. ASSUME NEW t \in Threads, thread(t), UNCHANGED <<Threads, MaxTicks>> PROVE UsageInv'
    BY <1>1, ThreadCounts
  <1>2. ASSUME NEW i \in {1, 2}, Tick(i), UNCHANGED <<Threads, MaxTicks>> PROVE UsageInv'
    BY <1>2, TickCounts
  <1>3. CASE UNCHANGED <<Threads, MaxTicks, idle, busy, snap, gone>> /\ UNCHANGED pc
    BY <1>3 DEF UsageInv, Counting, Counted, get_cpuTotalTime
  <1>4. CASE server_socket /\ UNCHANGED <<Threads, MaxTicks>>
    BY <1>3, <1>4 DEF server_socket, statVars
  <1>5. CASE oled_show_status
    <2>1. UNCHANGED <<Threads, MaxTicks, idle, busy, snap, gone>>
      BY <1>5 DEF oled_show_status, statVars
    <2>2. CASE Go("cpu")
      <3>1. "cpu" \in Threads /\ Op("cpu", pc["cpu"]) = "oled"
        BY <1>5 DEF oled_show_status, At, Op
      <3>2. pc'["cpu"] = After("cpu", pc["cpu"]) /\ \A u \in Threads \ {"cpu"} : pc'[u] = pc[u]
        BY <2>1, <2>2, <3>1, Goes
      <3>3. ~Between("cpu", pc'["cpu"]) /\ ~Measured("cpu", pc'["cpu"])
        <4>1. "cpu" \in AllThreads /\ pc["cpu"] \in 1..Len(Program["cpu"])
          BY <3>1 DEF Types
        <4> QED BY <3>1, <3>2, <4>1, Path
      <3> QED BY <2>1, <3>2, <3>3 DEF UsageInv, Counting, Counted, get_cpuTotalTime
    <2> QED BY <1>3, <1>5, <2>1, <2>2 DEF oled_show_status
  <1>6. CASE UNCHANGED status_vars
    BY <1>3, <1>6 DEF status_vars
  <1> QED BY <1>1, <1>2, <1>4, <1>5, <1>6 DEF Next, vars, surroundings

----------------------------------------------------------------------------
(* The theorems *)

IInv == Types /\ FilesInv /\ UsageInv

LEMMA Invariance == Spec => []IInv
  <1>1. Init => IInv
    BY TypesInit, FilesInit, UsageInit DEF IInv
  <1>2. IInv /\ [Next]_vars => IInv'
    BY TypesStep, FilesStep, UsageStep DEF IInv
  <1> QED BY <1>1, <1>2, PTL DEF Spec

\* cpu_status.c:28: until two threads have been in get_cpu_temp at once, each
\* thread reads and closes only its own file.
THEOREM FilesOwn == Spec => []OwnFilesOnly
  <1>1. IInv => OwnFilesOnly
    <2> SUFFICES ASSUME IInv PROVE OwnFilesOnly
      OBVIOUS
    <2>1. CASE alive /\ ~shared
      BY <2>1 DEF IInv, FilesInv
    <2>2. CASE ~(alive /\ ~shared)
      BY <2>2 DEF OwnFilesOnly
    <2> QED BY <2>1, <2>2
  <1> QED BY <1>1, Invariance, PTL

\* cpu_status.c:179: the files get_net_data leaves open are all that ends the
\* process, as long as two threads have not been in get_cpu_temp at once.
THEOREM EndsOfLeak == Spec => []EndsOnlyOfLeak
  <1>1. IInv => EndsOnlyOfLeak
    BY DEF IInv, FilesInv, EndsOnlyOfLeak, Exhausted, Others, Types
  <1> QED BY <1>1, Invariance, PTL

\* cpu_status.c:158: the usage is the share of busy ticks in the second between
\* the readings, whatever the width at which the kernel's counters wrap.
THEOREM UsageTrue == Spec => UsageExact
  <1> DEFINE Exact == \A t \in Threads : At(t, "usage") /\ pc'[t] # pc[t] =>
                        usage'[t] = <<gone[t][2], gone[t][1] + gone[t][2]>>
  <1>1. IInv /\ [Next]_vars => [Exact]_status_vars
    <2> SUFFICES ASSUME IInv, [Next]_vars, NEW t \in Threads, At(t, "usage"), pc'[t] # pc[t]
                 PROVE  usage'[t] = <<gone[t][2], gone[t][1] + gone[t][2]>>
      OBVIOUS
    <2>1. Types /\ UsageInv
      BY DEF IInv
    <2>2. Op(t, pc[t]) = "usage" /\ Measured(t, pc[t]) /\ Counted(t)
      BY <2>1 DEF At, Op, Measured, UsageInv
    <2>3. get_cpu_usage(t)
      <3>1. ASSUME NEW u \in Threads, thread(u), UNCHANGED <<Threads, MaxTicks>>
            PROVE  get_cpu_usage(t)
        <4>1. Go(u)
          BY <3>1 DEF thread, temp_fopen, get_memory_disk_status, close, get_net_data, get_localip,
           get_cpuInfo1, get_cpuInfo2, get_cpu_usage, temp_fscanf, temp_fclose, OpenAndRead
        <4>2. u = t
          BY <2>1, <3>1, <4>1, Goes
        <4> QED BY <2>2, <3>1, <4>2 DEF thread, temp_fopen, get_memory_disk_status, close,
           get_net_data, get_localip, get_cpuInfo1, get_cpuInfo2, temp_fscanf, temp_fclose, At, Op
      <3>2. ~(surroundings \/ UNCHANGED pc)
        BY DEF surroundings, Tick, server_socket
      <3>3. ~oled_show_status
        <4> SUFFICES ASSUME oled_show_status PROVE FALSE
          OBVIOUS
        <4>1. Go("cpu") /\ "cpu" \in Threads /\ Threads' = Threads /\ Op("cpu", pc["cpu"]) = "oled"
          BY <3>2 DEF oled_show_status, At, Op
        <4>2. t = "cpu"
          BY <2>1, <4>1, Goes
        <4> QED BY <2>2, <4>1, <4>2
      <3> QED BY <3>1, <3>2, <3>3 DEF Next, vars, status_vars
    <2>4. M > 0 /\ M \in Nat /\ gone[t][1] \in Nat /\ gone[t][2] \in Nat
             /\ gone[t][1] + gone[t][2] < M
      BY <2>1, <2>2, SizesAssumption DEF Types, Counted
    <2>5. Diff(snap[t][2], snap[t][1]) = gone[t][2]
      <3>1. snap[t][1] = gone[t][1] /\ snap[t][2] = gone[t][1] + gone[t][2]
        BY <2>2 DEF Counted
      <3>2. snap[t][1] \in 0..(M - 1) /\ snap[t][2] \in 0..(M - 1)
        BY <2>4, <3>1
      <3> QED BY <2>4, <3>1, <3>2, DiffIs
    <2>6. usage'[t] = <<Diff(snap[t][2], snap[t][1]), snap[t][2]>>
      BY <2>1, <2>3 DEF get_cpu_usage, Types
    <2> QED BY <2>2, <2>5, <2>6 DEF Counted
  <1> QED BY <1>1, Invariance, PTL DEF Spec, UsageExact


(***************************************************************************)
(* The texts on the display.                                               *)
(***************************************************************************)

\* Where the lines are, and how wide a character is.
LEMMA Places ==
    /\ Half = 6
    /\ \A l \in Lines : /\ Left(l) \in {0, 70} /\ Top(l) \in {0, 16, 32, 48}
                        /\ Left(l) = IF l = 5 THEN 70 ELSE 0
                        /\ Top(l) = IF l = 5 THEN 48 ELSE (l - 1) * 16
  <1>1. Half = 6
    BY SMT DEF Half, Size
  <1>2. ASSUME NEW l \in Lines
        PROVE  Left(l) \in {0, 70} /\ Top(l) \in {0, 16, 32, 48}
    <2>1. l \in {1, 2, 3, 4, 5}
      BY DEF Lines
    <2> QED BY <2>1, SMT DEF Left, Top
  <1> QED BY <1>1, <1>2 DEF Left, Top

\* The glyphs after i of the n characters of text l, if they fit the line:
\* those drawn before that none of the i overlaps, and the i.
Text(glyphs, l, i, n) ==
    {g \in glyphs : \A j \in 0..(i - 1) : Apart(g, Left(l) + j * Half, Top(l))}
        \cup {Glyph(Left(l) + (j - 1) * Half, Top(l), l, j, n) : j \in 1..i}

\* The cursor and the glyphs then, ...
Cursor(glyphs, l, i, n) ==
    [x |-> Left(l) + i * Half, y |-> Top(l), glyphs |-> Text(glyphs, l, i, n)]

\* ... and what a turn of OLED_ShowString's loop makes of them.
Char(s, l, i, n) ==
    LET x1 == IF Wraps(s.x) THEN 0 ELSE s.x
        y1 == IF Wraps(s.x) THEN s.y + Size ELSE s.y
        x2 == IF Overflows(y1) THEN 0 ELSE x1
        y2 == IF Overflows(y1) THEN 0 ELSE y1
        kept == IF Overflows(y1) THEN {} ELSE s.glyphs
    IN  [x |-> x2 + Half, y |-> y2, glyphs |-> OLED_ShowChar(kept, x2, y2, l, i, n)]

\* A character that fits is drawn where the cursor is.
LEMMA CharFits ==
    ASSUME NEW l \in Lines, NEW n \in Nat, Left(l) + n * Half <= Width, NEW glyphs,
           NEW i \in 1..n
    PROVE  Char(Cursor(glyphs, l, i - 1, n), l, i, n) = Cursor(glyphs, l, i, n)
  <1> DEFINE x == Left(l) + (i - 1) * Half
             s == Cursor(glyphs, l, i - 1, n)
  <1>1. /\ Left(l) \in {0, 70} /\ Top(l) \in {0, 16, 32, 48} /\ Half = 6
        /\ x \in Int /\ x + Half = Left(l) + i * Half /\ x + Half <= Width
    <2>1. Left(l) \in {0, 70} /\ Top(l) \in {0, 16, 32, 48} /\ Half = 6
      BY Places
    <2>2. (i - 1) * 6 + 6 = i * 6 /\ i * 6 <= n * 6 /\ (i - 1) * 6 \in Int
      OBVIOUS
    <2> QED BY <2>1, <2>2 DEF Width
  <1>2. s.x = x /\ s.y = Top(l) /\ s.glyphs = Text(glyphs, l, i - 1, n)
    BY DEF Cursor
  <1>3. ~ Wraps(x) /\ ~ Overflows(Top(l))
    BY <1>1 DEF Wraps, Overflows, Width, Height, Size
  <1>4. OLED_ShowChar(Text(glyphs, l, i - 1, n), x, Top(l), l, i, n) = Text(glyphs, l, i, n)
    <2>1. \A g : (\A j \in 0..(i - 1) : Apart(g, Left(l) + j * Half, Top(l)))
                   <=> /\ \A j \in 0..((i - 1) - 1) : Apart(g, Left(l) + j * Half, Top(l))
                       /\ Apart(g, x, Top(l))
      <3>1. \A j : j \in 0..(i - 1) <=> j \in 0..((i - 1) - 1) \/ j = i - 1
        OBVIOUS
      <3> QED BY <3>1
    <2>2. \A j \in 1..(i - 1) : Apart(Glyph(Left(l) + (j - 1) * Half, Top(l), l, j, n), x, Top(l))
      <3> TAKE j \in 1..(i - 1)
      <3>1. (Left(l) + (j - 1) * Half) + Half <= x
        BY <1>1, SMT
      <3> QED BY <3>1 DEF Apart, Glyph
    <2>3. \A j : j \in 1..i <=> j \in 1..(i - 1) \/ j = i
      OBVIOUS
    <2> DEFINE Own(m) == {Glyph(Left(l) + (j - 1) * Half, Top(l), l, j, n) : j \in 1..m}
               Kept(m) == {g \in glyphs : \A j \in 0..(m - 1) : Apart(g, Left(l) + j * Half, Top(l))}
    <2>4. Own(i) = Own(i - 1) \cup {Glyph(x, Top(l), l, i, n)}
      BY <2>3
    <2>5. \A g \in Own(i - 1) : Apart(g, x, Top(l))
      BY <2>2
    <2>6. Kept(i) = {g \in Kept(i - 1) : Apart(g, x, Top(l))}
      BY <2>1
    <2>7. \A m : Text(glyphs, l, m, n) = Kept(m) \cup Own(m)
      BY DEF Text
    <2> HIDE DEF Own, Kept, x
    <2> QED BY <2>4, <2>5, <2>6, <2>7 DEF OLED_ShowChar
  <1> HIDE DEF x, s
  <1>5. Char(s, l, i, n) = [x |-> x + Half, y |-> Top(l), glyphs |-> Text(glyphs, l, i, n)]
    BY <1>2, <1>3, <1>4 DEF Char
  <1> QED BY <1>1, <1>5 DEF Cursor, s

\* A set of numbers that is not empty has a least one.
LEMMA Least ==
    ASSUME NEW S \in SUBSET Nat, S # {}
    PROVE  \E m \in S : \A x \in S : m <= x
  <1>1. PICK m \in S : \A x \in S : <<x, m>> \notin OpToRel(<, Nat)
    BY WFMin, NatLessThanWellFounded, Zenon
  <1>2. \A x \in S : ~ (x < m)
    BY <1>1, Zenon DEF OpToRel
  <1> QED BY <1>2

\* OLED_ShowString's loop, over a text that fits its line.
LEMMA FittingText ==
    ASSUME NEW l \in Lines, NEW n \in Nat, Left(l) + n * Half <= Width, NEW glyphs
    PROVE  ShowString(glyphs, l, n) = Text(glyphs, l, n, n)
  <1> DEFINE start == [x |-> Left(l), y |-> Top(l), glyphs |-> glyphs]
             step(v) == [i \in 0..n |-> IF i = 0 THEN start ELSE Char(v[i - 1], l, i, n)]
             w == [i \in 0..n |-> Cursor(glyphs, l, i, n)]
             loop == CHOOSE v : v = step(v)
  <1>1. ShowString(glyphs, l, n) = loop[n].glyphs
    BY Zenon DEF ShowString, Char
  <1>2. start = Cursor(glyphs, l, 0, n)
    <2>1. Left(l) + 0 * Half = Left(l)
      BY Places, SMT
    <2>2. Text(glyphs, l, 0, n) = glyphs
      BY DEF Text
    <2> QED BY <2>1, <2>2 DEF Cursor
  <1>3. \A i \in 0..n : i # 0 => i \in 1..n /\ i - 1 \in 0..n
    OBVIOUS
  <1> HIDE DEF start
  <1>4. w = step(w)
    <2>1. ASSUME NEW i \in 0..n
          PROVE  Cursor(glyphs, l, i, n) = IF i = 0 THEN start ELSE Char(w[i - 1], l, i, n)
      <3>1. CASE i = 0
        BY <1>2, <3>1
      <3>2. CASE i # 0
        <4>1. i \in 1..n /\ w[i - 1] = Cursor(glyphs, l, i - 1, n)
          BY <1>3, <3>2
        <4> QED BY <3>2, <4>1, CharFits
      <3> QED BY <3>1, <3>2
    <2> HIDE DEF w
    <2>2. w = [i \in 0..n |-> Cursor(glyphs, l, i, n)]
      BY DEF w
    <2> QED BY <2>1, <2>2
  <1> HIDE DEF w
  <1>5. loop = step(loop)
    BY <1>4, Zenon
  <1> HIDE DEF loop
  <1>6. \A i \in 0..n : loop[i] = IF i = 0 THEN start ELSE Char(loop[i - 1], l, i, n)
    BY <1>5
  <1>7. \A i \in 0..n : loop[i] = Cursor(glyphs, l, i, n)
    <2> DEFINE Off == {i \in 0..n : loop[i] # Cursor(glyphs, l, i, n)}
    <2> SUFFICES ASSUME Off # {} PROVE FALSE
      OBVIOUS
    <2>1. Off \in SUBSET Nat
      OBVIOUS
    <2> HIDE DEF Off
    <2>2. PICK m \in Off : \A x \in Off : m <= x
      BY <2>1, Least
    <2>3. m \in 0..n /\ loop[m] # Cursor(glyphs, l, m, n)
      BY <2>2 DEF Off
    <2>4. m # 0
      BY <1>2, <1>6, <2>3
    <2>5. m \in 1..n /\ m - 1 \in 0..n /\ ~ (m <= m - 1)
      BY <1>3, <2>3, <2>4
    <2>6. loop[m - 1] = Cursor(glyphs, l, m - 1, n)
      BY <2>2, <2>5 DEF Off
    <2>7. loop[m] = Cursor(glyphs, l, m, n)
      BY <1>6, <2>3, <2>4, <2>5, <2>6, CharFits
    <2> QED BY <2>3, <2>7
  <1>8. loop[n].glyphs = Text(glyphs, l, n, n)
    <2>1. n \in 0..n
      OBVIOUS
    <2>2. loop[n] = Cursor(glyphs, l, n, n)
      BY <1>7, <2>1
    <2> QED BY <2>2 DEF Cursor
  <1> QED BY <1>1, <1>8

----------------------------------------------------------------------------
(* The rounds.                                                             *)

\* The texts of the round under way, or of the round that is over.
InRound(l) ==
    \/ turn = 1 /\ ~ unsent
    \/ l < turn
    \/ l = turn /\ unsent

\* The glyphs of a text, in the places of its line and in reading order.
Placed(l) ==
    \A i \in 1..drawn[l] :
        Glyph(Left(l) + (i - 1) * Half, Top(l), l, i, drawn[l]) \in gram

\* A percentage is printed with five characters at most.
Percents == Widths["usage"] \subseteq 0..5

\* A round that began after oledSetup has its texts in OLED_GRAM, if they fit
\* their lines, and when it is over, on the display.
RoundInv ==
    /\ Widths \in [Numbers -> SUBSET Nat]
    /\ turn \in Lines /\ unsent \in BOOLEAN
    /\ drawn \in [Lines -> Nat]
    /\ Percents => drawn[4] <= 11
    /\ configured => fd
    /\ after => main = "over"
    /\ Percents /\ after /\ (\A l \in Lines : InRound(l) => Fits(l))
         => \A l \in Lines : InRound(l) => Placed(l)
    /\ after /\ configured /\ turn = 1 /\ ~ unsent => screen = gram

\* Before the first round.
LEMMA RoundInit == Init => RoundInv
  <1> SUFFICES ASSUME Init PROVE RoundInv
    OBVIOUS
  <1>1. PICK s \in Scenes : Widths = s.widths
    BY DEF Init
  <1>2. Widths \in [Numbers -> SUBSET Nat]
    BY <1>1, ScenesAssumption
  <1>3. Oled_Init
    BY DEF Init
  <1>4. /\ turn = 1 /\ unsent = FALSE /\ drawn = [l \in Lines |-> 0]
        /\ configured = FALSE /\ after = FALSE
    BY <1>3 DEF Oled_Init
  <1>5. drawn \in [Lines -> Nat] /\ drawn[4] <= 11 /\ turn \in Lines
    BY <1>4 DEF Lines
  <1> QED BY <1>2, <1>4, <1>5 DEF RoundInv

\* The lengths of a text are numbers, and the CPU line is at most 11 long.
LEMMA LengthsType ==
    ASSUME RoundInv, NEW l \in Lines, NEW n \in Lengths(l)
    PROVE  n \in Nat /\ (Percents /\ l = 4 => n <= 11)
  <1>1. \A m \in Numbers : Widths[m] \subseteq Nat
    BY DEF RoundInv
  <1>2. /\ Widths["ip"] \subseteq Nat /\ Widths["usage"] \subseteq Nat /\ Widths["mem"] \subseteq Nat
        /\ Widths["disk"] \subseteq Nat /\ Widths["speed"] \subseteq Nat
    BY <1>1 DEF Numbers
  <1>3. CASE l = 1
    <2>1. Lengths(1) = {4 + w : w \in Widths["ip"]}
      BY DEF Lengths
    <2> QED BY <1>2, <1>3, <2>1
  <1>4. CASE l = 2
    <2>1. Lengths(2) = {13 + u + w : u \in Widths["usage"], w \in Widths["mem"]}
      BY DEF Lengths
    <2>2. PICK u \in Widths["usage"], w \in Widths["mem"] : n = 13 + u + w
      BY <1>4, <2>1
    <2> QED BY <1>2, <1>4, <2>2
  <1>5. CASE l = 3
    <2>1. Lengths(3) = {13 + u + w : u \in Widths["usage"], w \in Widths["disk"]}
      BY DEF Lengths
    <2>2. PICK u \in Widths["usage"], w \in Widths["disk"] : n = 13 + u + w
      BY <1>5, <2>1
    <2> QED BY <1>2, <1>5, <2>2
  <1>6. CASE l = 4
    <2>1. Lengths(4) = {6 + u : u \in Widths["usage"]}
      BY DEF Lengths
    <2>2. PICK u \in Widths["usage"] : n = 6 + u
      BY <1>6, <2>1
    <2>3. u \in Nat /\ (Percents => u <= 5)
      BY <1>2, <2>2 DEF Percents
    <2> QED BY <2>2, <2>3
  <1>7. CASE l = 5
    <2>1. Lengths(5) = {5 + w : w \in Widths["speed"]}
      BY DEF Lengths
    <2> QED BY <1>2, <1>7, <2>1
  <1> QED BY <1>3, <1>4, <1>5, <1>6, <1>7 DEF Lines

\* A text of another line is out of the way of a text that fits.
LEMMA LinesApart ==
    ASSUME NEW l \in Lines, NEW m \in Lines, m < l,
           NEW i \in Nat \ {0}, NEW j \in Nat, NEW d \in Nat,
           m = 4 => i <= 11
    PROVE  Apart(Glyph(Left(m) + (i - 1) * Half, Top(m), m, i, d), Left(l) + j * Half, Top(l))
  <1>1. l \in 1..5 /\ m \in 1..5 /\ Half = 6 /\ Size = 12
    BY Places DEF Lines, Size
  <1>2. CASE l = 5 /\ m = 4
    <2>1. Left(l) = 70 /\ Left(m) = 0
      BY <1>2 DEF Left
    <2>2. (0 + (i - 1) * 6) + 6 <= 70 + j * 6
      BY <1>2
    <2> QED BY <1>1, <2>1, <2>2 DEF Apart, Glyph
  <1>3. CASE ~ (l = 5 /\ m = 4)
    <2>1. Top(m) + Size <= Top(l)
      BY <1>1, <1>3 DEF Top
    <2> QED BY <2>1 DEF Apart, Glyph
  <1> QED BY <1>2, <1>3

\* cpu_status_thread draws a text.
LEMMA DrawStep == ASSUME RoundInv, NEW l \in Lines, Draw(l) PROVE RoundInv'
  <1>1. PICK n \in Lengths(l) : gram' = ShowString(gram, l, n) /\ drawn' = [drawn EXCEPT ![l] = n]
    BY DEF Draw
  <1>2. /\ turn = l /\ ~ unsent /\ unsent' = TRUE
        /\ after' = IF l = 1 THEN main = "over" ELSE after
        /\ UNCHANGED <<Widths, screen, turn, main, fd, configured>>
    BY DEF Draw
  <1>3. n \in Nat /\ (Percents /\ l = 4 => n <= 11)
    BY LengthsType
  <1>4. drawn' \in [Lines -> Nat] /\ drawn'[l] = n /\ \A m \in Lines : m # l => drawn'[m] = drawn[m]
    BY <1>1, <1>3 DEF RoundInv
  <1>5. Percents' <=> Percents
    BY <1>2 DEF Percents
  <1>6. Percents => drawn'[4] <= 11
    BY <1>3, <1>4 DEF RoundInv, Lines
  <1>7. \A m \in Lines : InRound(m)' <=> m < l \/ m = l
    BY <1>2 DEF InRound, Lines
  <1>8. ASSUME Percents, after', \A m \in Lines : InRound(m)' => Fits(m)', NEW m \in Lines, InRound(m)'
        PROVE  Placed(m)'
    <2>1. Left(l) + n * Half <= Width
      BY <1>4, <1>7, <1>8 DEF Fits
    <2>2. gram' = Text(gram, l, n, n)
      BY <1>1, <1>3, <2>1, FittingText
    <2>3. CASE m = l
      BY <1>4, <2>2, <2>3 DEF Placed, Text
    <2>4. CASE m < l
      <3>1. l # 1 /\ after /\ m # l
        <4>1. l \in 1..5 /\ m \in 1..5
          BY DEF Lines
        <4>2. l # 1 /\ m # l
          BY <2>4, <4>1
        <4> QED BY <1>2, <1>8, <4>2
      <3>2. \A o \in Lines : InRound(o) <=> o < l
        BY <1>2, <3>1 DEF InRound, Lines
      <3>3. \A o \in Lines : InRound(o) => Fits(o)
        <4> TAKE o \in Lines
        <4> HAVE InRound(o)
        <4>1. o < l /\ o # l
          BY <3>2 DEF Lines
        <4>2. Fits(o)'
          BY <1>7, <1>8, <4>1
        <4> QED BY <1>4, <4>1, <4>2 DEF Fits
      <3>4. Placed(m)
        BY <1>8, <2>4, <3>1, <3>2, <3>3 DEF RoundInv
      <3>5. drawn'[m] = drawn[m] /\ drawn[m] \in Nat
        BY <1>4, <3>1 DEF RoundInv
      <3>6. ASSUME NEW i \in 1..drawn[m]
            PROVE  Glyph(Left(m) + (i - 1) * Half, Top(m), m, i, drawn[m]) \in gram'
        <4>1. i \in Nat \ {0} /\ (m = 4 => i <= 11)
          BY <1>8, <3>5, <3>6 DEF RoundInv
        <4>2. \A j \in 0..(n - 1) :
                Apart(Glyph(Left(m) + (i - 1) * Half, Top(m), m, i, drawn[m]),
                      Left(l) + j * Half, Top(l))
          BY <1>3, <2>4, <3>5, <4>1, LinesApart
        <4>3. Glyph(Left(m) + (i - 1) * Half, Top(m), m, i, drawn[m]) \in gram
          BY <3>4, <3>6 DEF Placed
        <4> QED BY <2>2, <4>2, <4>3 DEF Text
      <3> QED BY <3>5, <3>6 DEF Placed
    <2> QED BY <1>7, <1>8, <2>3, <2>4
  <1>9. after' => main' = "over"
    BY <1>2 DEF RoundInv
  <1> QED BY <1>2, <1>4, <1>5, <1>6, <1>8, <1>9 DEF RoundInv

\* cpu_status_thread sends the text to the display.
LEMMA RefreshStep == RoundInv /\ Refresh => RoundInv'
  <1> SUFFICES ASSUME RoundInv, Refresh PROVE RoundInv'
    OBVIOUS
  <1>1. /\ unsent /\ unsent' = FALSE
        /\ screen' \in Shows(gram, main \notin {"argument", "refresh"})
        /\ configured' = (configured /\ main # "argument")
        /\ turn' = (turn % 5) + 1
        /\ UNCHANGED <<Widths, gram, drawn, main, fd, after>>
    BY DEF Refresh
  <1>2. turn \in 1..5
    BY DEF RoundInv, Lines
  <1>3. turn' \in Lines /\ (IF turn = 5 THEN turn' = 1 ELSE turn' = turn + 1)
    BY <1>1, <1>2 DEF Lines
  <1>4. \A l \in Lines : InRound(l)' <=> InRound(l)
    BY <1>1, <1>2, <1>3 DEF InRound, Lines
  <1>5. \A l \in Lines : (Fits(l)' <=> Fits(l)) /\ (Placed(l)' <=> Placed(l))
    BY <1>1 DEF Fits, Placed
  <1>6. after /\ configured => screen' = gram
    BY <1>1 DEF RoundInv, Shows
  <1>7. Percents' <=> Percents
    BY <1>1 DEF Percents
  <1> QED BY <1>1, <1>3, <1>4, <1>5, <1>6, <1>7 DEF RoundInv

\* A step that leaves the texts and the display alone.
LEMMA RoundKept ==
    ASSUME RoundInv, UNCHANGED <<Widths, gram, screen, turn, drawn, unsent, after>>,
           configured' => fd', after => main' = "over" /\ configured' = configured
    PROVE  RoundInv'
  <1>1. \A l \in Lines : /\ InRound(l)' <=> InRound(l)
                         /\ (Fits(l)' <=> Fits(l)) /\ (Placed(l)' <=> Placed(l))
    BY DEF InRound, Fits, Placed
  <1> QED BY <1>1 DEF RoundInv, Percents

\* main sets the display up: no round that began after that is under way.
LEMMA MainStep == RoundInv /\ main_thread => RoundInv'
  <1> SUFFICES ASSUME RoundInv, main_thread PROVE RoundInv'
    OBVIOUS
  <1>1. ~ after
    BY DEF RoundInv, main_thread, oledSetup, OLED_WR_Byte, OLED_Clear, Setup_Refresh, Main
  <1>2. after' = after /\ UNCHANGED <<Widths, turn, drawn, unsent>> /\ (configured' => fd')
    BY DEF RoundInv, main_thread, oledSetup, OLED_WR_Byte, OLED_Clear, Setup_Refresh
  <1> QED BY <1>1, <1>2 DEF RoundInv, Percents

\* Every step keeps the round.
LEMMA RoundStep == RoundInv /\ [Next]_vars => RoundInv'
  <1> SUFFICES ASSUME RoundInv, [Next]_vars PROVE RoundInv'
    OBVIOUS
  <1>1. CASE UNCHANGED oled_vars
    BY <1>1, RoundKept DEF oled_vars, RoundInv
  <1>2. CASE oled_show_status
    <2>1. ASSUME NEW l \in Lines, Draw(l) PROVE RoundInv'
      BY <2>1, DrawStep
    <2> QED BY <1>2, <2>1, RefreshStep DEF oled_show_status
  <1>3. CASE main_thread
    BY <1>3, MainStep
  <1> QED BY <1>1, <1>2, <1>3 DEF Next, vars

\* A round of oled_show_status that began after oledSetup is on the display
\* whole when it is over, whatever the widths of the numbers, the rounds before
\* and what was drawn during oledSetup: if usages are printed as percentages,
\* with five characters at most.
THEOREM StatusOnDisplay ==
    (\A s \in Scenes : s.widths["usage"] \subseteq 0..5) => (Spec => []StatusShown)
  <1> SUFFICES ASSUME \A s \in Scenes : s.widths["usage"] \subseteq 0..5
               PROVE  Spec => []StatusShown
    OBVIOUS
  <1>1. Init => Percents
    BY DEF Init, Percents
  <1>2. Percents /\ [Next]_vars => Percents'
    <2>1. [Next]_vars => Widths' = Widths
      BY DEF Next, vars, oled_vars, oled_show_status, Draw, Refresh, main_thread, oledSetup,
             OLED_WR_Byte, OLED_Clear, Setup_Refresh
    <2> QED BY <2>1 DEF Percents
  <1>3. RoundInv /\ Percents => StatusShown
    <2> SUFFICES ASSUME RoundInv, Percents, turn = 1, ~ unsent, after, configured,
                        \A l \in Lines : Fits(l), NEW l \in Lines
                 PROVE  Shown(l)
      BY DEF StatusShown
    <2>1. Placed(l) /\ screen = gram
      BY DEF RoundInv, InRound
    <2> QED BY <2>1 DEF Placed, Shown
  <1> QED BY <1>1, <1>2, <1>3, RoundInit, RoundStep, PTL DEF Spec

=============================================================================
