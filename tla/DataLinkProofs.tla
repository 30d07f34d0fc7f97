--------------------------- MODULE DataLinkProofs ---------------------------
(***************************************************************************)
(* Proofs about DataLink for every set of connections and descriptors.     *)
(***************************************************************************)
EXTENDS DataLink, TLAPS

ConnStates == {"idle", "wait", "up", "fin", "finrst", "err", "dead", "closed"}
Locations == {"none", "convert", "converting", "write", "call", "blocked",
              "parse", "check", "close", "clear", "done"}

\* Type correctness of what the proofs look at; a blocked recv holds a
\* connection.
Types ==
    /\ client_sock \in Fds \cup {-1}
    /\ fdConn \in [Fds -> Conns \cup {None}]
    /\ conn \in [Conns -> ConnStates]
    /\ spc \in Conns \cup {"accept"}
    /\ pc \in [Handlers -> Locations]
    /\ recvOn \in [Conns -> Conns \cup {None}]
    /\ \A c \in Conns : pc[<<"recv", c>>] = "blocked" => recvOn[c] # None
    /\ overlapped \in BOOLEAN

LEMMA TypesInit == Init => Types
  BY NamesAssumption DEF Init, Types, ConnStates, Locations, Handlers

LEMMA Handled == ASSUME NEW c \in Conns
                 PROVE  <<"send", c>> \in Handlers /\ <<"recv", c>> \in Handlers
                        /\ <<"send", c>> # <<"recv", c>>
  BY DEF Handlers

\* Where client_sock leads.
LEMMA CurrentType == ASSUME Types PROVE Current \in Conns \cup {None}
  BY DEF Types, Current

\* A thread that moves on without blocking.
LEMMA Moves ==
    ASSUME Types, NEW h \in Handlers, NEW l \in Locations \ {"blocked"},
           pc' = [pc EXCEPT ![h] = l]
    PROVE  /\ pc' \in [Handlers -> Locations]
           /\ \A c \in Conns : pc'[<<"recv", c>>] = "blocked"
                    => pc[<<"recv", c>>] = "blocked" /\ h # <<"recv", c>>
  <1>1. pc' \in [Handlers -> Locations]
    BY DEF Types
  <1>2. ASSUME NEW c \in Conns, pc'[<<"recv", c>>] = "blocked"
        PROVE  pc[<<"recv", c>>] = "blocked" /\ h # <<"recv", c>>
    BY <1>2, Handled DEF Types
  <1> QED BY <1>1, <1>2

\* The state a connection is left in.
LEMMA ReleasedType ==
    ASSUME Types, NEW c, NEW d, NEW st \in ConnStates
    PROVE  Released(c, d, st) \in ConnStates
  BY DEF Released, ConnStates

\* The steps both threads of a client have in common.
LEMMA HandlerTypes ==
    ASSUME Types, NEW h \in Handlers, Handler_Check(h) \/ Handler_Close(h) \/ Handler_Clear(h)
    PROVE  Types'
  <1>1. PICK l \in Locations \ {"blocked"} : pc' = [pc EXCEPT ![h] = l]
    BY DEF Handler_Check, Handler_Close, Handler_Clear, Locations
  <1>2. /\ client_sock' \in Fds \cup {-1}
        /\ fdConn' \in [Fds -> Conns \cup {None}]
        /\ conn' \in [Conns -> ConnStates]
    BY CurrentType DEF Types, Handler_Check, Handler_Close, Handler_Clear, ConnStates
  <1>3. UNCHANGED <<spc, recvOn, overlapped>>
    BY DEF Handler_Check, Handler_Close, Handler_Clear
  <1> QED BY <1>1, <1>2, <1>3, Moves DEF Types

LEMMA SendTypes ==
    ASSUME Types, NEW c \in Conns, Send_Convert(c) \/ Send_Write(c)
    PROVE  Types'
  <1>1. pc' = pc \/ \E l \in Locations \ {"blocked"} : pc' = [pc EXCEPT ![<<"send", c>>] = l]
    BY DEF Send_Convert, Send_Write, Locations
  <1>2. conn' \in [Conns -> ConnStates]
    BY CurrentType DEF Types, Send_Convert, Send_Write, ConnStates
  <1>3. UNCHANGED <<client_sock, fdConn, spc, recvOn, overlapped>>
    BY DEF Send_Convert, Send_Write
  <1>4. /\ pc' \in [Handlers -> Locations]
        /\ \A e \in Conns : pc'[<<"recv", e>>] = "blocked" => pc[<<"recv", e>>] = "blocked"
    BY <1>1, Moves, Handled DEF Types
  <1> QED BY <1>2, <1>3, <1>4 DEF Types

LEMMA RecvTypes ==
    ASSUME Types, NEW c \in Conns,
           Recv_Call(c) \/ Recv_Data(c) \/ Recv_Eof(c) \/ Recv_Error(c) \/ Recv_Parse(c)
    PROVE  Types'
  <1> DEFINE h == <<"recv", c>>
  <1>1. UNCHANGED <<client_sock, fdConn, spc, overlapped>>
    BY DEF Recv_Call, Recv_Data, Recv_Eof, Recv_Error, Recv_Parse
  <1>2. CASE Recv_Call(c)
    <2>1. CASE Current = None
      <3>1. pc' = [pc EXCEPT ![h] = "check"] /\ UNCHANGED <<recvOn, conn>>
        BY <1>2, <2>1 DEF Recv_Call
      <3> QED BY <1>1, <3>1, Moves, Handled DEF Types, Locations
    <2>2. CASE Current # None
      <3>1. /\ pc' = [pc EXCEPT ![h] = "blocked"] /\ recvOn' = [recvOn EXCEPT ![c] = Current]
            /\ conn' = conn
        BY <1>2, <2>2 DEF Recv_Call
      <3>2. pc' \in [Handlers -> Locations] /\ recvOn' \in [Conns -> Conns \cup {None}]
        BY <3>1, CurrentType DEF Types, Locations
      <3>3. ASSUME NEW e \in Conns, pc'[<<"recv", e>>] = "blocked" PROVE recvOn'[e] # None
        <4>1. CASE e = c BY <4>1, <3>1, <2>2 DEF Types
        <4>2. CASE e # c
          <5>1. <<"recv", e>> # h /\ <<"recv", e>> \in Handlers BY <4>2, Handled
          <5>2. pc'[<<"recv", e>>] = pc[<<"recv", e>>] BY <5>1, <3>1 DEF Types
          <5> QED BY <4>2, <3>1, <3>3, <5>2 DEF Types
        <4> QED BY <4>1, <4>2
      <3> QED BY <1>1, <3>1, <3>2, <3>3 DEF Types
    <2> QED BY <2>1, <2>2
  <1>3. CASE Recv_Parse(c)
    <2>1. pc' = [pc EXCEPT ![h] = "call"] /\ UNCHANGED <<recvOn, conn>>
      BY <1>3 DEF Recv_Parse
    <2> QED BY <1>1, <2>1, Moves, Handled DEF Types, Locations
  <1>4. CASE Recv_Data(c) \/ Recv_Eof(c) \/ Recv_Error(c)
    <2>1. /\ recvOn' = [recvOn EXCEPT ![c] = None]
          /\ pc[h] = "blocked"
          /\ \E l \in {"parse", "check"} : pc' = [pc EXCEPT ![h] = l]
          /\ \E st \in {conn[recvOn[c]], "dead"} :
                conn' = [conn EXCEPT ![recvOn[c]] = Released(c, recvOn[c], st)]
      BY <1>4 DEF Recv_Data, Recv_Eof, Recv_Error
    <2>2. PICK l \in Locations \ {"blocked"} : pc' = [pc EXCEPT ![h] = l]
      BY <2>1 DEF Locations
    <2>3. /\ pc' \in [Handlers -> Locations]
          /\ \A e \in Conns : pc'[<<"recv", e>>] = "blocked"
                => pc[<<"recv", e>>] = "blocked" /\ h # <<"recv", e>>
      BY <2>2, Moves, Handled
    <2>4. recvOn[c] \in Conns
      BY <2>1 DEF Types
    <2>5. conn' \in [Conns -> ConnStates]
      <3>1. PICK st \in {conn[recvOn[c]], "dead"} :
                conn' = [conn EXCEPT ![recvOn[c]] = Released(c, recvOn[c], st)]
        BY <2>1
      <3>2. st \in ConnStates BY <2>4 DEF Types, ConnStates
      <3>3. Released(c, recvOn[c], st) \in ConnStates BY <3>2, ReleasedType
      <3> QED BY <3>1, <3>3 DEF Types
    <2>6. recvOn' \in [Conns -> Conns \cup {None}]
      BY <2>1 DEF Types
    <2>7. \A e \in Conns : pc'[<<"recv", e>>] = "blocked" => recvOn'[e] # None
      BY <2>1, <2>3 DEF Types
    <2> QED BY <1>1, <2>3, <2>5, <2>6, <2>7 DEF Types
  <1> QED BY <1>2, <1>3, <1>4

LEMMA TypesStep == Types /\ [Next]_vars => Types'
  <1> SUFFICES ASSUME Types, [Next]_vars PROVE Types'
    OBVIOUS
  <1>1. ASSUME NEW c \in Conns, client(c) PROVE Types'
    BY <1>1 DEF client, Connect, ClientSends, ClientCloses, ClientResets, serverVars, ConnStates, Types
  <1>2. ASSUME NEW c \in Conns, Accept(c) PROVE Types'
    BY <1>2 DEF Accept, ConnStates, Types
  <1>3. CASE AcceptFails
    BY <1>3 DEF AcceptFails, Types
  <1>4. CASE Spawn
    <2>1. spc \in Conns BY <1>4 DEF Spawn, Types
    <2>2. /\ pc' = [pc EXCEPT ![<<"send", spc>>] = "convert", ![<<"recv", spc>>] = "call"]
          /\ spc' = "accept"
          /\ UNCHANGED <<client_sock, fdConn, conn, recvOn, overlapped>>
      BY <1>4 DEF Spawn
    <2>3. pc' \in [Handlers -> Locations]
      BY <2>1, <2>2, Handled DEF Locations, Types
    <2>4. ASSUME NEW c \in Conns, pc'[<<"recv", c>>] = "blocked"
          PROVE  pc[<<"recv", c>>] = "blocked"
      BY <2>1, <2>2, <2>4, Handled DEF Types
    <2> QED BY <2>2, <2>3, <2>4 DEF Types
  <1>5. ASSUME NEW c \in Conns, send_thread(c) PROVE Types'
    BY <1>5, SendTypes, HandlerTypes, Handled DEF send_thread
  <1>6. ASSUME NEW c \in Conns, recv_thread(c) PROVE Types'
    BY <1>6, RecvTypes, HandlerTypes, Handled DEF recv_thread
  <1>7. CASE UNCHANGED vars
    BY <1>7 DEF vars, Types
  <1> QED BY <1>1, <1>2, <1>3, <1>4, <1>5, <1>6, <1>7 DEF Next, server_thread

----------------------------------------------------------------------------
\* What a step of a handler of c leaves alone: it starts nothing, it ends only
\* with client_sock at -1, it takes no new client, and client_sock leads where
\* it led or nowhere.
HandlerFrame(c) ==
    /\ spc' = spc /\ overlapped' = overlapped
    /\ \A h \in Handlers : Running(h)' => Running(h)
    /\ \A h \in Handlers : Running(h) => Running(h)' \/ client_sock' = -1
    /\ \A h \in Handlers : pc[h] = "none" => pc'[h] = "none"
    /\ client_sock' \in {client_sock, -1}
    /\ \A fd \in Fds : fdConn'[fd] \in {fdConn[fd], None}
    /\ \A d \in Conns : conn'[d] \in {"idle", "wait", "up"} => conn'[d] = conn[d]

LEMMA HandlerFrames ==
    ASSUME Types, NEW c \in Conns, send_thread(c) \/ recv_thread(c)
    PROVE  HandlerFrame(c)
  <1>1. PICK h \in {<<"send", c>>, <<"recv", c>>} :
            \/ h = <<"send", c>> /\ (Send_Convert(c) \/ Send_Write(c))
            \/ /\ h = <<"recv", c>>
               /\ Recv_Call(c) \/ Recv_Data(c) \/ Recv_Eof(c) \/ Recv_Error(c) \/ Recv_Parse(c)
            \/ Handler_Check(h) \/ Handler_Close(h) \/ Handler_Clear(h)
    BY DEF send_thread, recv_thread
  <1>2. h \in Handlers
    BY Handled
  <1>3. CASE h = <<"send", c>> /\ (Send_Convert(c) \/ Send_Write(c))
    <2>1. UNCHANGED <<spc, overlapped, client_sock, fdConn>> /\ Running(h)
      BY <1>3 DEF Send_Convert, Send_Write, Running
    <2>2. pc' = pc \/ \E l \in {"convert", "converting", "write", "check"} : pc' = [pc EXCEPT ![h] = l]
      BY <1>3 DEF Send_Convert, Send_Write
    <2>3. \A g \in Handlers : Running(g)' <=> Running(g)
      BY <2>1, <2>2, <1>2 DEF Running, Types
    <2>4. \A g \in Handlers : pc[g] = "none" => pc'[g] = "none"
      BY <2>1, <2>2 DEF Running, Types
    <2>5. \A d \in Conns : conn'[d] \in {"idle", "wait", "up"} => conn'[d] = conn[d]
      BY <1>3, CurrentType DEF Send_Convert, Send_Write, Types
    <2> QED BY <2>1, <2>3, <2>4, <2>5 DEF HandlerFrame
  <1>4. CASE /\ h = <<"recv", c>>
             /\ Recv_Call(c) \/ Recv_Data(c) \/ Recv_Eof(c) \/ Recv_Error(c) \/ Recv_Parse(c)
    <2>1. UNCHANGED <<spc, overlapped, client_sock, fdConn>> /\ Running(h)
      BY <1>4 DEF Recv_Call, Recv_Data, Recv_Eof, Recv_Error, Recv_Parse, Running
    <2>2. \E l \in {"call", "blocked", "parse", "check"} : pc' = [pc EXCEPT ![h] = l]
      BY <1>4 DEF Recv_Call, Recv_Data, Recv_Eof, Recv_Error, Recv_Parse
    <2>3. \A g \in Handlers : Running(g)' <=> Running(g)
      BY <2>1, <2>2, <1>2 DEF Running, Types
    <2>4. \A g \in Handlers : pc[g] = "none" => pc'[g] = "none"
      BY <2>1, <2>2 DEF Running, Types
    <2>5. \A d \in Conns : conn'[d] \in {"idle", "wait", "up"} => conn'[d] = conn[d]
      <3>1. \/ conn' = conn
            \/ conn' = [conn EXCEPT ![recvOn[c]] = conn[recvOn[c]]]
            \/ conn' = [conn EXCEPT ![recvOn[c]] = "dead"]
            \/ conn' = [conn EXCEPT ![recvOn[c]] = "closed"]
        BY <1>4 DEF Recv_Call, Recv_Data, Recv_Eof, Recv_Error, Recv_Parse, Released
      <3> QED BY <3>1 DEF Types
    <2> QED BY <2>1, <2>3, <2>4, <2>5 DEF HandlerFrame
  <1>5. CASE Handler_Check(h) \/ Handler_Close(h) \/ Handler_Clear(h)
    <2>1. UNCHANGED <<spc, overlapped>> /\ Running(h)
      BY <1>5 DEF Handler_Check, Handler_Close, Handler_Clear, Running
    <2>2. PICK l \in {"close", "done", "clear"} : pc' = [pc EXCEPT ![h] = l]
      BY <1>5 DEF Handler_Check, Handler_Close, Handler_Clear
    <2>3. l = "done" => client_sock' = -1
      BY <2>2, <1>2, <1>5 DEF Handler_Check, Handler_Close, Handler_Clear, Types
    <2>4. \A g \in Handlers : Running(g)' => Running(g)
      BY <2>1, <2>2, <1>2 DEF Running, Types
    <2>5. \A g \in Handlers : Running(g) => Running(g)' \/ client_sock' = -1
      BY <2>1, <2>2, <2>3, <1>2 DEF Running, Types
    <2>6. \A g \in Handlers : pc[g] = "none" => pc'[g] = "none"
      BY <2>1, <2>2 DEF Running, Types
    <2>7. client_sock' \in {client_sock, -1} /\ \A fd \in Fds : fdConn'[fd] \in {fdConn[fd], None}
      BY <1>5 DEF Handler_Check, Handler_Close, Handler_Clear, Types
    <2>8. \A d \in Conns : conn'[d] \in {"idle", "wait", "up"} => conn'[d] = conn[d]
      BY <1>5 DEF Handler_Check, Handler_Close, Handler_Clear, Types
    <2> QED BY <2>1, <2>4, <2>5, <2>6, <2>7, <2>8 DEF HandlerFrame
  <1> QED BY <1>1, <1>3, <1>4, <1>5

----------------------------------------------------------------------------
\* The connection client_sock leads to has its threads: inductive by itself,
\* since a thread ends only once client_sock is -1.
LEMMA ServedStep == Types /\ ServedWhileCurrent /\ [Next]_vars => ServedWhileCurrent'
  <1> SUFFICES ASSUME Types, ServedWhileCurrent, [Next]_vars PROVE ServedWhileCurrent'
    OBVIOUS
  <1> DEFINE S == <<"send", Current>>
             R == <<"recv", Current>>
  <1>0. Current # None => Current \in Conns /\ S \in Handlers /\ R \in Handlers
    BY CurrentType, Handled
  <1>1. ASSUME NEW c \in Conns, client(c) PROVE ServedWhileCurrent'
    BY <1>1 DEF client, Connect, ClientSends, ClientCloses, ClientResets, serverVars,
                ServedWhileCurrent, Current, Running
  <1>2. ASSUME NEW c \in Conns, Accept(c) PROVE ServedWhileCurrent'
    <2>1. Current' = c /\ spc' = c
      BY <1>2, FdsAssumption DEF Accept, Current, Types
    <2> QED BY <2>1 DEF ServedWhileCurrent
  <1>3. CASE AcceptFails
    BY <1>3 DEF AcceptFails, ServedWhileCurrent, Current
  <1>4. CASE Spawn
    <2>1. Current' = Current /\ spc \in Conns
      BY <1>4 DEF Spawn, Current, Types
    <2>2. pc' = [pc EXCEPT ![<<"send", spc>>] = "convert", ![<<"recv", spc>>] = "call"]
      BY <1>4 DEF Spawn
    <2>3. CASE Current = spc
      <3>1. pc'[<<"send", spc>>] = "convert" /\ pc'[<<"recv", spc>>] = "call"
        BY <2>1, <2>2, Handled DEF Types
      <3> QED BY <2>1, <2>3, <3>1 DEF ServedWhileCurrent, Running
    <2>4. CASE Current # None /\ Current # spc
      <3>1. pc'[S] = pc[S] /\ pc'[R] = pc[R]
        BY <2>1, <2>2, <2>4, <1>0, Handled DEF Types
      <3> QED BY <2>1, <2>4, <3>1 DEF ServedWhileCurrent, Running
    <2> QED BY <2>1, <2>3, <2>4 DEF ServedWhileCurrent
  <1>5. ASSUME NEW c \in Conns, send_thread(c) \/ recv_thread(c) PROVE ServedWhileCurrent'
    <2>1. HandlerFrame(c)
      BY <1>5, HandlerFrames
    <2>2. SUFFICES ASSUME Current' # None PROVE ServedWhileCurrent'
      BY DEF ServedWhileCurrent
    <2>3. client_sock' # -1 /\ client_sock' = client_sock /\ client_sock \in Fds
      BY <2>1, <2>2 DEF HandlerFrame, Current, Types
    <2>4. Current' = Current
      BY <2>1, <2>2, <2>3 DEF HandlerFrame, Current
    <2>5. (Running(S) => Running(S)') /\ (Running(R) => Running(R)') /\ spc' = spc
      BY <1>0, <2>1, <2>2, <2>3, <2>4 DEF HandlerFrame
    <2> QED BY <2>2, <2>4, <2>5 DEF ServedWhileCurrent, Running
  <1>6. CASE UNCHANGED vars
    BY <1>6 DEF vars, ServedWhileCurrent, Current, Running
  <1> QED BY <1>1, <1>2, <1>3, <1>4, <1>5, <1>6 DEF Next, server_thread

\* A client that is still waiting, or just accepted, has no threads.
Fresh ==
    \A c \in Conns :
        /\ conn[c] \in {"idle", "wait"} => spc # c
        /\ conn[c] \in {"idle", "wait"} \/ spc = c
              => pc[<<"send", c>>] = "none" /\ pc[<<"recv", c>>] = "none"

LEMMA FreshStep == Types /\ Fresh /\ [Next]_vars => Fresh'
  <1> SUFFICES ASSUME Types, Fresh, [Next]_vars PROVE Fresh'
    OBVIOUS
  <1>1. ASSUME NEW c \in Conns, client(c) PROVE Fresh'
    BY <1>1 DEF client, Connect, ClientSends, ClientCloses, ClientResets, serverVars, Fresh, Types
  <1>2. ASSUME NEW c \in Conns, Accept(c) PROVE Fresh'
    BY <1>2, NamesAssumption DEF Accept, Fresh, Types
  <1>3. CASE AcceptFails
    BY <1>3 DEF AcceptFails, Fresh
  <1>4. CASE Spawn
    <2>1. /\ conn' = conn /\ spc \in Conns /\ spc' = "accept"
          /\ pc' = [pc EXCEPT ![<<"send", spc>>] = "convert", ![<<"recv", spc>>] = "call"]
      BY <1>4 DEF Spawn, Types
    <2>2. ASSUME NEW c \in Conns, conn[c] \in {"idle", "wait"}
          PROVE  pc'[<<"send", c>>] = "none" /\ pc'[<<"recv", c>>] = "none"
      <3>1. c # spc /\ pc[<<"send", c>>] = "none" /\ pc[<<"recv", c>>] = "none"
        BY <2>2 DEF Fresh
      <3> QED BY <2>1, <3>1, Handled DEF Types
    <2> QED BY <2>1, <2>2, NamesAssumption DEF Fresh
  <1>5. ASSUME NEW c \in Conns, send_thread(c) \/ recv_thread(c) PROVE Fresh'
    <2>1. HandlerFrame(c)
      BY <1>5, HandlerFrames
    <2> QED BY <2>1, Handled DEF HandlerFrame, Fresh
  <1>6. CASE UNCHANGED vars
    BY <1>6 DEF vars, Fresh
  <1> QED BY <1>1, <1>2, <1>3, <1>4, <1>5, <1>6 DEF Next, server_thread

\* A closed descriptor stays in client_sock only while its closer is about to
\* clear it.
LEMMA StaleStep == Types /\ Fresh /\ StaleOnlyWhileClearing /\ [Next]_vars
                        => StaleOnlyWhileClearing'
  <1> SUFFICES ASSUME Types, Fresh, StaleOnlyWhileClearing, [Next]_vars
               PROVE  StaleOnlyWhileClearing'
    OBVIOUS
  <1>1. ASSUME NEW c \in Conns, client(c) PROVE StaleOnlyWhileClearing'
    BY <1>1 DEF client, Connect, ClientSends, ClientCloses, ClientResets, serverVars,
                StaleOnlyWhileClearing
  <1>2. ASSUME NEW c \in Conns, Accept(c) PROVE StaleOnlyWhileClearing'
    BY <1>2, NamesAssumption DEF Accept, Types, StaleOnlyWhileClearing
  <1>3. CASE AcceptFails
    BY <1>3 DEF AcceptFails, StaleOnlyWhileClearing
  <1>4. CASE Spawn
    <2>1. /\ UNCHANGED <<client_sock, fdConn>> /\ spc \in Conns
          /\ pc' = [pc EXCEPT ![<<"send", spc>>] = "convert", ![<<"recv", spc>>] = "call"]
      BY <1>4 DEF Spawn, Types
    <2>2. pc[<<"send", spc>>] = "none" /\ pc[<<"recv", spc>>] = "none"
      BY <2>1 DEF Fresh
    <2>3. \A h \in Handlers : pc[h] = "clear" => pc'[h] = "clear"
      BY <2>1, <2>2 DEF Types
    <2> QED BY <2>1, <2>3 DEF StaleOnlyWhileClearing
  <1>5. ASSUME NEW h \in Handlers, Handler_Check(h) \/ Handler_Close(h) \/ Handler_Clear(h)
        PROVE  StaleOnlyWhileClearing'
    <2>1. CASE Handler_Check(h)
      <3>1. /\ UNCHANGED <<client_sock, fdConn>>
            /\ \A g \in Handlers : pc[g] = "clear" => pc'[g] = "clear"
        BY <2>1 DEF Handler_Check, Types
      <3> QED BY <3>1 DEF StaleOnlyWhileClearing
    <2>2. CASE Handler_Close(h)
      <3>1. pc'[h] = "clear" BY <2>2 DEF Handler_Close, Types
      <3> QED BY <3>1 DEF StaleOnlyWhileClearing
    <2>3. CASE Handler_Clear(h)
      BY <2>3 DEF Handler_Clear, StaleOnlyWhileClearing
    <2> QED BY <1>5, <2>1, <2>2, <2>3
  <1>6. ASSUME NEW c \in Conns,
               \/ Send_Convert(c) \/ Send_Write(c)
               \/ Recv_Call(c) \/ Recv_Data(c) \/ Recv_Eof(c) \/ Recv_Error(c) \/ Recv_Parse(c)
        PROVE  StaleOnlyWhileClearing'
    <2>1. UNCHANGED <<client_sock, fdConn>>
      BY <1>6 DEF Send_Convert, Send_Write, Recv_Call, Recv_Data, Recv_Eof, Recv_Error, Recv_Parse
    <2>2. \/ pc' = pc
          \/ \E h \in Handlers, l \in Locations : pc[h] # "clear" /\ pc' = [pc EXCEPT ![h] = l]
      BY <1>6, Handled DEF Send_Convert, Send_Write, Recv_Call, Recv_Data, Recv_Eof, Recv_Error,
                           Recv_Parse, Locations
    <2>3. \A g \in Handlers : pc[g] = "clear" => pc'[g] = "clear"
      BY <2>2 DEF Types
    <2> QED BY <2>1, <2>3 DEF StaleOnlyWhileClearing
  <1>7. CASE UNCHANGED vars
    BY <1>7 DEF vars, StaleOnlyWhileClearing
  <1> QED BY <1>1, <1>2, <1>3, <1>4, <1>5, <1>6, <1>7, Handled
          DEF Next, server_thread, send_thread, recv_thread

----------------------------------------------------------------------------
\* A client that waits or is being served.
Busy(c) == conn[c] = "wait" \/ spc = c \/ Running(<<"send", c>>) \/ Running(<<"recv", c>>)

Alone == ~overlapped => \A c, e \in Conns : Busy(c) /\ Busy(e) => c = e

\* No step but the arrival of a client makes it busy, and one that arrives
\* while another is busy makes `overlapped' true.
LEMMA AloneStep == Types /\ Alone /\ [Next]_vars => Alone' /\ (overlapped => overlapped')
  <1> SUFFICES ASSUME Types, Alone, [Next]_vars PROVE Alone' /\ (overlapped => overlapped')
    OBVIOUS
  <1>1. ASSUME NEW c \in Conns, Connect(c) PROVE Alone' /\ (overlapped => overlapped')
    <2>1. /\ overlapped' = (overlapped \/ ~Quiet) /\ conn' = [conn EXCEPT ![c] = "wait"]
          /\ UNCHANGED <<spc, pc>>
      BY <1>1 DEF Connect, serverVars
    <2>2. Quiet => \A e \in Conns : ~Busy(e)
      BY Handled, NamesAssumption DEF Quiet, Busy
    <2>3. \A e \in Conns : e # c => (Busy(e)' <=> Busy(e))
      BY <2>1 DEF Busy, Running, Types
    <2> QED BY <2>1, <2>2, <2>3 DEF Alone
  <1>2. ASSUME overlapped' = overlapped, \A c \in Conns : Busy(c)' => Busy(c)
        PROVE  Alone' /\ (overlapped => overlapped')
    BY <1>2 DEF Alone
  <1>3. ASSUME NEW c \in Conns, ClientSends(c) \/ ClientCloses(c) \/ ClientResets(c)
        PROVE  Alone' /\ (overlapped => overlapped')
    <2>1. /\ UNCHANGED <<spc, pc, overlapped>>
          /\ \A e \in Conns : conn'[e] = "wait" => conn[e] = "wait"
      BY <1>3 DEF ClientSends, ClientCloses, ClientResets, serverVars, Types
    <2> QED BY <1>2, <2>1 DEF Busy, Running
  <1>4. ASSUME NEW c \in Conns, Accept(c) PROVE Alone' /\ (overlapped => overlapped')
    <2>1. /\ conn[c] = "wait" /\ conn' = [conn EXCEPT ![c] = "up"] /\ spc = "accept" /\ spc' = c
          /\ UNCHANGED <<pc, overlapped>>
      BY <1>4 DEF Accept
    <2>2. \A e \in Conns : Busy(e)' => Busy(e)
      BY <2>1 DEF Busy, Running, Types
    <2> QED BY <1>2, <2>1, <2>2
  <1>5. CASE AcceptFails
    BY <1>2, <1>5 DEF AcceptFails, Busy, Running
  <1>6. CASE Spawn
    <2>1. /\ conn' = conn /\ overlapped' = overlapped /\ spc \in Conns /\ spc' = "accept"
          /\ pc' = [pc EXCEPT ![<<"send", spc>>] = "convert", ![<<"recv", spc>>] = "call"]
      BY <1>6 DEF Spawn, Types
    <2>2. ASSUME NEW e \in Conns, e # spc
          PROVE  pc'[<<"send", e>>] = pc[<<"send", e>>] /\ pc'[<<"recv", e>>] = pc[<<"recv", e>>]
      BY <2>1, <2>2, Handled DEF Types
    <2>3. \A e \in Conns : Busy(e)' => Busy(e)
      BY <2>1, <2>2, NamesAssumption DEF Busy, Running
    <2> QED BY <1>2, <2>1, <2>3
  <1>7. ASSUME NEW c \in Conns, send_thread(c) \/ recv_thread(c)
        PROVE  Alone' /\ (overlapped => overlapped')
    <2>1. HandlerFrame(c)
      BY <1>7, HandlerFrames
    <2>2. \A e \in Conns : Busy(e)' => Busy(e)
      BY <2>1, Handled DEF HandlerFrame, Busy
    <2> QED BY <1>2, <2>1, <2>2 DEF HandlerFrame
  <1>8. CASE UNCHANGED vars
    BY <1>2, <1>8 DEF vars, Busy, Running
  <1> QED BY <1>1, <1>3, <1>4, <1>5, <1>6, <1>7, <1>8 DEF Next, server_thread, client

\* While one client is served at a time, its recv blocks on its own connection
\* and its status frame is whole when it is written.
OwnConnection ==
    ~overlapped => \A c \in Conns : pc[<<"recv", c>>] = "blocked" => recvOn[c] = c
WholeToWrite ==
    ~overlapped => \A c \in Conns : pc[<<"send", c>>] = "write" => return_data = "whole"

\* The rest of a cut frame waits in the kernel only for a stream of which a
\* recv came up short.
InStep ==
    /\ inbox \in [Conns -> SUBSET (Frames \cup {"rest"})]
    /\ short \in [Conns -> BOOLEAN]
    /\ \A c \in Conns : "rest" \in inbox[c] => short[c]

LEMMA InStepStep ==
    ASSUME Types, InStep, [Next]_vars
    PROVE  InStep'
  <1>1. CASE UNCHANGED <<inbox, short>>
    BY <1>1 DEF InStep
  <1>2. ASSUME NEW c \in Conns, ClientSends(c) PROVE InStep'
    <2>1. PICK f \in Frames : inbox' = [inbox EXCEPT ![c] = @ \cup {f}]
      BY <1>2 DEF ClientSends
    <2>2. short' = short /\ f # "rest"
      BY <1>2, <2>1, FramesAssumption DEF ClientSends, serverVars
    <2> QED BY <2>1, <2>2 DEF InStep
  <1>3. ASSUME NEW c \in Conns, ClientResets(c) PROVE InStep'
    BY <1>3 DEF ClientResets, serverVars, InStep
  <1>4. ASSUME NEW c \in Conns, Recv_Data(c) PROVE InStep'
    <2> DEFINE d == recvOn[c]
    <2>1. d \in Conns
      BY <1>4 DEF Recv_Data, Types
    <2>2. CASE FullRecv(d)
      <3> HIDE DEF d
      <3> QED BY <2>1, <2>2 DEF FullRecv, InStep
    <2>3. CASE ShortRecv(d)
      <3> HIDE DEF d
      <3> QED BY <2>1, <2>3 DEF ShortRecv, InStep
    <2> QED BY <1>4, <2>2, <2>3 DEF Recv_Data
  <1>5. \/ UNCHANGED <<inbox, short>>
        \/ \E c \in Conns : ClientSends(c) \/ ClientResets(c) \/ Recv_Data(c)
    BY DEF vars, Next, client, server_thread, send_thread, recv_thread, Connect, ClientCloses,
           serverVars, Accept, AcceptFails, Spawn, Send_Convert, Send_Write, Recv_Call, Recv_Eof,
           Recv_Error, Recv_Parse, Handler_Check, Handler_Close, Handler_Clear
  <1> QED BY <1>1, <1>2, <1>3, <1>4, <1>5

Single == Alone /\ OwnConnection /\ WholeToWrite /\ CommandsFresh

LEMMA SingleStep ==
    ASSUME Types, InStep, Fresh, ServedWhileCurrent, Single, [Next]_vars
    PROVE  Single'
  <1>a. Alone' /\ (overlapped => overlapped')
    BY AloneStep DEF Single
  <1> SUFFICES ASSUME ~overlapped, ~overlapped'
               PROVE  OwnConnection' /\ WholeToWrite' /\ CommandsFresh'
    BY <1>a DEF Single, OwnConnection, WholeToWrite, CommandsFresh
  <1>b. /\ \A c, e \in Conns : Busy(c) /\ Busy(e) => c = e
        /\ \A c \in Conns : pc[<<"recv", c>>] = "blocked" => recvOn[c] = c
        /\ \A c \in Conns : pc[<<"send", c>>] = "write" => return_data = "whole"
        /\ \A c \in Conns : pc[<<"recv", c>>] = "parse"
                => conn[c] # "up" \/ short[c] \/ (unread /\ recv_buff \in Frames)
    BY DEF Single, Alone, OwnConnection, WholeToWrite, CommandsFresh
  \* Steps that neither move a thread to where the parts look nor revive a connection.
  <1>c. ASSUME \A c \in Conns : pc'[<<"recv", c>>] = "blocked"
                   => pc[<<"recv", c>>] = "blocked" /\ recvOn'[c] = recvOn[c],
               \A c \in Conns : pc'[<<"send", c>>] = "write" => pc[<<"send", c>>] = "write",
               \A c \in Conns : pc'[<<"recv", c>>] = "parse" => pc[<<"recv", c>>] = "parse",
               \A c \in Conns : pc'[<<"recv", c>>] = "parse" /\ conn'[c] = "up" => conn[c] = "up",
               UNCHANGED <<return_data, recv_buff, unread, short>>
        PROVE  OwnConnection' /\ WholeToWrite' /\ CommandsFresh'
    BY <1>b, <1>c DEF OwnConnection, WholeToWrite, CommandsFresh
  <1>1. ASSUME NEW c \in Conns, client(c)
        PROVE  OwnConnection' /\ WholeToWrite' /\ CommandsFresh'
    <2>1. UNCHANGED <<pc, recvOn, return_data, recv_buff, unread, short>>
          /\ \A e \in Conns : conn'[e] = "up" => conn[e] = "up"
      BY <1>1 DEF client, Connect, ClientSends, ClientCloses, ClientResets, serverVars, Types
    <2> QED BY <1>c, <2>1
  <1>2. ASSUME NEW c \in Conns, Accept(c)
        PROVE  OwnConnection' /\ WholeToWrite' /\ CommandsFresh'
    <2>1. /\ UNCHANGED <<pc, recvOn, return_data, recv_buff, unread, short>>
          /\ conn[c] = "wait" /\ conn' = [conn EXCEPT ![c] = "up"]
      BY <1>2 DEF Accept
    <2>2. pc[<<"recv", c>>] = "none"
      BY <2>1 DEF Fresh
    <2> QED BY <1>c, <2>1, <2>2 DEF Types
  <1>3. CASE AcceptFails
    BY <1>c, <1>3 DEF AcceptFails
  <1>4. CASE Spawn
    <2>1. /\ UNCHANGED <<conn, recvOn, return_data, recv_buff, unread, short>> /\ spc \in Conns
          /\ pc' = [pc EXCEPT ![<<"send", spc>>] = "convert", ![<<"recv", spc>>] = "call"]
      BY <1>4 DEF Spawn, Types
    <2>2. ASSUME NEW e \in Conns
          PROVE  /\ pc'[<<"send", e>>] \in {pc[<<"send", e>>], "convert"}
                 /\ pc'[<<"recv", e>>] \in {pc[<<"recv", e>>], "call"}
      BY <2>1, Handled DEF Types
    <2> QED BY <1>c, <2>1, <2>2
  <1>5. ASSUME NEW h \in Handlers, Handler_Check(h) \/ Handler_Close(h) \/ Handler_Clear(h)
        PROVE  OwnConnection' /\ WholeToWrite' /\ CommandsFresh'
    <2>1. UNCHANGED <<recvOn, return_data, recv_buff, unread, short>>
      BY <1>5 DEF Handler_Check, Handler_Close, Handler_Clear
    <2>2. PICK l \in {"close", "done", "clear"} : pc' = [pc EXCEPT ![h] = l]
      BY <1>5 DEF Handler_Check, Handler_Close, Handler_Clear
    <2>3. \A g \in Handlers : pc'[g] \in {"blocked", "write", "parse"} => pc[g] = pc'[g]
      BY <2>2 DEF Types
    <2>4. \A e \in Conns : conn'[e] = "up" => conn[e] = "up"
      BY <1>5 DEF Handler_Check, Handler_Close, Handler_Clear, Types
    <2> QED BY <1>c, <2>1, <2>3, <2>4, Handled
  <1>6. ASSUME NEW c \in Conns, Send_Convert(c)
        PROVE  OwnConnection' /\ WholeToWrite' /\ CommandsFresh'
    <2>1. UNCHANGED <<recvOn, conn, recv_buff, unread, short>>
      BY <1>6 DEF Send_Convert
    <2>2. PICK l \in {"converting", "write"} : pc' = [pc EXCEPT ![<<"send", c>>] = l]
      BY <1>6 DEF Send_Convert
    <2>3. \A e \in Conns : pc'[<<"recv", e>>] = pc[<<"recv", e>>]
      BY <2>2, Handled DEF Types
    <2>4. OwnConnection' /\ CommandsFresh'
      BY <1>b, <2>1, <2>3 DEF OwnConnection, CommandsFresh
    <2>5. Busy(c)
      BY <1>6 DEF Send_Convert, Busy, Running
    <2>6. ASSUME NEW e \in Conns, pc'[<<"send", e>>] = "write" PROVE return_data' = "whole"
      <3>1. e = c
        <4>1. SUFFICES ASSUME e # c PROVE FALSE
          OBVIOUS
        <4>2. pc[<<"send", e>>] = "write"
          BY <2>2, <2>6, <4>1, Handled DEF Types
        <4> QED BY <1>b, <2>5, <4>1, <4>2 DEF Busy, Running
      <3>2. ~\E g \in Conns \ {c} : pc[<<"send", g>>] = "converting"
        BY <1>b, <2>5 DEF Busy, Running
      <3>3. pc'[<<"send", c>>] = "write"
        BY <2>6, <3>1
      <3>4. CASE pc[<<"send", c>>] = "convert" /\ pc' = [pc EXCEPT ![<<"send", c>>] = "converting"]
        BY <3>3, <3>4, Handled DEF Types
      <3>5. CASE return_data' = "whole"
        BY <3>5
      <3> QED BY <1>6, <3>2, <3>4, <3>5 DEF Send_Convert
    <2> QED BY <2>4, <2>6 DEF WholeToWrite
  <1>7. ASSUME NEW c \in Conns, Send_Write(c)
        PROVE  OwnConnection' /\ WholeToWrite' /\ CommandsFresh'
    <2>1. UNCHANGED <<recvOn, return_data, recv_buff, unread, short>>
      BY <1>7 DEF Send_Write
    <2>2. pc' = pc \/ \E l \in {"convert", "check"} : pc' = [pc EXCEPT ![<<"send", c>>] = l]
      BY <1>7 DEF Send_Write
    <2>3. \A g \in Handlers : pc'[g] \in {"blocked", "write", "parse"} => pc[g] = pc'[g]
      BY <2>2 DEF Types
    <2>4. \A e \in Conns : conn'[e] = "up" => conn[e] = "up"
      BY <1>7, CurrentType DEF Send_Write, Types
    <2> QED BY <1>c, <2>1, <2>3, <2>4, Handled
  <1>8. ASSUME NEW c \in Conns, Recv_Call(c)
        PROVE  OwnConnection' /\ WholeToWrite' /\ CommandsFresh'
    <2>1. UNCHANGED <<return_data, recv_buff, unread, short, conn>> /\ pc[<<"recv", c>>] = "call"
      BY <1>8 DEF Recv_Call
    <2>2. CASE Current = None
      <3>1. pc' = [pc EXCEPT ![<<"recv", c>>] = "check"] /\ recvOn' = recvOn
        BY <1>8, <2>2 DEF Recv_Call
      <3>2. \A g \in Handlers : pc'[g] \in {"blocked", "write", "parse"} => pc[g] = pc'[g]
        BY <3>1 DEF Types
      <3> QED BY <1>c, <2>1, <3>1, <3>2, Handled
    <2>3. CASE Current # None
      <3>1. /\ pc' = [pc EXCEPT ![<<"recv", c>>] = "blocked"]
            /\ recvOn' = [recvOn EXCEPT ![c] = Current]
        BY <1>8, <2>3 DEF Recv_Call
      <3>2. Busy(c) /\ Busy(Current) /\ Current \in Conns
        BY <2>1, <2>3, CurrentType DEF Busy, Running, ServedWhileCurrent
      <3>3. Current = c
        BY <1>b, <3>2
      <3>4. \A g \in Handlers : g # <<"recv", c>> => pc'[g] = pc[g]
        BY <3>1 DEF Types
      <3>5. ASSUME NEW e \in Conns, pc'[<<"recv", e>>] = "blocked" PROVE recvOn'[e] = e
        <4>1. CASE e = c BY <4>1, <3>1, <3>3 DEF Types
        <4>2. CASE e # c
          <5>1. <<"recv", e>> # <<"recv", c>> BY <4>2
          <5>2. pc[<<"recv", e>>] = "blocked" BY <5>1, <3>4, <3>5, Handled
          <5> QED BY <4>2, <5>2, <3>1, <1>b DEF Types
        <4> QED BY <4>1, <4>2
      <3>6. \A e \in Conns : pc'[<<"send", e>>] = pc[<<"send", e>>]
        BY <3>4, Handled
      <3>7. \A e \in Conns : pc'[<<"recv", e>>] = "parse" => pc[<<"recv", e>>] = "parse"
        BY <3>1, Handled DEF Types
      <3> QED BY <1>b, <2>1, <3>5, <3>6, <3>7 DEF OwnConnection, WholeToWrite, CommandsFresh
    <2> QED BY <2>2, <2>3
  <1>9. ASSUME NEW c \in Conns, Recv_Data(c) \/ Recv_Eof(c) \/ Recv_Error(c)
        PROVE  OwnConnection' /\ WholeToWrite' /\ CommandsFresh'
    <2>1. /\ return_data' = return_data /\ pc[<<"recv", c>>] = "blocked"
          /\ recvOn' = [recvOn EXCEPT ![c] = None]
      BY <1>9 DEF Recv_Data, Recv_Eof, Recv_Error
    <2>2. PICK l \in {"parse", "check"} : pc' = [pc EXCEPT ![<<"recv", c>>] = l]
      BY <1>9 DEF Recv_Data, Recv_Eof, Recv_Error
    <2>3. recvOn[c] = c
      BY <1>b, <2>1
    <2>4. Busy(c)
      BY <2>1 DEF Busy, Running
    <2>5. \A e \in Conns : pc'[<<"send", e>>] = pc[<<"send", e>>]
      BY <2>2, Handled DEF Types
    <2>6. ASSUME NEW e \in Conns, e # c
          PROVE  pc'[<<"recv", e>>] = pc[<<"recv", e>>] /\ pc[<<"recv", e>>] \in {"none", "done"}
      BY <1>b, <2>2, <2>4, <2>6, Handled DEF Types, Busy, Running
    <2>7. pc'[<<"recv", c>>] = l
      BY <2>2, Handled DEF Types
    <2>8. OwnConnection' /\ WholeToWrite'
      BY <1>b, <2>1, <2>5, <2>6, <2>7 DEF OwnConnection, WholeToWrite
    <2>9. l = "parse" => conn'[c] # "up" \/ short'[c] \/ (unread' /\ recv_buff' \in Frames)
      <3>1. CASE Recv_Data(c)
        <4>1. CASE FullRecv(c)
          BY <4>1 DEF FullRecv, InStep
        <4>2. CASE ShortRecv(c)
          BY <4>2 DEF ShortRecv, InStep
        <4> QED BY <3>1, <2>3, <4>1, <4>2 DEF Recv_Data
      <3>2. CASE Recv_Eof(c)
        BY <3>2, <2>3 DEF Recv_Eof, Released, Types
      <3>3. CASE Recv_Error(c)
        BY <3>3, <2>2, <2>7 DEF Recv_Error, Types
      <3> QED BY <1>9, <3>1, <3>2, <3>3
    <2> QED BY <2>6, <2>7, <2>8, <2>9 DEF CommandsFresh
  <1>10. ASSUME NEW c \in Conns, Recv_Parse(c)
         PROVE  OwnConnection' /\ WholeToWrite' /\ CommandsFresh'
    <2>1. /\ UNCHANGED <<recvOn, return_data, conn>> /\ pc[<<"recv", c>>] = "parse"
          /\ pc' = [pc EXCEPT ![<<"recv", c>>] = "call"]
      BY <1>10 DEF Recv_Parse
    <2>2. Busy(c)
      BY <2>1 DEF Busy, Running
    <2>3. ASSUME NEW e \in Conns
          PROVE  pc'[<<"recv", e>>] \in {"none", "done", "call"}
                 /\ pc'[<<"send", e>>] = pc[<<"send", e>>]
      BY <1>b, <2>1, <2>2, Handled DEF Types, Busy, Running
    <2> QED BY <1>b, <2>1, <2>3 DEF OwnConnection, WholeToWrite, CommandsFresh
  <1>11. CASE UNCHANGED vars
    BY <1>c, <1>11 DEF vars
  <1> QED BY <1>1, <1>2, <1>3, <1>4, <1>5, <1>6, <1>7, <1>8, <1>9, <1>10, <1>11, Handled
          DEF Next, server_thread, send_thread, recv_thread

----------------------------------------------------------------------------
IInv == Types /\ InStep /\ Fresh /\ ServedWhileCurrent /\ StaleOnlyWhileClearing /\ Single

LEMMA IInvInit == Init => IInv
  <1> SUFFICES ASSUME Init PROVE IInv
    OBVIOUS
  <1>1. Types /\ spc = "accept" /\ client_sock = -1 /\ \A c \in Conns : conn[c] = "idle"
    BY TypesInit DEF Init
  <1>2. \A h \in Handlers : pc[h] = "none"
    BY DEF Init
  <1>3. InStep
    BY DEF Init, InStep
  <1> QED BY <1>1, <1>2, <1>3, Handled, NamesAssumption
          DEF IInv, Fresh, ServedWhileCurrent, StaleOnlyWhileClearing, Single, Alone, Busy,
              OwnConnection, WholeToWrite, CommandsFresh, Current, Running

LEMMA IInvStep == IInv /\ [Next]_vars => IInv'
  BY TypesStep, InStepStep, FreshStep, ServedStep, StaleStep, SingleStep DEF IInv

\* The inductive invariant.
THEOREM Invariance == Spec => []IInv
  BY IInvInit, IInvStep, PTL DEF Spec

\* However many clients come and go, the connection client_sock leads to has
\* both its threads (server_thread, send_thread, recv_thread).
THEOREM ServedSafe == Spec => []ServedWhileCurrent
  <1>1. IInv => ServedWhileCurrent BY DEF IInv
  <1> QED BY Invariance, <1>1, PTL

\* client_sock names a closed descriptor only until its closer clears it
\* (server.c:86, 112).
THEOREM StaleSafe == Spec => []StaleOnlyWhileClearing
  <1>1. IInv => StaleOnlyWhileClearing BY DEF IInv
  <1> QED BY Invariance, <1>1, PTL

\* With one client at a time, what recv_thread parses is a frame none of whose
\* bytes was parsed before, unless the client has gone or a recv of its stream
\* came up short (server.c:107-119).
THEOREM FreshSafe == Spec => []CommandsFresh
  <1>1. IInv => CommandsFresh BY DEF IInv, Single
  <1> QED BY Invariance, <1>1, PTL

\* With one client at a time the check byte of every status frame that is
\* written covers it (send_thread).
THEOREM FramesSafe == Spec => FramesIntact
  <1>1. IInv /\ [Next]_vars
            => [\A c \in Conns : pc[<<"send", c>>] = "write" /\ pc'[<<"send", c>>] # "write"
                    => return_data = "whole" \/ overlapped]_vars
    BY DEF IInv, Single, WholeToWrite
  <1> QED BY Invariance, <1>1, PTL DEF Spec, FramesIntact

----------------------------------------------------------------------------
(* The senders end *)

\* The steps the send_thread of c has left, at a place p, if client_sock stays
\* -1; it may still have to be started.
SendLeftAt(p, s, c) ==
    CASE s = c -> 6
      [] s # c /\ p = "convert" -> 5
      [] s # c /\ p = "converting" -> 4
      [] s # c /\ p = "write" -> 3
      [] s # c /\ p \in {"check", "close"} -> 2
      [] s # c /\ p = "clear" -> 1
      [] OTHER -> 0

SendLeft(c) == SendLeftAt(pc[<<"send", c>>], spc, c)

\* A send_thread is at its own places.
SendPlaces == \A c \in Conns : pc[<<"send", c>>] \notin {"call", "blocked", "parse"}

\* Nothing is left exactly of those that are over or were never started.
SendLeftTells ==
    \A c \in Conns : /\ SendLeft(c) \in 0..6
                     /\ SendLeft(c) = 0 <=> spc # c /\ ~Running(<<"send", c>>)

\* While client_sock is -1 every step of a send_thread brings it nearer to its
\* end, and no step of anybody takes it back.
DrainSteps ==
    [][client_sock = -1 /\ client_sock' = -1 =>
         \A c \in Conns : /\ SendLeft(c)' <= SendLeft(c)
                          /\ send_thread(c) => SendLeft(c)' < SendLeft(c)]_vars

\* The step of a thread moves that thread only.
LEMMA ThreadMoves ==
    ASSUME Types, NEW c \in Conns, send_thread(c) \/ recv_thread(c)
    PROVE  /\ spc' = spc
           /\ \A e \in Conns : e # c => pc'[<<"send", e>>] = pc[<<"send", e>>]
           /\ recv_thread(c) => pc'[<<"send", c>>] = pc[<<"send", c>>]
  <1>1. ASSUME send_thread(c)
        PROVE  spc' = spc /\ \E l \in Locations : pc' = pc \/ pc' = [pc EXCEPT ![<<"send", c>>] = l]
    BY <1>1 DEF send_thread, Send_Convert, Send_Write, Handler_Check, Handler_Close, Handler_Clear,
                Locations
  <1>2. ASSUME recv_thread(c)
        PROVE  spc' = spc /\ \E l \in Locations : pc' = [pc EXCEPT ![<<"recv", c>>] = l]
    BY <1>2 DEF recv_thread, Recv_Call, Recv_Data, Recv_Eof, Recv_Error, Recv_Parse,
                Handler_Check, Handler_Close, Handler_Clear, Locations
  <1>3. pc \in [Handlers -> Locations]
    BY DEF Types
  <1>4. \A e \in Conns : <<"send", e>> \in Handlers /\ <<"send", e>> # <<"recv", c>>
                         /\ (e # c => <<"send", e>> # <<"send", c>>)
    BY DEF Handlers
  <1>5. CASE send_thread(c)
    <2>1. \A e \in Conns : e # c => pc'[<<"send", e>>] = pc[<<"send", e>>]
      BY <1>1, <1>3, <1>4, <1>5
    <2>2. recv_thread(c) => pc'[<<"send", c>>] = pc[<<"send", c>>]
      BY <1>2, <1>3, <1>4
    <2> QED BY <1>1, <1>5, <2>1, <2>2
  <1>6. CASE recv_thread(c)
    BY <1>2, <1>3, <1>4, <1>6
  <1> QED BY <1>5, <1>6

\* Where the step of a send_thread leads while client_sock is -1.
LEMMA SendMoves ==
    ASSUME Types, NEW c \in Conns, send_thread(c)
    PROVE  LET p == pc[<<"send", c>>]
               q == pc'[<<"send", c>>]
           IN  /\ q \notin {"call", "blocked", "parse"} \/ q = p
               /\ client_sock = -1 =>
                    \/ p = "convert" /\ q = "converting"
                    \/ p = "converting" /\ q = "write"
                    \/ p = "write" /\ q = "check"
                    \/ p = "check" /\ q = "done"
                    \/ p = "close" /\ q = "clear"
                    \/ p = "clear" /\ q = "done"
  <1> DEFINE h == <<"send", c>>
  <1>1. pc \in [Handlers -> Locations] /\ h \in Handlers
    BY Handled DEF Types
  <1>2. CASE Send_Convert(c)
    <2>1. \/ pc[h] = "convert" /\ pc' = [pc EXCEPT ![h] = "converting"]
          \/ pc[h] = "converting" /\ pc' = [pc EXCEPT ![h] = "write"]
      BY <1>2 DEF Send_Convert
    <2> QED BY <1>1, <2>1
  <1>3. CASE Send_Write(c)
    <2>1. /\ pc[h] = "write"
          /\ pc' = pc \/ pc' = [pc EXCEPT ![h] = "check"] \/ pc' = [pc EXCEPT ![h] = "convert"]
      BY <1>3 DEF Send_Write
    <2>2. client_sock = -1 => pc' = [pc EXCEPT ![h] = "check"]
      BY <1>3 DEF Send_Write, Current
    <2> QED BY <1>1, <2>1, <2>2
  <1>4. CASE Handler_Check(h)
    BY <1>1, <1>4 DEF Handler_Check
  <1>5. CASE Handler_Close(h)
    <2>1. pc[h] = "close" /\ pc' = [pc EXCEPT ![h] = "clear"]
      BY <1>5, Zenon DEF Handler_Close
    <2> QED BY <1>1, <2>1
  <1>6. CASE Handler_Clear(h)
    BY <1>1, <1>6 DEF Handler_Clear
  <1> QED BY <1>2, <1>3, <1>4, <1>5, <1>6 DEF send_thread

\* What is left to a sender after a step of it, or without one.
LEMMA LeftAfter ==
    ASSUME NEW s, NEW c, NEW p, NEW q
    PROVE  /\ SendLeftAt(p, s, c) \in 0..6
           /\ s # c /\ \/ p = "convert" /\ q = "converting"
                       \/ p = "converting" /\ q = "write"
                       \/ p = "write" /\ q = "check"
                       \/ p = "check" /\ q = "done"
                       \/ p = "close" /\ q = "clear"
                       \/ p = "clear" /\ q = "done"
                => SendLeftAt(q, s, c) < SendLeftAt(p, s, c)
  BY DEF SendLeftAt

LEMMA SendPlacesStep == Types /\ SendPlaces /\ [Next]_vars => SendPlaces'
  <1> SUFFICES ASSUME Types, SendPlaces, [Next]_vars PROVE SendPlaces'
    OBVIOUS
  <1>1. ASSUME NEW c \in Conns, send_thread(c) PROVE SendPlaces'
    BY <1>1, ThreadMoves, SendMoves DEF SendPlaces
  <1>2. ASSUME NEW c \in Conns, recv_thread(c) PROVE SendPlaces'
    BY <1>2, ThreadMoves DEF SendPlaces
  <1>3. CASE Spawn
    <2>1. spc \in Conns /\ pc \in [Handlers -> Locations]
          /\ pc' = [pc EXCEPT ![<<"send", spc>>] = "convert", ![<<"recv", spc>>] = "call"]
      BY <1>3 DEF Spawn, Types
    <2>2. \A c \in Conns : pc'[<<"send", c>>] \in {pc[<<"send", c>>], "convert"}
      BY <2>1, Handled
    <2> QED BY <2>2 DEF SendPlaces
  <1>4. CASE UNCHANGED pc
    BY <1>4 DEF SendPlaces
  <1>5. ASSUME NEW c \in Conns, client(c) \/ Accept(c) PROVE UNCHANGED pc
    BY <1>5 DEF client, Connect, ClientSends, ClientCloses, ClientResets, Accept, serverVars
  <1>6. AcceptFails => UNCHANGED pc
    BY DEF AcceptFails
  <1> QED BY <1>1, <1>2, <1>3, <1>4, <1>5, <1>6 DEF Next, server_thread, vars

\* server.c:78-88: if no client comes, every send_thread ends after at most
\* six of its steps, whatever the others do meanwhile: what SendersDrain says
\* of fair schedules, in numbers.
THEOREM DrainBounded == Spec => []SendLeftTells /\ DrainSteps
  <1>1. Init => SendPlaces
    BY Handled DEF Init, SendPlaces
  <1>2. Types /\ SendPlaces => SendLeftTells
    <2> SUFFICES ASSUME Types, SendPlaces, NEW c \in Conns
                 PROVE  /\ SendLeft(c) \in 0..6
                        /\ SendLeft(c) = 0 <=> spc # c /\ ~Running(<<"send", c>>)
      BY DEF SendLeftTells
    <2>1. pc[<<"send", c>>] \in Locations \ {"call", "blocked", "parse"}
      BY Handled DEF Types, SendPlaces
    <2> QED BY <2>1 DEF SendLeft, SendLeftAt, Running, Locations
  <1>3. Types /\ Fresh /\ SendPlaces /\ [Next]_vars
            => [client_sock = -1 /\ client_sock' = -1 =>
                  \A c \in Conns : /\ SendLeft(c)' <= SendLeft(c)
                                   /\ send_thread(c) => SendLeft(c)' < SendLeft(c)]_vars
    <2> SUFFICES ASSUME Types, Fresh, SendPlaces, Next, client_sock = -1, client_sock' = -1,
                        NEW c \in Conns
                 PROVE  /\ SendLeft(c)' <= SendLeft(c)
                        /\ send_thread(c) => SendLeft(c)' < SendLeft(c)
      OBVIOUS
    <2> DEFINE p == pc[<<"send", c>>]
               q == pc'[<<"send", c>>]
    <2>1. SendLeft(c) = SendLeftAt(p, spc, c) /\ SendLeft(c)' = SendLeftAt(q, spc', c)
      BY DEF SendLeft
    <2>2. SendLeft(c) \in Int /\ SendLeft(c)' \in Int
      BY <2>1, LeftAfter
    <2>3. ASSUME send_thread(c) PROVE SendLeft(c)' < SendLeft(c)
      <3>1. spc' = spc /\ spc # c
        <4>1. p # "none"
          BY <2>3, SendMoves
        <4> QED BY <2>3, <4>1, ThreadMoves DEF Fresh
      <3> QED BY <2>1, <2>3, <3>1, SendMoves, LeftAfter
    <2>4. ASSUME p = q, spc' = spc PROVE SendLeft(c)' = SendLeft(c)
      BY <2>1, <2>4
    <2>5. ASSUME NEW e \in Conns, send_thread(e) \/ recv_thread(e), ~send_thread(c)
          PROVE  SendLeft(c)' = SendLeft(c)
      BY <2>4, <2>5, ThreadMoves
    <2>6. ASSUME NEW e \in Conns, client(e) PROVE SendLeft(c)' = SendLeft(c)
      <3>1. UNCHANGED <<pc, spc>>
        BY <2>6 DEF client, Connect, ClientSends, ClientCloses, ClientResets, serverVars
      <3> QED BY <2>4, <3>1
    <2>7. CASE Spawn
      <3>1. /\ spc \in Conns /\ spc' = "accept" /\ pc \in [Handlers -> Locations]
            /\ pc' = [pc EXCEPT ![<<"send", spc>>] = "convert", ![<<"recv", spc>>] = "call"]
        BY <2>7 DEF Spawn, Types
      <3>2. CASE spc = c
        <4>1. SendLeft(c) = 6
          BY <2>1, <3>2 DEF SendLeftAt
        <4>2. SendLeft(c)' \in 0..6
          BY <2>1, LeftAfter
        <4>3. ~send_thread(c)
          BY <3>1, <3>2, ThreadMoves, NamesAssumption
        <4> QED BY <4>1, <4>2, <4>3
      <3>3. CASE spc # c
        <4>1. q = p
          BY <3>1, <3>3, Handled DEF Handlers
        <4>2. SendLeftAt(p, spc, c) = SendLeftAt(p, "accept", c)
          BY <3>3, NamesAssumption DEF SendLeftAt
        <4> QED BY <2>1, <2>2, <2>3, <3>1, <4>1, <4>2
      <3> QED BY <3>2, <3>3
    <2>8. CASE AcceptFails
      <3>1. UNCHANGED <<pc, spc>>
        BY <2>8 DEF AcceptFails
      <3> QED BY <2>2, <2>3, <2>4, <3>1
    <2>9. ~ \E e \in Conns : Accept(e)
      <3>1. \A e : Accept(e) => client_sock' \in Fds
        BY DEF Accept
      <3> QED BY <3>1, FdsAssumption
    <2> QED BY <2>2, <2>3, <2>5, <2>6, <2>7, <2>8, <2>9 DEF Next, server_thread
  <1>4. IInv => Types /\ Fresh
    BY DEF IInv
  <1> QED BY <1>1, <1>2, <1>3, <1>4, SendPlacesStep, Invariance, PTL DEF Spec, DrainSteps
----------------------------------------------------------------------------
(* A reset connection is released *)

Pair(c) == {<<"send", c>>, <<"recv", c>>}

\* What the release of a connection turns on: its state, whether its threads
\* are still to be started, whether client_sock leads to it, where its sender
\* and its receiver are, and whether the receiver's recv holds it.
\*
\* An open connection has both threads in their loops; one known to be dead has
\* a thread about to close it or, if it was closed, the receiver that holds it.
ServedAt(st, s, cur, p, q, held) ==
    /\ st \in {"up", "fin", "finrst", "err"} =>
         /\ cur
         /\ \/ s
            \/ /\ p \in {"convert", "converting", "write"}
               /\ q \in {"call", "blocked", "parse"}
    /\ st = "dead" => \/ cur /\ (p \in {"check", "close"} \/ q \in {"check", "close"})
                      \/ ~cur /\ q = "blocked" /\ held

Served(c) == ServedAt(conn[c], spc = c, Current = c, pc[<<"send", c>>], pc[<<"recv", c>>],
                      recvOn[c] = c)

\* Whose step is next on the way to the release: the sender's, whose write gets
\* the error; then that of the thread which was told, to the close; then the
\* receiver's, which still holds the connection.
SenderNext(st, cur, p, q) ==
    \/ st = "err"
    \/ st = "dead" /\ cur /\ (p = "close" \/ (p = "check" /\ q # "close"))

ReceiverNext(st, cur, p, q) ==
    \/ st = "dead" /\ cur /\ (q = "close" \/ (q = "check" /\ p # "close"))
    \/ st = "dead" /\ ~cur

\* The steps of these threads left.
ReleaseLeftAt(st, s, cur, p, q) ==
    CASE st = "err" /\ s -> 7
      [] st = "err" /\ ~s /\ p = "convert" -> 6
      [] st = "err" /\ ~s /\ p = "converting" -> 5
      [] st = "err" /\ ~s /\ p = "write" -> 4
      [] st = "dead" /\ cur /\ p # "close" /\ q # "close" -> 3
      [] st = "dead" /\ cur /\ (p = "close" \/ q = "close") -> 2
      [] st = "dead" /\ ~cur -> 1
      [] OTHER -> 0

ReleaseLeft(c) ==
    ReleaseLeftAt(conn[c], spc = c, Current = c, pc[<<"send", c>>], pc[<<"recv", c>>])

Releasing(h, c) ==
    \/ /\ h = <<"send", c>>
       /\ SenderNext(conn[c], Current = c, pc[<<"send", c>>], pc[<<"recv", c>>])
    \/ /\ h = <<"recv", c>>
       /\ ReceiverNext(conn[c], Current = c, pc[<<"send", c>>], pc[<<"recv", c>>])

\* While clients come one at a time, a connection that was reset is never left
\* to nobody: there is a thread whose step is next, and it does not wait for
\* anything (a recv on a dead connection returns).
ReleaserThere ==
    alive /\ ~overlapped => \A c \in Conns : conn[c] \in {"err", "dead"} =>
        /\ ReleaseLeft(c) \in 1..7
        /\ \E h \in Pair(c) :
              /\ Releasing(h, c)
              /\ \/ spc = c
                 \/ pc[h] \in {"convert", "converting", "write", "check", "close"}
                 \/ pc[h] = "blocked" /\ recvOn[c] = c /\ conn[c] = "dead"

\* The next step of that thread brings the release nearer, and nothing takes
\* it back; after the last one the connection is released.
ReleaseStep(c) ==
    conn[c] \in {"err", "dead"} =>
        /\ ReleaseLeft(c)' <= ReleaseLeft(c)
        /\ conn'[c] \in {"err", "dead", "closed"}
        /\ \A h \in Pair(c) : Releasing(h, c) /\ pc'[h] # pc[h]
               => ReleaseLeft(c)' < ReleaseLeft(c)

ReleaseSteps == [][alive' /\ ~overlapped' => \A c \in Conns : ReleaseStep(c)]_vars

\* What else holds while clients come one at a time: only the descriptor in
\* client_sock is open, a thread clears it after it was closed, and a recv
\* that does not block holds nothing.
OneDescriptor == ~overlapped => \A fd \in Fds : fdConn[fd] # None => client_sock = fd
ClearedClosed == ~overlapped => \A h \in Handlers : pc[h] = "clear" => Current = None
HeldBlocked == \A c \in Conns : recvOn[c] # None => pc[<<"recv", c>>] = "blocked"
AllServed == alive /\ ~overlapped => \A c \in Conns : Served(c)

ReleaseInv == IInv /\ OneDescriptor /\ ClearedClosed /\ HeldBlocked /\ AllServed

\* A step seen from one connection.
NearerAt(st, s, cur, p, q, st2, s2, cur2, p2, q2) ==
    st \in {"err", "dead"} =>
        /\ ReleaseLeftAt(st2, s2, cur2, p2, q2) <= ReleaseLeftAt(st, s, cur, p, q)
        /\ st2 \in {"err", "dead", "closed"}
        /\ SenderNext(st, cur, p, q) /\ p2 # p
              => ReleaseLeftAt(st2, s2, cur2, p2, q2) < ReleaseLeftAt(st, s, cur, p, q)
        /\ ReceiverNext(st, cur, p, q) /\ q2 # q
              => ReleaseLeftAt(st2, s2, cur2, p2, q2) < ReleaseLeftAt(st, s, cur, p, q)

\* Its own threads' steps, the start of them and the client's.
StartMoves(st, s, cur, p, q, held, st2, s2, cur2, p2, q2, held2) ==
    \/ /\ st = "up" /\ st2 \in {"fin", "err"}
       /\ s2 = s /\ cur2 = cur /\ p2 = p /\ q2 = q /\ held2 = held
    \/ /\ s /\ ~s2 /\ p2 = "convert" /\ q2 = "call" /\ p = "none" /\ q = "none"
       /\ st2 = st /\ cur2 = cur /\ held2 = held

SenderMoves(st, s, cur, p, q, held, st2, s2, cur2, p2, q2, held2) ==
    /\ ~s /\ ~s2 /\ cur2 = cur /\ q2 = q /\ held2 = held
    /\ \/ p = "convert" /\ p2 = "converting" /\ st2 = st
       \/ p = "converting" /\ p2 = "write" /\ st2 = st
       \/ p = "write" /\ ~cur /\ p2 = "check" /\ st2 = st
       \/ p = "write" /\ cur /\ st = "up" /\ p2 = "convert" /\ st2 = st
       \/ p = "write" /\ cur /\ st = "fin" /\ p2 = "convert" /\ st2 \in {"fin", "finrst"}
       \/ p = "write" /\ cur /\ st = "err" /\ p2 = "check" /\ st2 = "dead"

ReceiverMoves(st, s, cur, p, q, held, st2, s2, cur2, p2, q2, held2) ==
    /\ ~s /\ ~s2 /\ cur2 = cur /\ p2 = p
    /\ \/ q = "call" /\ st2 = st /\ ((cur /\ q2 = "blocked" /\ held2) \/ (~cur /\ q2 = "check"))
       \/ /\ q = "blocked" /\ ~held2 /\ q2 \in {"parse", "check"}
          /\ q2 = "check" => st = "err"
          /\ st2 = IF ~cur THEN "closed" ELSE IF q2 = "check" THEN "dead" ELSE st
       \/ q = "parse" /\ q2 = "call" /\ st2 = st

ClosingMove(cur, at, at2, cur2, st, st2, held) ==
    \/ at = "check" /\ (at2 = "close" \/ (at2 = "done" /\ ~cur)) /\ cur2 = cur /\ st2 = st
    \/ /\ at = "close" /\ at2 = "clear" /\ ~cur2
       /\ st2 = IF cur /\ ~held THEN "closed" ELSE st
    \/ at = "clear" /\ at2 = "done" /\ ~cur /\ ~cur2 /\ st2 = st

ClosingMoves(st, s, cur, p, q, held, st2, s2, cur2, p2, q2, held2) ==
    /\ ~s /\ ~s2 /\ held2 = held /\ (held => q = "blocked")
    /\ \/ ClosingMove(cur, p, p2, cur2, st, st2, held) /\ q2 = q
       \/ ClosingMove(cur, q, q2, cur2, st, st2, held) /\ p2 = p

\* The step from one connection's view.
ServedNext(c) ==
    /\ Served(c)'
    /\ NearerAt(conn[c], spc = c, Current = c, pc[<<"send", c>>], pc[<<"recv", c>>],
                conn'[c], spc' = c, Current' = c, pc'[<<"send", c>>], pc'[<<"recv", c>>])

\* The four kinds of step, from one connection's view.
Moved(st, s, cur, p, q, held, st2, s2, cur2, p2, q2, held2) ==
    \/ StartMoves(st, s, cur, p, q, held, st2, s2, cur2, p2, q2, held2)
    \/ SenderMoves(st, s, cur, p, q, held, st2, s2, cur2, p2, q2, held2)
    \/ ReceiverMoves(st, s, cur, p, q, held, st2, s2, cur2, p2, q2, held2)
    \/ ClosingMoves(st, s, cur, p, q, held, st2, s2, cur2, p2, q2, held2)

\* Each leads from a served connection to a served one, nearer its release.
LEMMA MovedNext ==
    ASSUME NEW c \in Conns, Served(c),
           Moved(conn[c], spc = c, Current = c, pc[<<"send", c>>], pc[<<"recv", c>>],
                 recvOn[c] = c, conn'[c], spc' = c, Current' = c, pc'[<<"send", c>>],
                 pc'[<<"recv", c>>], recvOn'[c] = c)
    PROVE  ServedNext(c)
  <1> DEFINE st == conn[c]
             s == spc = c
             cur == Current = c
             p == pc[<<"send", c>>]
             q == pc[<<"recv", c>>]
             held == recvOn[c] = c
             st2 == conn'[c]
             s2 == spc' = c
             cur2 == Current' = c
             p2 == pc'[<<"send", c>>]
             q2 == pc'[<<"recv", c>>]
             held2 == recvOn'[c] = c
  <1>1. /\ s \in BOOLEAN /\ cur \in BOOLEAN /\ held \in BOOLEAN
        /\ s2 \in BOOLEAN /\ cur2 \in BOOLEAN /\ held2 \in BOOLEAN
    OBVIOUS
  <1>2. /\ ServedAt(st, s, cur, p, q, held)
        /\ Moved(st, s, cur, p, q, held, st2, s2, cur2, p2, q2, held2)
    BY DEF Served
  <1>3. (ServedAt(st2, s2, cur2, p2, q2, held2)
           /\ NearerAt(st, s, cur, p, q, st2, s2, cur2, p2, q2)) => ServedNext(c)
    BY DEF ServedNext, Served
  <1> HIDE DEF st, s, cur, p, q, held, st2, s2, cur2, p2, q2, held2
  <1>4. /\ ServedAt(st2, s2, cur2, p2, q2, held2)
        /\ NearerAt(st, s, cur, p, q, st2, s2, cur2, p2, q2)
    <2>1. CASE StartMoves(st, s, cur, p, q, held, st2, s2, cur2, p2, q2, held2)
      BY <1>1, <1>2, <2>1
      DEF ServedAt, NearerAt, StartMoves, ReleaseLeftAt, SenderNext, ReceiverNext
    <2>2. CASE SenderMoves(st, s, cur, p, q, held, st2, s2, cur2, p2, q2, held2)
      BY <1>1, <1>2, <2>2
      DEF ServedAt, NearerAt, SenderMoves, ReleaseLeftAt, SenderNext, ReceiverNext
    <2>3. CASE ReceiverMoves(st, s, cur, p, q, held, st2, s2, cur2, p2, q2, held2)
      BY <1>1, <1>2, <2>3
      DEF ServedAt, NearerAt, ReceiverMoves, ReleaseLeftAt, SenderNext, ReceiverNext
    <2>4. CASE ClosingMoves(st, s, cur, p, q, held, st2, s2, cur2, p2, q2, held2)
      <3>1. CASE ClosingMove(cur, p, p2, cur2, st, st2, held) /\ q2 = q
        BY <1>1, <1>2, <2>4, <3>1
        DEF ServedAt, NearerAt, ClosingMoves, ClosingMove, ReleaseLeftAt, SenderNext, ReceiverNext
      <3>2. CASE ClosingMove(cur, q, q2, cur2, st, st2, held) /\ p2 = p
        BY <1>1, <1>2, <2>4, <3>2
        DEF ServedAt, NearerAt, ClosingMoves, ClosingMove, ReleaseLeftAt, SenderNext, ReceiverNext
      <3> QED BY <2>4, <3>1, <3>2 DEF ClosingMoves
    <2> QED BY <1>2, <2>1, <2>2, <2>3, <2>4 DEF Moved
  <1> QED BY <1>3, <1>4

InUse == {"up", "fin", "finrst", "err", "dead"}

\* A connection in use has threads, or gets them.
LEMMA InUseBusy ==
    ASSUME NEW c \in Conns, Served(c), conn[c] \in InUse
    PROVE  Busy(c)
  BY DEF Served, ServedAt, InUse, Busy, Running

\* A connection that stays out of use.
LEMMA UnusedNext ==
    ASSUME NEW c \in Conns, conn[c] \notin {"err", "dead"}, conn'[c] \notin InUse
    PROVE  ServedNext(c)
  BY DEF ServedNext, Served, ServedAt, NearerAt, InUse

\* A connection nothing changes for.
LEMMA KeptNext ==
    ASSUME NEW c \in Conns, Served(c), conn'[c] = conn[c], spc' = spc, Current' = Current,
           pc'[<<"send", c>>] = pc[<<"send", c>>], pc'[<<"recv", c>>] = pc[<<"recv", c>>],
           recvOn'[c] = recvOn[c]
    PROVE  ServedNext(c)
  <1>1. Served(c)'
    BY DEF Served
  <1>2. \A st, s, cur, p, q : ReleaseLeftAt(st, s, cur, p, q) \in Int
    BY DEF ReleaseLeftAt
  <1>3. \A st, s, cur, p, q : NearerAt(st, s, cur, p, q, st, s, cur, p, q)
    BY <1>2 DEF NearerAt
  <1> QED BY <1>1, <1>3 DEF ServedNext

\* While clients come one at a time, the step of one leaves the others out of
\* use.
LEMMA OneMoves ==
    ASSUME ReleaseInv, alive, ~overlapped, NEW c \in Conns, Busy(c), ServedNext(c),
           \A e \in Conns : e # c => conn'[e] = conn[e]
    PROVE  \A e \in Conns : ServedNext(e)
  <1> SUFFICES ASSUME NEW e \in Conns, e # c PROVE ServedNext(e)
    OBVIOUS
  <1>1. Served(e) /\ ~Busy(e)
    BY DEF ReleaseInv, AllServed, IInv, Single, Alone
  <1>2. conn[e] \notin InUse
    BY <1>1, InUseBusy
  <1> QED BY <1>2, UnusedNext DEF InUse

\* client_sock leads nowhere or to the client that is served.
LEMMA CurrentBusy ==
    ASSUME ReleaseInv, Current # None
    PROVE  Current \in Conns /\ Busy(Current)
  BY CurrentType DEF ReleaseInv, IInv, ServedWhileCurrent, Busy

LEMMA CurrentOwn ==
    ASSUME ReleaseInv, ~overlapped, NEW c \in Conns, Busy(c)
    PROVE  Current \in {None, c}
  BY CurrentBusy DEF ReleaseInv, IInv, Single, Alone

LEMMA ClientNext ==
    ASSUME ReleaseInv, alive, ~overlapped, NEW c \in Conns, client(c)
    PROVE  \A e \in Conns : ServedNext(e)
  <1>1. /\ UNCHANGED <<spc, pc, recvOn>> /\ Current' = Current
        /\ \A e \in Conns : e # c => conn'[e] = conn[e]
        /\ \/ conn'[c] = conn[c]
           \/ conn[c] = "idle" /\ conn'[c] = "wait"
           \/ conn[c] = "up" /\ conn'[c] \in {"fin", "err"}
    BY DEF client, Connect, ClientSends, ClientCloses, ClientResets, serverVars, Current,
           ReleaseInv, IInv, Types
  <1>2. ASSUME NEW e \in Conns, conn'[e] = conn[e] PROVE ServedNext(e)
    BY <1>1, <1>2, KeptNext DEF ReleaseInv, AllServed
  <1>3. CASE conn[c] = "idle" /\ conn'[c] = "wait"
    BY <1>1, <1>2, <1>3, UnusedNext DEF InUse
  <1>4. CASE conn[c] = "up" /\ conn'[c] \in {"fin", "err"}
    <2>1. Served(c)
      BY DEF ReleaseInv, AllServed
    <2>2. StartMoves(conn[c], spc = c, Current = c, pc[<<"send", c>>], pc[<<"recv", c>>],
                     recvOn[c] = c, conn'[c], spc' = c, Current' = c, pc'[<<"send", c>>],
                     pc'[<<"recv", c>>], recvOn'[c] = c)
      BY <1>1, <1>4 DEF StartMoves
    <2>3. ServedNext(c)
      BY <2>1, <2>2, MovedNext DEF Moved
    <2> QED BY <1>1, <1>2, <2>3
  <1> QED BY <1>1, <1>2, <1>3, <1>4

LEMMA AcceptNext ==
    ASSUME ReleaseInv, alive, ~overlapped, NEW c \in Conns, Accept(c)
    PROVE  \A e \in Conns : ServedNext(e)
  <1>1. /\ conn[c] = "wait" /\ conn'[c] = "up" /\ spc' = c
        /\ \A e \in Conns : e # c => conn'[e] = conn[e]
    BY DEF Accept, ReleaseInv, IInv, Types
  <1>2. Current' = c
    BY FdsAssumption DEF Accept, Current, ReleaseInv, IInv, Types
  <1>3. ServedNext(c)
    BY <1>1, <1>2 DEF ServedNext, Served, ServedAt, NearerAt
  <1> QED BY <1>1, <1>3, OneMoves DEF Busy

LEMMA AcceptFailsNext ==
    ASSUME ReleaseInv, alive, ~overlapped, AcceptFails
    PROVE  \A e \in Conns : ServedNext(e)
  <1>1. PICK c \in Conns : conn[c] = "wait"
    BY DEF AcceptFails
  <1>2. conn' = conn
    BY DEF AcceptFails
  <1>3. ServedNext(c)
    BY <1>1, <1>2, UnusedNext DEF InUse
  <1> QED BY <1>1, <1>2, <1>3, OneMoves DEF Busy

LEMMA SpawnNext ==
    ASSUME ReleaseInv, alive, ~overlapped, Spawn
    PROVE  \A e \in Conns : ServedNext(e)
  <1> DEFINE c == spc
  <1>1. /\ c \in Conns /\ spc' = "accept" /\ spc' # c /\ UNCHANGED <<conn, recvOn>>
        /\ Current' = Current
        /\ pc' = [pc EXCEPT ![<<"send", c>>] = "convert", ![<<"recv", c>>] = "call"]
    BY NamesAssumption DEF Spawn, Current, ReleaseInv, IInv, Types
  <1>2. pc'[<<"send", c>>] = "convert" /\ pc'[<<"recv", c>>] = "call"
    BY <1>1, Handled DEF ReleaseInv, IInv, Types
  <1>3. pc[<<"send", c>>] = "none" /\ pc[<<"recv", c>>] = "none"
    BY <1>1 DEF ReleaseInv, IInv, Fresh
  <1> HIDE DEF c
  <1>4. Served(c)
    BY <1>1 DEF ReleaseInv, AllServed
  <1>5. StartMoves(conn[c], spc = c, Current = c, pc[<<"send", c>>], pc[<<"recv", c>>],
                   recvOn[c] = c, conn'[c], spc' = c, Current' = c, pc'[<<"send", c>>],
                   pc'[<<"recv", c>>], recvOn'[c] = c)
    BY <1>1, <1>2, <1>3 DEF StartMoves, c
  <1>6. ServedNext(c)
    BY <1>1, <1>4, <1>5, MovedNext DEF Moved
  <1> QED BY <1>1, <1>6, OneMoves DEF Busy, c

LEMMA SenderNexts ==
    ASSUME ReleaseInv, alive, ~overlapped, alive', NEW c \in Conns,
           Send_Convert(c) \/ Send_Write(c)
    PROVE  \A e \in Conns : ServedNext(e)
  <1> DEFINE S == <<"send", c>>
             R == <<"recv", c>>
  <1>1. /\ UNCHANGED <<spc, recvOn>> /\ Current' = Current /\ Running(S)
    BY DEF Send_Convert, Send_Write, Current, Running
  <1>2. Busy(c)
    BY <1>1 DEF Busy
  <1>3. Current \in {None, c}
    BY <1>2, CurrentOwn
  <1>4. spc # c
    BY <1>1 DEF ReleaseInv, IInv, Fresh, Running
  <1>5. S \in Handlers /\ R \in Handlers /\ S # R /\ pc \in [Handlers -> Locations]
        /\ conn \in [Conns -> ConnStates] /\ c # None
    BY Handled, NamesAssumption DEF ReleaseInv, IInv, Types
  <1>6. /\ \A e \in Conns : e # c => conn'[e] = conn[e]
        /\ SenderMoves(conn[c], spc = c, Current = c, pc[S], pc[R], recvOn[c] = c,
                       conn'[c], spc' = c, Current' = c, pc'[S], pc'[R], recvOn'[c] = c)
    <2>1. CASE Send_Convert(c)
      <3>1. /\ conn' = conn
            /\ \/ pc[S] = "convert" /\ pc' = [pc EXCEPT ![S] = "converting"]
               \/ pc[S] = "converting" /\ pc' = [pc EXCEPT ![S] = "write"]
        BY <2>1 DEF Send_Convert
      <3>2. /\ pc'[R] = pc[R]
            /\ \/ pc[S] = "convert" /\ pc'[S] = "converting"
               \/ pc[S] = "converting" /\ pc'[S] = "write"
        BY <1>5, <3>1
      <3> HIDE DEF S, R
      <3> QED BY <1>1, <1>4, <3>1, <3>2 DEF SenderMoves
    <2>2. CASE Send_Write(c)
      <3>1. /\ pc[S] = "write"
            /\ \/ Current = None /\ pc' = [pc EXCEPT ![S] = "check"] /\ conn' = conn
               \/ /\ Current = c /\ conn[c] = "up"
                  /\ pc' = [pc EXCEPT ![S] = "convert"] /\ conn' = conn
               \/ /\ Current = c /\ conn[c] = "fin" /\ pc' = [pc EXCEPT ![S] = "convert"]
                  /\ conn' \in {conn, [conn EXCEPT ![c] = "finrst"]}
               \/ /\ Current = c /\ conn[c] = "err" /\ pc' = [pc EXCEPT ![S] = "check"]
                  /\ conn' = [conn EXCEPT ![c] = "dead"]
        <4>1. CASE Current = None
          BY <2>2, <4>1 DEF Send_Write
        <4>2. CASE Current = c
          BY <1>5, <2>2, <4>2 DEF Send_Write
        <4> QED BY <1>3, <4>1, <4>2
      <3>2. /\ pc'[R] = pc[R]
            /\ \/ Current # c /\ pc'[S] = "check" /\ conn'[c] = conn[c]
               \/ /\ Current = c /\ conn[c] = "up"
                  /\ pc'[S] = "convert" /\ conn'[c] = conn[c]
               \/ /\ Current = c /\ conn[c] = "fin"
                  /\ pc'[S] = "convert" /\ conn'[c] \in {"fin", "finrst"}
               \/ /\ Current = c /\ conn[c] = "err"
                  /\ pc'[S] = "check" /\ conn'[c] = "dead"
        BY <1>5, <3>1
      <3>3. \A e \in Conns : e # c => conn'[e] = conn[e]
        BY <1>5, <3>1
      <3> HIDE DEF S, R
      <3> QED BY <1>1, <1>4, <3>1, <3>2, <3>3 DEF SenderMoves
    <2> QED BY <2>1, <2>2
  <1>7. Served(c)
    BY DEF ReleaseInv, AllServed
  <1>8. ServedNext(c)
    BY <1>6, <1>7, MovedNext DEF Moved
  <1> QED BY <1>2, <1>6, <1>8, OneMoves

LEMMA ReceiverNexts ==
    ASSUME ReleaseInv, alive, ~overlapped, NEW c \in Conns,
           Recv_Call(c) \/ Recv_Data(c) \/ Recv_Eof(c) \/ Recv_Error(c) \/ Recv_Parse(c)
    PROVE  \A e \in Conns : ServedNext(e)
  <1> DEFINE S == <<"send", c>>
             R == <<"recv", c>>
  <1>1. UNCHANGED spc /\ Current' = Current /\ Running(R)
    BY DEF Recv_Call, Recv_Data, Recv_Eof, Recv_Error, Recv_Parse, Current, Running
  <1>2. Busy(c)
    BY <1>1 DEF Busy
  <1>3. Current \in {None, c}
    BY <1>2, CurrentOwn
  <1>4. spc # c
    BY <1>1 DEF ReleaseInv, IInv, Fresh, Running
  <1>5. S \in Handlers /\ R \in Handlers /\ S # R /\ pc \in [Handlers -> Locations]
        /\ conn \in [Conns -> ConnStates] /\ c # None /\ recvOn \in [Conns -> Conns \cup {None}]
    BY Handled, NamesAssumption DEF ReleaseInv, IInv, Types
  <1>6. /\ \A e \in Conns : e # c => conn'[e] = conn[e]
        /\ ReceiverMoves(conn[c], spc = c, Current = c, pc[S], pc[R], recvOn[c] = c,
                         conn'[c], spc' = c, Current' = c, pc'[S], pc'[R], recvOn'[c] = c)
    <2>1. CASE Recv_Call(c)
      <3>1. /\ conn' = conn /\ pc[R] = "call"
            /\ \/ Current = None /\ pc' = [pc EXCEPT ![R] = "check"]
               \/ /\ Current = c /\ pc' = [pc EXCEPT ![R] = "blocked"]
                  /\ recvOn' = [recvOn EXCEPT ![c] = c]
        BY <1>3, <2>1 DEF Recv_Call
      <3>2. /\ pc'[S] = pc[S]
            /\ \/ Current # c /\ pc'[R] = "check"
               \/ Current = c /\ pc'[R] = "blocked" /\ recvOn'[c] = c
        BY <1>5, <3>1
      <3> HIDE DEF S, R
      <3> QED BY <1>1, <1>4, <3>1, <3>2 DEF ReceiverMoves
    <2>2. CASE Recv_Parse(c)
      <3>1. conn' = conn /\ pc[R] = "parse" /\ pc' = [pc EXCEPT ![R] = "call"]
        BY <2>2 DEF Recv_Parse
      <3>2. pc'[S] = pc[S] /\ pc'[R] = "call"
        BY <1>5, <3>1
      <3> HIDE DEF S, R
      <3> QED BY <1>1, <1>4, <3>1, <3>2 DEF ReceiverMoves
    <2>3. CASE Recv_Data(c) \/ Recv_Eof(c) \/ Recv_Error(c)
      <3>1. pc[R] = "blocked" /\ recvOn' = [recvOn EXCEPT ![c] = None]
        BY <2>3 DEF Recv_Data, Recv_Eof, Recv_Error
      <3>2. recvOn[c] = c
        BY <3>1 DEF ReleaseInv, IInv, Single, OwnConnection
      <3>3. PICK l \in {"parse", "check"} :
                /\ pc' = [pc EXCEPT ![R] = l]
                /\ l = "check" => conn[c] = "err"
                /\ conn' = [conn EXCEPT ![c] =
                               Released(c, c, IF l = "check" THEN "dead" ELSE conn[c])]
        BY <2>3, <3>2 DEF Recv_Data, Recv_Eof, Recv_Error
      <3>4. \A st : Released(c, c, st) = IF Current = c THEN st ELSE "closed"
        <4>1. c \in {fdConn[fd] : fd \in Fds} <=> Current = c
          <5>1. Current = c => client_sock \in Fds /\ fdConn[client_sock] = c
            BY <1>5 DEF Current, ReleaseInv, IInv, Types
          <5>2. ASSUME NEW fd \in Fds, fdConn[fd] = c PROVE Current = c
            <6>1. client_sock = fd
              BY <1>5, <5>2 DEF ReleaseInv, OneDescriptor
            <6>2. fd # -1
              BY FdsAssumption
            <6> QED BY <5>2, <6>1, <6>2 DEF Current
          <5> QED BY <5>1, <5>2
        <4>2. ASSUME NEW e \in Conns \ {c} PROVE recvOn[e] # c
          <5>1. SUFFICES ASSUME recvOn[e] = c PROVE FALSE
            OBVIOUS
          <5>2. pc[<<"recv", e>>] = "blocked"
            BY <1>5, <5>1 DEF ReleaseInv, HeldBlocked
          <5>3. recvOn[e] = e
            BY <5>2 DEF ReleaseInv, IInv, Single, OwnConnection
          <5> QED BY <5>1, <5>3
        <4> QED BY <4>1, <4>2 DEF Released
      <3>5. pc'[S] = pc[S] /\ pc'[R] = l /\ recvOn'[c] # c
        BY <1>5, <3>1, <3>3
      <3>6. conn'[c] = IF Current # c THEN "closed"
                       ELSE IF l = "check" THEN "dead" ELSE conn[c]
        BY <1>5, <3>3, <3>4
      <3>7. \A e \in Conns : e # c => conn'[e] = conn[e]
        BY <1>5, <3>3
      <3> HIDE DEF S, R
      <3> QED BY <1>1, <1>4, <3>1, <3>3, <3>5, <3>6, <3>7 DEF ReceiverMoves
    <2> QED BY <2>1, <2>2, <2>3
  <1>7. Served(c)
    BY DEF ReleaseInv, AllServed
  <1>8. ServedNext(c)
    BY <1>6, <1>7, MovedNext DEF Moved
  <1> QED BY <1>2, <1>6, <1>8, OneMoves

LEMMA ClosingNexts ==
    ASSUME ReleaseInv, alive, ~overlapped, NEW c \in Conns, NEW h \in Pair(c),
           Handler_Check(h) \/ Handler_Close(h) \/ Handler_Clear(h)
    PROVE  \A e \in Conns : ServedNext(e)
  <1> DEFINE S == <<"send", c>>
             R == <<"recv", c>>
  <1>1. UNCHANGED <<spc, recvOn>> /\ Running(h)
    BY DEF Handler_Check, Handler_Close, Handler_Clear, Running
  <1>2. Busy(c)
    BY <1>1 DEF Busy, Pair
  <1>3. Current \in {None, c}
    BY <1>2, CurrentOwn
  <1>4. spc # c
    BY <1>1 DEF ReleaseInv, IInv, Fresh, Running, Pair
  <1>5. S \in Handlers /\ R \in Handlers /\ S # R /\ pc \in [Handlers -> Locations]
        /\ conn \in [Conns -> ConnStates] /\ c # None /\ h \in {S, R}
        /\ client_sock \in Fds \cup {-1} /\ fdConn \in [Fds -> Conns \cup {None}]
    BY Handled, NamesAssumption DEF ReleaseInv, IInv, Types, Pair
  <1>6. /\ \A e \in Conns : e # c => conn'[e] = conn[e]
        /\ ClosingMove(Current = c, pc[h], pc'[h], Current' = c, conn[c], conn'[c],
                       recvOn[c] = c)
    <2>1. CASE Handler_Check(h)
      <3>1. /\ pc[h] = "check" /\ conn' = conn /\ Current' = Current
            /\ pc' = [pc EXCEPT ![h] = IF client_sock # -1 THEN "close" ELSE "done"]
        BY <2>1 DEF Handler_Check, Current
      <3>2. Current = c => client_sock # -1
        BY <1>5 DEF Current
      <3>3. pc'[h] = IF client_sock # -1 THEN "close" ELSE "done"
        BY <1>5, <3>1
      <3> QED BY <3>1, <3>2, <3>3 DEF ClosingMove
    <2>2. CASE Handler_Close(h)
      <3>1. pc[h] = "close" /\ pc' = [pc EXCEPT ![h] = "clear"] /\ client_sock' = client_sock
        BY <2>2, Zenon DEF Handler_Close
      <3>2. pc'[h] = "clear"
        BY <1>5, <3>1
      <3>3. CASE Current = None
        <4>1. conn' = conn /\ fdConn' = fdConn
          BY <2>2, <3>3 DEF Handler_Close
        <4>2. Current' = Current
          BY <3>1, <4>1 DEF Current
        <4> QED BY <1>5, <3>1, <3>2, <3>3, <4>1, <4>2 DEF ClosingMove
      <3>4. CASE Current = c
        <4>1. client_sock \in Fds
          BY <1>5, <3>4 DEF Current
        <4>2. /\ fdConn' = [fdConn EXCEPT ![client_sock] = None]
              /\ conn' = IF \E e \in Conns : recvOn[e] = c THEN conn
                         ELSE [conn EXCEPT ![c] = "closed"]
          BY <1>5, <2>2, <3>4 DEF Handler_Close
        <4>3. Current' = None
          BY <1>5, <3>1, <4>1, <4>2 DEF Current
        <4>4. \A e \in Conns : recvOn[e] = c => e = c
          <5>1. SUFFICES ASSUME NEW e \in Conns, recvOn[e] = c PROVE e = c
            OBVIOUS
          <5>2. pc[<<"recv", e>>] = "blocked"
            BY <1>5, <5>1 DEF ReleaseInv, HeldBlocked
          <5>3. recvOn[e] = e
            BY <5>2 DEF ReleaseInv, IInv, Single, OwnConnection
          <5> QED BY <5>1, <5>3
        <4>5. /\ conn'[c] = IF recvOn[c] = c THEN conn[c] ELSE "closed"
              /\ \A e \in Conns : e # c => conn'[e] = conn[e]
          BY <1>5, <4>2, <4>4
        <4> QED BY <1>5, <3>1, <3>2, <3>4, <4>3, <4>5 DEF ClosingMove
      <3> QED BY <1>3, <3>3, <3>4
    <2>3. CASE Handler_Clear(h)
      <3>1. /\ pc[h] = "clear" /\ pc' = [pc EXCEPT ![h] = "done"] /\ conn' = conn
            /\ client_sock' = -1
        BY <2>3 DEF Handler_Clear
      <3>2. pc'[h] = "done" /\ Current' = None
        BY <1>5, <3>1 DEF Current
      <3>3. Current = None
        BY <1>5, <3>1 DEF ReleaseInv, ClearedClosed
      <3> QED BY <1>5, <3>1, <3>2, <3>3 DEF ClosingMove
    <2> QED BY <2>1, <2>2, <2>3
  <1>7. \A g \in Handlers : g # h => pc'[g] = pc[g]
    BY <1>5 DEF Handler_Check, Handler_Close, Handler_Clear
  <1>8. recvOn[c] = c => pc[R] = "blocked"
    BY <1>5 DEF ReleaseInv, HeldBlocked
  <1>9. ClosingMoves(conn[c], spc = c, Current = c, pc[S], pc[R], recvOn[c] = c,
                     conn'[c], spc' = c, Current' = c, pc'[S], pc'[R], recvOn'[c] = c)
    <2>1. CASE h = S
      <3>1. pc'[R] = pc[R]
        BY <1>5, <1>7, <2>1
      <3> HIDE DEF S, R
      <3> QED BY <1>1, <1>4, <1>6, <1>8, <2>1, <3>1 DEF ClosingMoves
    <2>2. CASE h = R
      <3>1. pc'[S] = pc[S]
        BY <1>5, <1>7, <2>2
      <3> HIDE DEF S, R
      <3> QED BY <1>1, <1>4, <1>6, <1>8, <2>2, <3>1 DEF ClosingMoves
    <2> QED BY <1>5, <2>1, <2>2
  <1>10. Served(c)
    BY DEF ReleaseInv, AllServed
  <1>11. ServedNext(c)
    BY <1>9, <1>10, MovedNext DEF Moved
  <1> QED BY <1>2, <1>6, <1>11, OneMoves

LEMMA AllNext ==
    ASSUME ReleaseInv, Next, alive', ~overlapped'
    PROVE  \A e \in Conns : ServedNext(e)
  <1>1. alive
    BY DEF Next, server_thread, client, send_thread, recv_thread, Connect, ClientSends,
           ClientCloses, ClientResets, serverVars, Accept, AcceptFails, Spawn, Send_Convert,
           Send_Write, Recv_Call, Recv_Data, Recv_Eof, Recv_Error, Recv_Parse, Handler_Check,
           Handler_Close, Handler_Clear
  <1>2. ~overlapped
    BY AloneStep DEF ReleaseInv, IInv, Single
  <1>3. CASE \E c \in Conns : client(c) \/ Accept(c)
    BY <1>1, <1>2, <1>3, ClientNext, AcceptNext
  <1>4. CASE AcceptFails \/ Spawn
    BY <1>1, <1>2, <1>4, AcceptFailsNext, SpawnNext
  <1>5. ASSUME NEW c \in Conns, send_thread(c) \/ recv_thread(c)
        PROVE  \A e \in Conns : ServedNext(e)
    <2>1. CASE Send_Convert(c) \/ Send_Write(c)
      BY <1>1, <1>2, <2>1, SenderNexts
    <2>2. CASE Recv_Call(c) \/ Recv_Data(c) \/ Recv_Eof(c) \/ Recv_Error(c) \/ Recv_Parse(c)
      BY <1>1, <1>2, <2>2, ReceiverNexts
    <2>3. CASE \E h \in Pair(c) : Handler_Check(h) \/ Handler_Close(h) \/ Handler_Clear(h)
      BY <1>1, <1>2, <2>3, ClosingNexts
    <2> QED BY <1>5, <2>1, <2>2, <2>3 DEF send_thread, recv_thread, Pair
  <1> QED BY <1>3, <1>4, <1>5 DEF Next, server_thread

\* A recv that does not block holds nothing.
LEMMA HeldStep ==
    ASSUME Types, Fresh, HeldBlocked, [Next]_vars
    PROVE  HeldBlocked'
  <1> SUFFICES ASSUME NEW c \in Conns, recvOn'[c] # None
               PROVE  pc'[<<"recv", c>>] = "blocked"
    BY DEF HeldBlocked
  <1> DEFINE R == <<"recv", c>>
  <1>1. /\ R \in Handlers /\ pc \in [Handlers -> Locations]
        /\ recvOn \in [Conns -> Conns \cup {None}]
    BY Handled DEF Types
  <1>2. recvOn[c] # None => pc[R] = "blocked"
    BY DEF HeldBlocked
  <1>3. CASE UNCHANGED <<pc, recvOn>>
    BY <1>2, <1>3
  <1>4. ASSUME recvOn' = recvOn, NEW h \in Handlers, pc[h] # "blocked", NEW l,
               pc' = [pc EXCEPT ![h] = l]
        PROVE  pc'[R] = "blocked"
    BY <1>1, <1>2, <1>4
  <1>5. ASSUME NEW e \in Conns, client(e) \/ Accept(e) PROVE UNCHANGED <<pc, recvOn>>
    BY <1>5 DEF client, Connect, ClientSends, ClientCloses, ClientResets, serverVars, Accept
  <1>6. AcceptFails => UNCHANGED <<pc, recvOn>>
    BY DEF AcceptFails
  <1>7. CASE Spawn
    <2>1. /\ spc \in Conns /\ recvOn' = recvOn
          /\ pc' = [pc EXCEPT ![<<"send", spc>>] = "convert", ![<<"recv", spc>>] = "call"]
      BY <1>7 DEF Spawn, Types
    <2>2. spc # c
      BY <1>2, <2>1 DEF Fresh
    <2> QED BY <1>1, <1>2, <2>1, <2>2, Handled
  <1>8. ASSUME NEW h \in Handlers, Handler_Check(h) \/ Handler_Close(h) \/ Handler_Clear(h)
        PROVE  pc'[R] = "blocked"
    <2>1. /\ recvOn' = recvOn /\ pc[h] # "blocked"
          /\ \E l \in Locations : pc' = [pc EXCEPT ![h] = l]
      BY <1>8 DEF Handler_Check, Handler_Close, Handler_Clear, Locations
    <2> QED BY <1>4, <2>1
  <1>9. ASSUME NEW e \in Conns, Send_Convert(e) \/ Send_Write(e)
        PROVE  pc'[R] = "blocked"
    <2>1. /\ recvOn' = recvOn /\ pc[<<"send", e>>] # "blocked"
          /\ pc' = pc \/ \E l \in Locations : pc' = [pc EXCEPT ![<<"send", e>>] = l]
      BY <1>9 DEF Send_Convert, Send_Write, Locations
    <2> QED BY <1>3, <1>4, <2>1, Handled
  <1>10. ASSUME NEW e \in Conns, Recv_Parse(e) PROVE pc'[R] = "blocked"
    <2>1. /\ recvOn' = recvOn /\ pc[<<"recv", e>>] # "blocked"
          /\ pc' = [pc EXCEPT ![<<"recv", e>>] = "call"]
      BY <1>10 DEF Recv_Parse
    <2> QED BY <1>4, <2>1, Handled
  <1>11. ASSUME NEW e \in Conns, Recv_Call(e) PROVE pc'[R] = "blocked"
    <2>1. /\ pc[<<"recv", e>>] = "call"
          /\ \/ recvOn' = recvOn /\ pc' = [pc EXCEPT ![<<"recv", e>>] = "check"]
             \/ /\ recvOn' = [recvOn EXCEPT ![e] = Current]
                /\ pc' = [pc EXCEPT ![<<"recv", e>>] = "blocked"]
      BY <1>11 DEF Recv_Call
    <2>2. CASE e = c
      BY <1>1, <1>2, <2>1, <2>2
    <2>3. CASE e # c
      <3>1. pc'[R] = pc[R] /\ recvOn'[c] = recvOn[c]
        BY <1>1, <2>1, <2>3
      <3> QED BY <1>2, <3>1
    <2> QED BY <2>2, <2>3
  <1>12. ASSUME NEW e \in Conns, Recv_Data(e) \/ Recv_Eof(e) \/ Recv_Error(e)
         PROVE  pc'[R] = "blocked"
    <2>1. /\ recvOn' = [recvOn EXCEPT ![e] = None]
          /\ \E l \in Locations : pc' = [pc EXCEPT ![<<"recv", e>>] = l]
      BY <1>12 DEF Recv_Data, Recv_Eof, Recv_Error, Locations
    <2>2. e # c
      BY <1>1, <2>1
    <2>3. pc'[R] = pc[R] /\ recvOn'[c] = recvOn[c]
      BY <1>1, <2>1, <2>2
    <2> QED BY <1>2, <2>3
  <1>13. UNCHANGED vars => UNCHANGED <<pc, recvOn>>
    BY DEF vars
  <1> QED BY <1>3, <1>5, <1>6, <1>7, <1>8, <1>9, <1>10, <1>11, <1>12, <1>13, Handled
          DEF Next, server_thread, send_thread, recv_thread

\* The descriptor in client_sock is the only one, and is closed when cleared.
LEMMA DescriptorStep ==
    ASSUME IInv, OneDescriptor, ClearedClosed, [Next]_vars, ~overlapped'
    PROVE  /\ \A fd \in Fds : fdConn'[fd] # None => client_sock' = fd
           /\ \A h \in Handlers : pc'[h] = "clear" => Current' = None
  <1> DEFINE Goal == /\ \A fd \in Fds : fdConn'[fd] # None => client_sock' = fd
                     /\ \A h \in Handlers : pc'[h] = "clear" => Current' = None
  <1>1. ~overlapped
    BY AloneStep DEF IInv, Single
  <1>2. /\ \A fd \in Fds : fdConn[fd] # None => client_sock = fd
        /\ \A h \in Handlers : pc[h] = "clear" => Current = None
    BY <1>1 DEF OneDescriptor, ClearedClosed
  <1>3. /\ pc \in [Handlers -> Locations] /\ client_sock \in Fds \cup {-1}
        /\ fdConn \in [Fds -> Conns \cup {None}]
    BY DEF IInv, Types
  <1>4. \A c, e \in Conns : Busy(c) /\ Busy(e) => c = e
    BY <1>1 DEF IInv, Single, Alone
  <1>5. ASSUME UNCHANGED <<client_sock, fdConn>>,
               \A h \in Handlers : pc'[h] = "clear" => pc[h] = "clear"
        PROVE  Goal
    BY <1>2, <1>5 DEF Current
  <1>6. ASSUME NEW h \in Handlers, Running(h) PROVE Busy(h[2]) /\ h[2] \in Conns
    BY <1>6 DEF Handlers, Busy
  <1>7. ASSUME Current # None PROVE Current \in Conns /\ Busy(Current)
    BY <1>7, CurrentType DEF IInv, ServedWhileCurrent, Busy
  <1>8. ASSUME NEW c \in Conns, client(c) PROVE Goal
    <2>1. UNCHANGED <<client_sock, fdConn, pc>>
      BY <1>8 DEF client, Connect, ClientSends, ClientCloses, ClientResets, serverVars
    <2> QED BY <1>5, <2>1
  <1>9. ASSUME NEW c \in Conns, conn[c] = "wait"
        PROVE  Current = None /\ \A h \in Handlers : ~Running(h)
    <2>1. Busy(c) /\ spc # c /\ ~Running(<<"send", c>>) /\ ~Running(<<"recv", c>>)
      BY <1>9 DEF Busy, IInv, Fresh, Running
    <2>2. Current = None
      BY <1>4, <1>7, <2>1 DEF IInv, ServedWhileCurrent
    <2>3. ASSUME NEW h \in Handlers, Running(h) PROVE FALSE
      <3>1. h[2] = c
        BY <1>4, <1>6, <2>1, <2>3
      <3>2. h \in {<<"send", c>>, <<"recv", c>>}
        BY <3>1 DEF Handlers
      <3> QED BY <2>1, <2>3, <3>2
    <2> QED BY <2>2, <2>3
  <1>10. ASSUME NEW c \in Conns, Accept(c) PROVE Goal
    <2>1. Current = None /\ \A h \in Handlers : pc[h] # "clear"
      BY <1>9, <1>10 DEF Accept, Running
    <2>2. \A fd \in Fds : fdConn[fd] = None
      <3>1. SUFFICES ASSUME NEW fd \in Fds, fdConn[fd] # None PROVE FALSE
        OBVIOUS
      <3>2. client_sock = fd /\ fd # -1
        BY <1>2, <3>1, FdsAssumption
      <3> QED BY <2>1, <3>1, <3>2 DEF Current
    <2>3. /\ client_sock' \in Fds /\ fdConn' = [fdConn EXCEPT ![client_sock'] = c]
          /\ pc' = pc
      BY <1>10 DEF Accept
    <2>4. \A fd \in Fds : fdConn'[fd] # None => client_sock' = fd
      BY <1>3, <2>2, <2>3
    <2> QED BY <2>1, <2>3, <2>4
  <1>11. CASE AcceptFails
    <2>1. PICK c \in Conns : conn[c] = "wait"
      BY <1>11 DEF AcceptFails
    <2>2. Current = None /\ \A h \in Handlers : pc[h] # "clear"
      BY <1>9, <2>1 DEF Running
    <2>3. PICK fd \in Fds : TRUE
      BY FdsAssumption
    <2>4. fdConn[fd] # None
      BY <1>11 DEF AcceptFails
    <2>5. client_sock = fd /\ fd # -1
      BY <1>2, <2>4, FdsAssumption
    <2> QED BY <2>2, <2>4, <2>5 DEF Current
  <1>12. CASE Spawn
    <2>1. /\ UNCHANGED <<client_sock, fdConn>> /\ spc \in Conns
          /\ pc' = [pc EXCEPT ![<<"send", spc>>] = "convert", ![<<"recv", spc>>] = "call"]
      BY <1>12 DEF Spawn, IInv, Types
    <2>2. \A h \in Handlers : pc'[h] = "clear" => pc[h] = "clear"
      BY <1>3, <2>1
    <2> QED BY <1>5, <2>1, <2>2
  <1>13. ASSUME NEW c \in Conns,
                \/ Send_Convert(c) \/ Send_Write(c)
                \/ Recv_Call(c) \/ Recv_Data(c) \/ Recv_Eof(c) \/ Recv_Error(c) \/ Recv_Parse(c)
         PROVE  Goal
    <2>1. UNCHANGED <<client_sock, fdConn>>
      BY <1>13 DEF Send_Convert, Send_Write, Recv_Call, Recv_Data, Recv_Eof, Recv_Error, Recv_Parse
    <2>2. \/ pc' = pc
          \/ \E h \in Handlers, l \in Locations \ {"clear"} : pc' = [pc EXCEPT ![h] = l]
      BY <1>13, Handled DEF Send_Convert, Send_Write, Recv_Call, Recv_Data, Recv_Eof, Recv_Error,
                            Recv_Parse, Locations
    <2>3. \A h \in Handlers : pc'[h] = "clear" => pc[h] = "clear"
      BY <1>3, <2>2
    <2> QED BY <1>5, <2>1, <2>3
  <1>14. ASSUME NEW h \in Handlers, Handler_Check(h) \/ Handler_Close(h) \/ Handler_Clear(h)
         PROVE  Goal
    <2>1. CASE Handler_Check(h)
      <3>1. /\ UNCHANGED <<client_sock, fdConn>>
            /\ \E l \in {"close", "done"} : pc' = [pc EXCEPT ![h] = l]
        BY <2>1 DEF Handler_Check
      <3>2. \A g \in Handlers : pc'[g] = "clear" => pc[g] = "clear"
        BY <1>3, <3>1
      <3> QED BY <1>5, <3>1, <3>2
    <2>2. CASE Handler_Close(h)
      <3>1. /\ client_sock' = client_sock
            /\ fdConn' = IF Current = None THEN fdConn ELSE [fdConn EXCEPT ![client_sock] = None]
        BY <2>2, Zenon DEF Handler_Close
      <3>2. Current' = None
        <4>1. CASE Current = None
          BY <3>1, <4>1 DEF Current
        <4>2. CASE Current # None
          BY <1>3, <3>1, <4>2 DEF Current
        <4> QED BY <4>1, <4>2
      <3>3. \A fd \in Fds : fdConn'[fd] # None => client_sock' = fd
        <4>1. CASE Current = None
          BY <1>2, <3>1, <4>1
        <4>2. CASE Current # None
          BY <1>2, <1>3, <3>1, <4>2
        <4> QED BY <4>1, <4>2
      <3> QED BY <3>2, <3>3
    <2>3. CASE Handler_Clear(h)
      <3>1. client_sock' = -1 /\ fdConn' = fdConn /\ pc[h] = "clear"
        BY <2>3 DEF Handler_Clear
      <3>2. Current = None
        BY <1>2, <3>1
      <3>3. \A fd \in Fds : fdConn[fd] = None
        <4>1. SUFFICES ASSUME NEW fd \in Fds, fdConn[fd] # None PROVE FALSE
          OBVIOUS
        <4>2. client_sock = fd /\ fd # -1
          BY <1>2, <4>1, FdsAssumption
        <4> QED BY <3>2, <4>1, <4>2 DEF Current
      <3> QED BY <3>1, <3>3 DEF Current
    <2> QED BY <1>14, <2>1, <2>2, <2>3
  <1>15. CASE UNCHANGED vars
    BY <1>2, <1>15 DEF vars, Current
  <1> QED BY <1>8, <1>10, <1>11, <1>12, <1>13, <1>14, <1>15, Handled
          DEF Next, server_thread, send_thread, recv_thread

LEMMA ReleaseInvStep == ReleaseInv /\ [Next]_vars => ReleaseInv'
  <1> SUFFICES ASSUME ReleaseInv, [Next]_vars PROVE ReleaseInv'
    OBVIOUS
  <1>1. IInv'
    BY IInvStep DEF ReleaseInv
  <1>2. HeldBlocked'
    BY HeldStep DEF ReleaseInv, IInv
  <1>3. OneDescriptor' /\ ClearedClosed'
    BY DescriptorStep DEF ReleaseInv, OneDescriptor, ClearedClosed
  <1>4. AllServed'
    <2>1. CASE Next
      BY <2>1, AllNext DEF AllServed, ServedNext
    <2>2. CASE UNCHANGED vars
      BY <2>2 DEF vars, ReleaseInv, AllServed, Served, Current
    <2> QED BY <2>1, <2>2
  <1> QED BY <1>1, <1>2, <1>3, <1>4 DEF ReleaseInv

\* server.c:71-125: a client that was reset while it was the only one is never
\* left to nobody. Some thread of it is always about to get on with its
\* release, and at most seven such steps release it: what ResetReleased says of
\* fair schedules, in numbers.
THEOREM ReleaseBounded == Spec => []ReleaserThere /\ ReleaseSteps
  <1>1. Init => ReleaseInv
    <2> SUFFICES ASSUME Init PROVE ReleaseInv
      OBVIOUS
    <2>1. /\ \A c \in Conns : conn[c] = "idle" /\ recvOn[c] = None
          /\ \A fd \in Fds : fdConn[fd] = None
          /\ \A h \in Handlers : pc[h] = "none"
      BY DEF Init
    <2>2. IInv
      BY IInvInit
    <2> QED BY <2>1, <2>2 DEF ReleaseInv, OneDescriptor, ClearedClosed, HeldBlocked, AllServed,
                              Served, ServedAt
  <1>2. ReleaseInv => ReleaserThere
    <2> SUFFICES ASSUME ReleaseInv, alive, ~overlapped, NEW c \in Conns,
                        conn[c] \in {"err", "dead"}
                 PROVE  /\ ReleaseLeft(c) \in 1..7
                        /\ \E h \in Pair(c) :
                              /\ Releasing(h, c)
                              /\ \/ spc = c
                                 \/ pc[h] \in {"convert", "converting", "write", "check", "close"}
                                 \/ pc[h] = "blocked" /\ recvOn[c] = c /\ conn[c] = "dead"
      BY DEF ReleaserThere
    <2> DEFINE S == <<"send", c>>
               R == <<"recv", c>>
               p == pc[S]
               q == pc[R]
    <2>1. ServedAt(conn[c], spc = c, Current = c, p, q, recvOn[c] = c)
      BY DEF ReleaseInv, AllServed, Served
    <2>2. ReleaseLeft(c) \in 1..7
      <3>1. ReleaseLeft(c) = ReleaseLeftAt(conn[c], spc = c, Current = c, p, q)
        BY DEF ReleaseLeft
      <3> HIDE DEF p, q
      <3> QED BY <2>1, <3>1 DEF ServedAt, ReleaseLeftAt
    <2>3. /\ Releasing(S, c) <=> SenderNext(conn[c], Current = c, p, q)
          /\ Releasing(R, c) <=> ReceiverNext(conn[c], Current = c, p, q)
      BY DEF Releasing
    <2>4. \/ /\ SenderNext(conn[c], Current = c, p, q)
             /\ spc = c \/ p \in {"convert", "converting", "write", "check", "close"}
          \/ /\ ReceiverNext(conn[c], Current = c, p, q)
             /\ \/ q \in {"check", "close"}
                \/ q = "blocked" /\ recvOn[c] = c /\ conn[c] = "dead"
      <3> HIDE DEF p, q
      <3> QED BY <2>1 DEF ServedAt, SenderNext, ReceiverNext
    <2> QED BY <2>2, <2>3, <2>4 DEF Pair
  <1>3. ReleaseInv /\ [Next]_vars
            => [alive' /\ ~overlapped' => \A c \in Conns : ReleaseStep(c)]_vars
    <2> SUFFICES ASSUME ReleaseInv, Next, alive', ~overlapped', NEW c \in Conns,
                        conn[c] \in {"err", "dead"}
                 PROVE  /\ ReleaseLeft(c)' <= ReleaseLeft(c)
                        /\ conn'[c] \in {"err", "dead", "closed"}
                        /\ \A h \in Pair(c) : Releasing(h, c) /\ pc'[h] # pc[h]
                               => ReleaseLeft(c)' < ReleaseLeft(c)
      BY DEF ReleaseStep
    <2> DEFINE S == <<"send", c>>
               R == <<"recv", c>>
               left == ReleaseLeftAt(conn[c], spc = c, Current = c, pc[S], pc[R])
               left2 == ReleaseLeftAt(conn'[c], spc' = c, Current' = c, pc'[S], pc'[R])
    <2>1. ServedNext(c)
      BY AllNext
    <2>2. /\ left2 <= left /\ conn'[c] \in {"err", "dead", "closed"}
          /\ SenderNext(conn[c], Current = c, pc[S], pc[R]) /\ pc'[S] # pc[S] => left2 < left
          /\ ReceiverNext(conn[c], Current = c, pc[S], pc[R]) /\ pc'[R] # pc[R] => left2 < left
      BY <2>1, Zenon DEF ServedNext, NearerAt
    <2>3. ReleaseLeft(c) = left /\ ReleaseLeft(c)' = left2
      BY Zenon DEF ReleaseLeft
    <2>4. /\ Releasing(S, c) => SenderNext(conn[c], Current = c, pc[S], pc[R])
          /\ Releasing(R, c) => ReceiverNext(conn[c], Current = c, pc[S], pc[R])
      BY DEF Releasing
    <2>5. ASSUME NEW h \in Pair(c), Releasing(h, c), pc'[h] # pc[h] PROVE left2 < left
      BY <2>2, <2>4, <2>5, Zenon DEF Pair
    <2> HIDE DEF left, left2
    <2> QED BY <2>2, <2>3, <2>5
  <1> QED BY <1>1, <1>2, <1>3, ReleaseInvStep, PTL DEF Spec, ReleaseSteps

============================================================================
