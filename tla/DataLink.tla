------------------------------ MODULE DataLink ------------------------------
(***************************************************************************)
(* applications/server.c: the accept loop of server_thread and the         *)
(* send_thread / recv_thread pair it starts for every client.  All of them *)
(* share client_sock, recv_buff and return_data without a lock.            *)
(*                                                                         *)
(* External: TCP and the descriptor table, as Linux implements them for    *)
(* the calls the code makes.  A connection is "idle" (not made), "wait"    *)
(* (in the backlog), "up", "fin" (the client closed it), "finrst" (and     *)
(* answered a later write with a reset), "err" (reset, error not yet       *)
(* reported), "dead" (reported) or "closed" (released by the server).      *)
(***************************************************************************)
EXTENDS Integers, FiniteSets, FiniteSetsExt

CONSTANTS
    Conns,          \* connections clients will make
    Fds,            \* descriptors the process may use
    MaxFrames,      \* frames all clients send together: bound
    Frames          \* subset of {"good", "bad"}: checksum right or wrong

ASSUME FdsAssumption == Fds \subseteq Nat /\ Fds # {} /\ IsFiniteSet(Fds)
ASSUME ConnsAssumption == IsFiniteSet(Conns)
ASSUME FramesAssumption ==
    Frames \subseteq {"good", "bad"} /\ MaxFrames \in Nat

None == "none"

ASSUME NamesAssumption == None \notin Conns /\ "accept" \notin Conns

VARIABLES
    client_sock,    \* -1 or a descriptor
    fdConn,         \* descriptor table: [Fds -> Conns \cup {None}]
    conn,           \* [Conns -> connection state]
    inbox,          \* [Conns -> frames, and the "rest" of one partly read,
                    \*           the kernel holds for recv]
    sentCnt,        \* frames the clients have sent
    spc,            \* server_thread: "accept" or the connection to spawn for
    pc,             \* [Handlers -> where the thread is]
    recvOn,         \* [Conns -> connection a blocked recv holds, or None]
    return_data,    \* status frame: its check byte covers it ("whole") or not
    recv_buff,      \* last bytes received: a frame, "mixed", or "zero"
    unread,         \* history: none of recv_buff's bytes was parsed before
    short,          \* history: [Conns -> a recv returned part of a frame]
    applied,        \* the command data last parsed from recv_buff
    alive,          \* SIGPIPE has not killed the process
    overlapped      \* history: a client came while another was being served

\* The pair of threads started for connection c is named by c.
Handlers == {"send", "recv"} \X Conns

vars == <<client_sock, fdConn, conn, inbox, sentCnt, spc, pc, recvOn,
          return_data, recv_buff, unread, short, applied, alive, overlapped>>
serverVars == <<client_sock, fdConn, spc, pc, recvOn, return_data, recv_buff,
                unread, short, applied, alive>>

----------------------------------------------------------------------------
Running(h) == pc[h] \notin {"none", "done"}

\* The connection client_sock leads to, None for a bad descriptor.
Current == IF client_sock = -1 THEN None ELSE fdConn[client_sock]

\* Nobody is being served or waits to be.
Quiet == /\ spc = "accept"
         /\ \A h \in Handlers : ~Running(h)
         /\ \A c \in Conns : conn[c] # "wait"

Init ==
    /\ client_sock = -1
    /\ fdConn = [fd \in Fds |-> None]
    /\ conn = [c \in Conns |-> "idle"]
    /\ inbox = [c \in Conns |-> {}]
    /\ sentCnt = 0
    /\ spc = "accept"
    /\ pc = [h \in Handlers |-> "none"]
    /\ recvOn = [c \in Conns |-> None]
    /\ return_data = "torn"
    /\ recv_buff = "zero"
    /\ unread = FALSE
    /\ short = [c \in Conns |-> FALSE]
    /\ applied = "zero"
    /\ alive = TRUE
    /\ overlapped = FALSE

----------------------------------------------------------------------------
(* The client side *)

Connect(c) ==
    /\ conn[c] = "idle"
    /\ conn' = [conn EXCEPT ![c] = "wait"]
    /\ overlapped' = (overlapped \/ ~Quiet)
    /\ UNCHANGED <<inbox, sentCnt, serverVars>>

ClientSends(c) ==
    /\ conn[c] \in {"wait", "up"} /\ sentCnt < MaxFrames
    /\ inbox[c] \subseteq {"rest"}
    /\ \E f \in Frames : inbox' = [inbox EXCEPT ![c] = @ \cup {f}]
    /\ sentCnt' = sentCnt + 1
    /\ UNCHANGED <<conn, serverVars, overlapped>>

ClientCloses(c) ==
    /\ conn[c] = "up"
    /\ conn' = [conn EXCEPT ![c] = "fin"]
    /\ UNCHANGED <<inbox, sentCnt, serverVars, overlapped>>

\* A crash or an abortive close; data not yet read is lost.
ClientResets(c) ==
    /\ conn[c] = "up"
    /\ conn' = [conn EXCEPT ![c] = "err"]
    /\ inbox' = [inbox EXCEPT ![c] = {}]
    /\ UNCHANGED <<sentCnt, serverVars, overlapped>>

----------------------------------------------------------------------------
(* server_thread *)

\* accept returns the lowest free descriptor and overwrites client_sock,
\* whatever it held.
Accept(c) ==
    /\ alive /\ spc = "accept" /\ conn[c] = "wait"
    /\ \E fd \in Fds : /\ fdConn[fd] = None
                       /\ fd = Min({g \in Fds : fdConn[g] = None})
                       /\ client_sock' = fd
                       /\ fdConn' = [fdConn EXCEPT ![fd] = c]
    /\ conn' = [conn EXCEPT ![c] = "up"]
    /\ spc' = c
    /\ UNCHANGED <<inbox, sentCnt, pc, recvOn, recv_buff, unread, short, applied, alive, return_data, overlapped>>

\* No descriptor left: accept returns -1 into client_sock and the loop goes on.
AcceptFails ==
    /\ alive /\ spc = "accept"
    /\ \E c \in Conns : conn[c] = "wait"
    /\ \A fd \in Fds : fdConn[fd] # None
    /\ client_sock' = -1
    /\ UNCHANGED <<fdConn, conn, inbox, sentCnt, spc, pc, recvOn, recv_buff,
                   unread, short, applied, alive, return_data, overlapped>>

\* pthread_create of the two handlers.
Spawn ==
    /\ alive /\ spc # "accept"
    /\ pc' = [pc EXCEPT ![<<"send", spc>>] = "convert", ![<<"recv", spc>>] = "call"]
    /\ spc' = "accept"
    /\ UNCHANGED <<client_sock, fdConn, conn, inbox, sentCnt, recvOn, recv_buff,
                   unread, short, applied, alive, return_data, overlapped>>

----------------------------------------------------------------------------
(* send_thread *)

\* Mutant: the sum is taken before the fields are stored.
Send_Convert_SumFirst(c) ==
    LET h == <<"send", c>>
    IN  /\ alive
        /\ \/ pc[h] = "convert" /\ pc' = [pc EXCEPT ![h] = "converting"]
              /\ return_data' = "whole"
           \/ pc[h] = "converting" /\ pc' = [pc EXCEPT ![h] = "write"]
              /\ return_data' = "torn"
        /\ UNCHANGED <<client_sock, fdConn, conn, inbox, sentCnt, spc, recvOn,
                       recv_buff, unread, short, applied, alive, overlapped>>

\* convert_rov_status_data stores the fields one by one (buff[18] changes
\* every time), then the check byte.  A second sender that is storing fields
\* meanwhile may spoil the sum.
Send_Convert(c) ==
    LET h == <<"send", c>>
    IN  /\ alive
        /\ \/ pc[h] = "convert" /\ pc' = [pc EXCEPT ![h] = "converting"]
              /\ return_data' = "torn"
           \/ pc[h] = "converting" /\ pc' = [pc EXCEPT ![h] = "write"]
              /\ \/ return_data' = "whole"
                 \/ /\ \E e \in Conns \ {c} : pc[<<"send", e>>] = "converting"
                    /\ return_data' = "torn"
        /\ UNCHANGED <<client_sock, fdConn, conn, inbox, sentCnt, spc, recvOn,
                       recv_buff, unread, short, applied, alive, overlapped>>

\* Mutant: the result of write is not looked at.
Send_Write_Unchecked(c) ==
    /\ alive /\ pc[<<"send", c>>] = "write"
    /\ pc' = [pc EXCEPT ![<<"send", c>>] = "convert"]
    /\ UNCHANGED <<client_sock, fdConn, conn, inbox, sentCnt, spc, recvOn,
                   recv_buff, unread, short, applied, alive, return_data, overlapped>>

\* write(client_sock, ...): the descriptor is whatever client_sock holds now.
Send_Write(c) ==
    LET d == Current
        go(l) == pc' = [pc EXCEPT ![<<"send", c>>] = l]
    IN  /\ alive /\ pc[<<"send", c>>] = "write"
        /\ \/ d = None /\ go("check") /\ UNCHANGED <<conn, alive>>
           \/ d # None /\ conn[d] = "up" /\ go("convert") /\ UNCHANGED <<conn, alive>>
           \/ /\ d # None /\ conn[d] = "fin" /\ go("convert") /\ UNCHANGED alive
              /\ conn' \in {conn, [conn EXCEPT ![d] = "finrst"]}
           \/ /\ d # None /\ conn[d] = "err" /\ go("check") /\ UNCHANGED alive
              /\ conn' = [conn EXCEPT ![d] = "dead"]
           \/ /\ d # None /\ conn[d] \in {"finrst", "dead"}    \* SIGPIPE
              /\ alive' = FALSE /\ UNCHANGED <<conn, pc>>
        /\ UNCHANGED <<client_sock, fdConn, inbox, sentCnt, spc, recvOn,
                       recv_buff, unread, short, applied, return_data, overlapped>>

----------------------------------------------------------------------------
(* recv_thread *)

\* The call picks the connection; it then blocks on it whatever happens to
\* client_sock or to the descriptor.
Recv_Call(c) ==
    /\ alive /\ pc[<<"recv", c>>] = "call"
    /\ \/ /\ Current = None
          /\ pc' = [pc EXCEPT ![<<"recv", c>>] = "check"]
          /\ UNCHANGED recvOn
       \/ /\ Current # None
          /\ pc' = [pc EXCEPT ![<<"recv", c>>] = "blocked"]
          /\ recvOn' = [recvOn EXCEPT ![c] = Current]
    /\ UNCHANGED <<client_sock, fdConn, conn, inbox, sentCnt, spc, recv_buff,
                   unread, short, applied, alive, return_data, overlapped>>

\* The kernel state after this recv drops its reference to d.
Released(c, d, state) ==
    IF d \in {fdConn[fd] : fd \in Fds} \cup {recvOn[e] : e \in Conns \ {c}}
    THEN state ELSE "closed"

\* As many bytes as recv_buff holds: a frame, or, once the stream is out of
\* step, the rest of one frame and the beginning of the next, whose own rest
\* stays in the kernel.
FullRecv(d) ==
    /\ inbox[d] \cap Frames # {}
    /\ IF "rest" \in inbox[d]
       THEN recv_buff' = "mixed" /\ inbox' = [inbox EXCEPT ![d] = {"rest"}]
       ELSE recv_buff' \in inbox[d] /\ inbox' = [inbox EXCEPT ![d] = {}]
    /\ unread' = TRUE
    /\ UNCHANGED short

\* Fewer bytes: the end of recv_buff still holds what was parsed before.  The
\* bytes not delivered stay in the kernel, a cut frame as its rest.
ShortRecv(d) ==
    /\ recv_buff' = "mixed"
    /\ unread' = FALSE
    /\ short' = [short EXCEPT ![d] = TRUE]
    /\ \/ inbox' = [inbox EXCEPT ![d] = {"rest"}]
       \/ "rest" \in inbox[d] /\ inbox' = [inbox EXCEPT ![d] = @ \ {"rest"}]

\* recv returned data; how much of it is not looked at.
Recv_Data(c) ==
    LET d == recvOn[c]
    IN  /\ alive /\ pc[<<"recv", c>>] = "blocked" /\ inbox[d] # {}
        /\ FullRecv(d) \/ ShortRecv(d)
        /\ conn' = [conn EXCEPT ![d] = Released(c, d, conn[d])]
        /\ recvOn' = [recvOn EXCEPT ![c] = None]
        /\ pc' = [pc EXCEPT ![<<"recv", c>>] = "parse"]
        /\ UNCHANGED <<client_sock, fdConn, sentCnt, spc, applied, alive, return_data, overlapped>>

\* Mutant: the socket is read without waiting.
Recv_Eof_NoWait(c) ==
    LET d == recvOn[c]
    IN  /\ alive /\ pc[<<"recv", c>>] = "blocked" /\ inbox[d] = {}
        /\ conn' = [conn EXCEPT ![d] = Released(c, d, conn[d])]
        /\ recvOn' = [recvOn EXCEPT ![c] = None]
        /\ pc' = [pc EXCEPT ![<<"recv", c>>] = "parse"]
        /\ UNCHANGED <<client_sock, fdConn, inbox, sentCnt, spc, recv_buff,
                       unread, short, applied, alive, return_data, overlapped>>

\* 0 is not less than 0: end of stream is taken for data and the old bytes
\* are parsed again.
Recv_Eof(c) ==
    LET d == recvOn[c]
    IN  /\ alive /\ pc[<<"recv", c>>] = "blocked" /\ inbox[d] = {}
        /\ conn[d] \in {"fin", "finrst", "dead"}
        /\ conn' = [conn EXCEPT ![d] = Released(c, d, conn[d])]
        /\ recvOn' = [recvOn EXCEPT ![c] = None]
        /\ pc' = [pc EXCEPT ![<<"recv", c>>] = "parse"]
        /\ UNCHANGED <<client_sock, fdConn, inbox, sentCnt, spc, recv_buff,
                       unread, short, applied, alive, return_data, overlapped>>

Recv_Error(c) ==
    LET d == recvOn[c]
    IN  /\ alive /\ pc[<<"recv", c>>] = "blocked" /\ conn[d] = "err"
        /\ conn' = [conn EXCEPT ![d] = Released(c, d, "dead")]
        /\ recvOn' = [recvOn EXCEPT ![c] = None]
        /\ pc' = [pc EXCEPT ![<<"recv", c>>] = "check"]
        /\ UNCHANGED <<client_sock, fdConn, inbox, sentCnt, spc, recv_buff,
                       unread, short, applied, alive, return_data, overlapped>>

\* remote_control_data_analysis compares the sum with buff[20], one byte past
\* the buffer: any frame with a header may be taken or refused.
Recv_Parse(c) ==
    /\ alive /\ pc[<<"recv", c>>] = "parse"
    /\ \/ recv_buff # "zero" /\ applied' = recv_buff
       \/ UNCHANGED applied
    /\ unread' = FALSE
    /\ pc' = [pc EXCEPT ![<<"recv", c>>] = "call"]
    /\ UNCHANGED <<client_sock, fdConn, conn, inbox, sentCnt, spc, recvOn,
                   recv_buff, short, alive, return_data, overlapped>>

----------------------------------------------------------------------------
(* The error path, the same in both threads: three separate reads and       *)
(* writes of client_sock.                                                    *)

\* Mutant: the test is inverted.
Handler_Check_Inverted(h) ==
    /\ alive /\ pc[h] = "check"
    /\ pc' = [pc EXCEPT ![h] = IF client_sock = -1 THEN "close" ELSE "done"]
    /\ UNCHANGED <<client_sock, fdConn, conn, inbox, sentCnt, spc, recvOn,
                   recv_buff, unread, short, applied, alive, return_data, overlapped>>

\* A socket that is already -1 was closed by the other thread.
Handler_Check(h) ==
    /\ alive /\ pc[h] = "check"
    /\ pc' = [pc EXCEPT ![h] = IF client_sock # -1 THEN "close" ELSE "done"]
    /\ UNCHANGED <<client_sock, fdConn, conn, inbox, sentCnt, spc, recvOn,
                   recv_buff, unread, short, applied, alive, return_data, overlapped>>

\* Mutant: the thread returns without clearing client_sock.
Handler_Close_Returns(h) ==
    /\ alive /\ pc[h] = "close"
    /\ pc' = [pc EXCEPT ![h] = "done"]
    /\ fdConn' = IF Current = None THEN fdConn
                 ELSE [fdConn EXCEPT ![client_sock] = None]
    /\ UNCHANGED <<client_sock, conn, inbox, sentCnt, spc, recvOn, recv_buff,
                   unread, short, applied, alive, return_data, overlapped>>
\* Mutant: the other thread of the pair is joined before the close.
Handler_Close_Joins(h) ==
    /\ alive /\ pc[h] = "close"
    /\ \A g \in Handlers : g # h /\ g[2] = h[2] => ~Running(g)
    /\ pc' = [pc EXCEPT ![h] = "clear"]
    /\ fdConn' = IF Current = None THEN fdConn
                 ELSE [fdConn EXCEPT ![client_sock] = None]
    /\ conn' = IF Current = None THEN conn
               ELSE [conn EXCEPT ![Current] = "closed"]
    /\ UNCHANGED <<client_sock, inbox, sentCnt, spc, recvOn, recv_buff,
                   unread, short, applied, alive, return_data, overlapped>>

\* close(client_sock): the connection is released unless a recv holds it.
Handler_Close(h) ==
    LET d == Current
    IN  /\ alive /\ pc[h] = "close"
        /\ pc' = [pc EXCEPT ![h] = "clear"]
        /\ IF d = None
           THEN UNCHANGED <<fdConn, conn>>
           ELSE /\ fdConn' = [fdConn EXCEPT ![client_sock] = None]
                /\ conn' = IF \E e \in Conns : recvOn[e] = d THEN conn
                           ELSE [conn EXCEPT ![d] = "closed"]
        /\ UNCHANGED <<client_sock, inbox, sentCnt, spc, recvOn, recv_buff,
                       unread, short, applied, alive, return_data, overlapped>>

Handler_Clear(h) ==
    /\ alive /\ pc[h] = "clear"
    /\ client_sock' = -1
    /\ pc' = [pc EXCEPT ![h] = "done"]
    /\ UNCHANGED <<fdConn, conn, inbox, sentCnt, spc, recvOn, recv_buff,
                   unread, short, applied, alive, return_data, overlapped>>

----------------------------------------------------------------------------
send_thread(c) ==
    \/ Send_Convert(c) \/ Send_Write(c)
    \/ LET h == <<"send", c>>
       IN  Handler_Check(h) \/ Handler_Close(h) \/ Handler_Clear(h)

recv_thread(c) ==
    \/ Recv_Call(c) \/ Recv_Data(c) \/ Recv_Eof(c) \/ Recv_Error(c) \/ Recv_Parse(c)
    \/ LET h == <<"recv", c>>
       IN  Handler_Check(h) \/ Handler_Close(h) \/ Handler_Clear(h)

server_thread == (\E c \in Conns : Accept(c)) \/ AcceptFails \/ Spawn

client(c) == Connect(c) \/ ClientSends(c) \/ ClientCloses(c) \/ ClientResets(c)

Next == \/ server_thread
        \/ \E c \in Conns : client(c) \/ send_thread(c) \/ recv_thread(c)

Spec == Init /\ [][Next]_vars

\* Every thread of the process is scheduled; clients owe nothing.
FairSpec ==
    /\ Spec
    /\ WF_vars(server_thread)
    /\ \A c \in Conns : WF_vars(send_thread(c)) /\ WF_vars(recv_thread(c))

----------------------------------------------------------------------------
(* Properties *)

\* A status frame is handed to write with its check byte right (data.c:148):
\* true for one client at a time, not when an old sender is still running,
\* since every sender fills the same return_data.
FramesIntact ==
    [][\A c \in Conns : pc[<<"send", c>>] = "write" /\ pc'[<<"send", c>>] # "write"
            => return_data = "whole" \/ overlapped]_vars

\* server.c:107-119: one recv, one parse.  With one client at a time, what a
\* live client's thread parses is one frame none of whose bytes was parsed
\* before.  The two exceptions are those of the code, which looks at no result
\* of recv but a negative one: the client has gone (the end of the stream is
\* taken for data, and the old frame is parsed again), or a recv of its stream
\* came up short (the old frame's tail is parsed again, and the stream stays
\* out of step with the frames from then on).
CommandsFresh ==
    \A c \in Conns :
        pc[<<"recv", c>>] = "parse" /\ ~overlapped
            => conn[c] # "up" \/ short[c] \/ (unread /\ recv_buff \in Frames)

\* However clients come and go: as long as client_sock leads to a connection,
\* both threads started for that one are running (or about to be started).  It
\* says nothing of a connection client_sock has been led away from: a failing
\* accept, a handler that clears it late or a client that replaces another
\* leaves the earlier client connected, and its threads end or serve the later
\* one.
ServedWhileCurrent ==
    Current # None =>
        \/ spc = Current
        \/ Running(<<"send", Current>>) /\ Running(<<"recv", Current>>)

\* client_sock names a closed descriptor only while the thread that closed it
\* is about to set it to -1.
StaleOnlyWhileClearing ==
    client_sock # -1 /\ fdConn[client_sock] = None =>
        \E h \in Handlers : pc[h] = "clear"

\* A connection the client reset is eventually released, unless a write to
\* it killed the process first.
ResetReleased ==
    \A c \in Conns : conn[c] \in {"err", "dead"}
                        ~> conn[c] = "closed" \/ ~alive \/ overlapped

\* However clients come and go: if client_sock stays -1, every send_thread
\* ends (the next write fails and there is nothing to close).
SendersDrain ==
    <>[](client_sock = -1 /\ alive) =>
        <>[](\A c \in Conns : ~Running(<<"send", c>>))

\* server.c:85, 111: the threads log "client closed" and go on serving; a
\* client that just closes its connection must not stop the process.
Survives == alive
============================================================================
