------------------------------- MODULE Elog -------------------------------
(***************************************************************************)
(* The logger every thread of the program writes through: elog_output of   *)
(* src/lib/easylogger/src/elog.c and the asynchronous output of            *)
(* elog_async.c, in the configuration of inc/elog_cfg.h, after elog_start. *)
(*                                                                         *)
(* A line is packaged in one static buffer, under a mutex.  Lines of level *)
(* DEBUG and above are copied to a ring buffer that a thread of the logger *)
(* drains in chunks; the others are printed at once, under the mutex.      *)
(*                                                                         *)
(* A byte is <<thread, i>>: byte i of a line of that thread.               *)
(***************************************************************************)
EXTENDS Integers, Sequences

CONSTANTS
    Threads,    \* the threads that log
    None,       \* no thread
    Levels,     \* levels the lines have
    Heads,      \* lengths of what is packaged in front of the message
    Messages,   \* lengths vsnprintf returns for the message
    LineBuf,    \* ELOG_LINE_BUF_SIZE
    EndSigns,   \* length of CSI_END and of the newline sign together
    BufSize,    \* OUTPUT_BUF_SIZE
    PollSize,   \* ELOG_ASYNC_POLL_GET_LOG_BUF_SIZE
    MaxNotice   \* bound: no line is begun while as many posts are pending

ASSUME ThreadsAssumption == None \notin Threads
ASSUME LengthsAssumption ==
    /\ LineBuf \in Nat /\ EndSigns \in Nat \ {0} /\ EndSigns < LineBuf
    /\ Heads \subseteq 0..LineBuf /\ Messages \subseteq Nat /\ Levels \subseteq 0..5
ASSUME SizesAssumption ==
    BufSize \in Nat \ {0} /\ PollSize \in Nat \ {0} /\ MaxNotice \in Nat

VARIABLES
    pc,             \* [Threads -> where the thread is in elog_output]
    job,            \* [Threads -> the line it logs: level, head, message]
    output_lock,    \* holder of the mutex
    line,           \* log_buf of elog.c
    ring,           \* log_buf of elog_async.c
    write_index, read_index, buf_is_full, buf_is_empty,
    notice,         \* output_notice
    apc,            \* where async_output is
    chunk           \* poll_get_buf

callers == <<pc, job, output_lock, line>>
buffer == <<ring, write_index, read_index, buf_is_full, buf_is_empty>>
vars == <<callers, buffer, notice, apc, chunk>>

OUTPUT_LVL == 4     \* ELOG_LVL_DEBUG

Places == 0 .. BufSize - 1
Jobs == [level : Levels, head : Heads, message : Messages]
Bytes == Threads \X (1..LineBuf)

----------------------------------------------------------------------------
(* Lengths *)

\* A message that does not fit is cut, and so is one that leaves no room for
\* the end signs.
LineLength(j) ==
    (IF j.head + j.message + EndSigns <= LineBuf THEN j.head + j.message
     ELSE LineBuf - EndSigns) + EndSigns

Line(t, n) == [i \in 1..n |-> <<t, i>>]
LineOf(t) == Line(t, LineLength(job[t]))

----------------------------------------------------------------------------
(* The ring buffer *)

elog_async_get_buf_used ==
    IF write_index > read_index THEN write_index - read_index
    ELSE IF ~buf_is_full /\ ~buf_is_empty
         THEN BufSize - (read_index - write_index)
    ELSE IF buf_is_full THEN BufSize ELSE 0

async_get_buf_space == BufSize - elog_async_get_buf_used

\* The place i after p.
After(p, i) == IF p + i < BufSize THEN p + i ELSE p + i - BufSize

\* How far place k is behind p.
Behind(k, p) == IF k >= p THEN k - p ELSE k + BufSize - p

\* Mutant: the copy behind the end starts again at the first byte.
async_put_log_Restart(log, size) ==
    /\ ring' = [k \in Places |->
            IF k >= write_index /\ k - write_index < size THEN log[k - write_index + 1]
            ELSE IF k < write_index /\ Behind(k, write_index) < size THEN log[k + 1]
            ELSE ring[k]]
    /\ write_index' = After(write_index, size)
    /\ buf_is_full' = (buf_is_full \/ async_get_buf_space <= Len(log))
    /\ buf_is_empty' = FALSE
    /\ UNCHANGED read_index

\* The first size bytes of log, which have room.
async_put_log(log, size) ==
    /\ ring' = [k \in Places |->
            IF Behind(k, write_index) < size THEN log[Behind(k, write_index) + 1]
            ELSE ring[k]]
    /\ write_index' = After(write_index, size)
    /\ buf_is_full' = (buf_is_full \/ async_get_buf_space <= Len(log))
    /\ buf_is_empty' = FALSE
    /\ UNCHANGED read_index

\* How much of a log of n bytes is put.
PutSize(n) == IF async_get_buf_space <= n THEN async_get_buf_space ELSE n

----------------------------------------------------------------------------
Init ==
    /\ pc = [t \in Threads |-> "idle"]
    /\ job \in {[t \in Threads |-> j] : j \in Jobs}     \* not yet used
    /\ output_lock = None
    /\ line = <<>>
    /\ ring = [k \in Places |-> 0]
    /\ write_index = 0 /\ read_index = 0
    /\ buf_is_full = FALSE /\ buf_is_empty = TRUE
    /\ notice = 0
    /\ apc = "wait"
    /\ chunk = <<>>

Goto(t, from, to) == pc[t] = from /\ pc' = [pc EXCEPT ![t] = to]

\* A thread logs a line.
elog_output(t) ==
    /\ notice < MaxNotice
    /\ Goto(t, "idle", "filter")
    /\ \E j \in Jobs : job' = [job EXCEPT ![t] = j]
    /\ UNCHANGED <<output_lock, line, buffer, notice, apc, chunk>>

\* No level is set for any tag; the table is searched under the mutex, which
\* is free again afterwards.
elog_get_filter_tag_lvl(t) ==
    /\ output_lock = None
    /\ Goto(t, "filter", "lock")
    /\ UNCHANGED <<job, output_lock, line, buffer, notice, apc, chunk>>

\* Mutant: the mutex is not waited for.
elog_output_lock_Busy(t) ==
    /\ Goto(t, "lock", "head")
    /\ output_lock' = t
    /\ UNCHANGED <<job, line, buffer, notice, apc, chunk>>

elog_output_lock(t) ==
    /\ output_lock = None
    /\ Goto(t, "lock", "head")
    /\ output_lock' = t
    /\ UNCHANGED <<job, line, buffer, notice, apc, chunk>>

\* Colour, level, tag, time, thread and place.
package_head(t) ==
    /\ Goto(t, "head", "message")
    /\ line' = SubSeq(LineOf(t), 1, job[t].head)
    /\ UNCHANGED <<job, output_lock, buffer, notice, apc, chunk>>

\* The message, cut if need be, and the end signs.
package_message(t) ==
    /\ Goto(t, "message", "output")
    /\ line' = SubSeq(line, 1, job[t].head)
                 \o SubSeq(LineOf(t), job[t].head + 1, LineLength(job[t]))
    /\ UNCHANGED <<job, output_lock, buffer, notice, apc, chunk>>

\* elog_async_output of a level below OUTPUT_LVL: printed at once.
output_directly(t) ==
    /\ job[t].level < OUTPUT_LVL
    /\ Goto(t, "output", "unlock")
    /\ UNCHANGED <<job, output_lock, line, buffer, notice, apc, chunk>>

\* elog_async_output: into the ring buffer, a notice if anything was put.
elog_async_output(t) ==
    /\ job[t].level >= OUTPUT_LVL
    /\ \/ /\ async_get_buf_space > 0
          /\ Goto(t, "output", "notice")
          /\ async_put_log(line, PutSize(Len(line)))
       \/ /\ async_get_buf_space = 0
          /\ Goto(t, "output", "unlock")
          /\ UNCHANGED buffer
    /\ UNCHANGED <<job, output_lock, line, notice, apc, chunk>>

\* sem_post.
elog_async_output_notice(t) ==
    /\ Goto(t, "notice", "unlock")
    /\ notice' = notice + 1
    /\ UNCHANGED <<job, output_lock, line, buffer, apc, chunk>>

elog_output_unlock(t) ==
    /\ Goto(t, "unlock", "idle")
    /\ output_lock' = None
    /\ UNCHANGED <<job, line, buffer, notice, apc, chunk>>

\* async_output waits for a notice.
sem_wait ==
    /\ apc = "wait" /\ notice > 0
    /\ notice' = notice - 1
    /\ apc' = "poll"
    /\ UNCHANGED <<callers, buffer, chunk>>

\* The oldest bytes, at most PollSize, taken under the mutex.
elog_async_get_log ==
    LET used == elog_async_get_buf_used
        size == IF used <= PollSize THEN used ELSE PollSize
    IN  /\ apc = "poll" /\ output_lock = None
        /\ used > 0
        /\ chunk' = [i \in 1..size |-> ring[After(read_index, i - 1)]]
        /\ read_index' = After(read_index, size)
        /\ buf_is_empty' = (buf_is_empty \/ used <= PollSize)
        /\ buf_is_full' = FALSE
        /\ apc' = "print"
        /\ UNCHANGED <<callers, ring, write_index, notice>>

\* Nothing left: async_output waits again.
poll_nothing ==
    /\ apc = "poll" /\ output_lock = None
    /\ elog_async_get_buf_used = 0
    /\ apc' = "wait"
    /\ UNCHANGED <<callers, buffer, notice, chunk>>

\* Mutant: one chunk for every notice.
elog_port_output_Once ==
    /\ apc = "print"
    /\ apc' = "wait"
    /\ UNCHANGED <<callers, buffer, notice, chunk>>

\* The chunk is printed, without the mutex.
elog_port_output ==
    /\ apc = "print"
    /\ apc' = "poll"
    /\ UNCHANGED <<callers, buffer, notice, chunk>>

async_output == sem_wait \/ elog_async_get_log \/ poll_nothing \/ elog_port_output

logging(t) ==
    \/ elog_get_filter_tag_lvl(t) \/ elog_output_lock(t)
    \/ package_head(t) \/ package_message(t)
    \/ output_directly(t) \/ elog_async_output(t)
    \/ elog_async_output_notice(t) \/ elog_output_unlock(t)

Next == async_output \/ \E t \in Threads : elog_output(t) \/ logging(t)

Spec == Init /\ [][Next]_vars

\* The printing thread is scheduled and gets the mutex in its turn: the others
\* sleep between the lines they log.  A thread in the middle of a line goes on.
FairSpec ==
    /\ Spec
    /\ WF_vars(sem_wait) /\ WF_vars(elog_port_output)
    /\ SF_vars(elog_async_get_log) /\ SF_vars(poll_nothing)
    /\ \A t \in Threads : WF_vars(logging(t))

----------------------------------------------------------------------------
(* Properties *)

\* Every variable keeps its type; the indices stay in the ring buffer.
TypeOK ==
    /\ pc \in [Threads -> {"idle", "filter", "lock", "head", "message",
                            "output", "notice", "unlock"}]
    /\ job \in [Threads -> Jobs]
    /\ output_lock \in Threads \cup {None}
    /\ line \in Seq(Bytes)
    /\ ring \in [Places -> Bytes \cup {0}]
    /\ write_index \in Places /\ read_index \in Places
    /\ buf_is_full \in BOOLEAN /\ buf_is_empty \in BOOLEAN
    /\ notice \in Nat /\ apc \in {"wait", "poll", "print"}
    /\ chunk \in Seq(Bytes \cup {0})

\* elog_output (elog.c:509): the line a thread hands over is its own, whole,
\* with its end signs and within the static buffer, whatever other threads
\* log meanwhile.
LinesIntact ==
    \A t \in Threads :
        pc[t] = "output" => line = LineOf(t) /\ Len(line) <= LineBuf

\* async_output (elog_async.c:282): the output thread never sleeps over bytes
\* in the ring buffer for which no notice is pending or about to be posted.
NoLostWakeup ==
    elog_async_get_buf_used > 0 /\ apc = "wait"
        => notice > 0 \/ \E t \in Threads : pc[t] = "notice"

\* elog_async.c: indices and two flags amount to a bounded queue of bytes.
Queue == INSTANCE LogQueue WITH
    Lines <- {Line(t, LineLength(j)) : t \in Threads, j \in Jobs},
    Size <- BufSize,
    queue <- [i \in 1..elog_async_get_buf_used |-> ring[After(read_index, i - 1)]],
    chunk <- chunk

\* elog_async.c:130 and 222: bytes come out of the ring buffer in the order of
\* the lines, none twice and none lost but the ends of lines that found no
\* room, across the end of the buffer and at full and empty.
ImplementsQueue == Queue!Spec

\* async_output (elog_async.c:282): what is in the ring buffer is printed.
QueuedComesOut == elog_async_get_buf_used > 0 ~> apc = "print"
============================================================================
