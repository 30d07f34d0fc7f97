---------------------------- MODULE FrameStream ----------------------------
(***************************************************************************)
(* The frame database of one input of mjpg-streamer, which sends the       *)
(* camera's picture to the surface: an input plugin publishes frames in    *)
(* one global buffer under the mutex db and broadcasts db_update; workers  *)
(* of output plugins and HTTP clients wait for it, copy the frame under    *)
(* the mutex and send or save their copy without it.  A frame is known by  *)
(* its number, modulo NFrames; its size, time and data carry that number.  *)
(***************************************************************************)
EXTENDS Integers

CONSTANTS
    Workers,    \* threads of output plugins
    Clients,    \* HTTP clients there may be at a time
    Recorder,   \* the worker whose plugin HTTP commands go to
    Cam,        \* the thread of the input plugin
    None,       \* nobody; no frame
    NFrames,    \* frames are numbered modulo NFrames
    Inputs,     \* input plugins considered
    Outputs     \* output plugins considered

Users == Workers \cup Clients

ASSUME UsersAssumption ==
    /\ Recorder \in Workers /\ Workers \cap Clients = {}
    /\ Cam \notin Users /\ None \notin Users /\ Cam # None
ASSUME PluginsAssumption ==
    /\ Inputs \subseteq {"uvc", "file", "testpicture", "http"}
    /\ Outputs \subseteq {"file", "udp", "rtsp", "zmq", "viewer", "autofocus"}
ASSUME FramesAssumption == NFrames \in Nat /\ NFrames >= 2 /\ None \notin 0..NFrames-1

VARIABLES
    input,      \* the input plugin
    phase,      \* "run", "stop": pglobal->stop, or "dead": it has crashed
    cam,        \* where the input thread is
    next,       \* the frame it has grabbed last
    buf,        \* size, stamp and data of pglobal->in[]
    db,         \* holder of the mutex
    pc,         \* [Users -> where the thread is]
    kind,       \* [Users -> what it runs]
    mine,       \* [Users -> size and time it has read]
    frame,      \* [Users -> data in its buffer]
    room,       \* the recorder's buffer: "whole"; "short", smaller than
                \* max_frame_size says (or NULL); or "freed"
    fresh,      \* [Users -> was a frame published since it began to wait]
    spurious,   \* [Users -> was it woken by no broadcast]
    disturbed   \* [Users -> was its copy overwritten, moved or freed, made
                \*          into a buffer that was short or freed, or made
                \*          while or after the input's buffer was freed]

input_vars == <<input, cam, next, buf>>
copies == <<mine, frame, room>>
history == <<fresh, spurious, disturbed>>
vars == <<input_vars, phase, db, pc, kind, copies, history>>

Frames == 0 .. NFrames - 1

----------------------------------------------------------------------------
(* The plugins: does the loop wait for a frame, can its buffer grow (and    *)
(* the allocation fail), does a failure to send end it, does it end anyway  *)

Loop(waits, grows, ends, once) ==
    [waits |-> waits, grows |-> grows, ends |-> ends, once |-> once]

send_stream == Loop(TRUE, TRUE, TRUE, FALSE)
send_stream_wxp == Loop(TRUE, TRUE, TRUE, FALSE)
send_snapshot == Loop(TRUE, TRUE, TRUE, TRUE)
output_cmd == Loop(FALSE, TRUE, TRUE, TRUE)         \* OUT_FILE_CMD_TAKE
output_file == Loop(TRUE, TRUE, TRUE, FALSE)
output_udp == Loop(TRUE, TRUE, TRUE, FALSE)
output_rtsp == Loop(TRUE, TRUE, TRUE, FALSE)
output_zmqserver == Loop(TRUE, TRUE, TRUE, FALSE)
output_viewer == Loop(TRUE, FALSE, FALSE, FALSE)
output_autofocus == Loop(TRUE, FALSE, FALSE, FALSE)

Profile == [stream |-> send_stream, wxp |-> send_stream_wxp,
            snapshot |-> send_snapshot, take |-> output_cmd,
            file |-> output_file, udp |-> output_udp, rtsp |-> output_rtsp,
            zmq |-> output_zmqserver, viewer |-> output_viewer,
            autofocus |-> output_autofocus]

\* What client_thread does with a request for a picture; a command goes to the
\* recorder's plugin, which knows it if it is output_file.
Requests == {"stream", "snapshot"} \cup (IF kind[Recorder] = "file" THEN {"take"} ELSE {})

\* The command copies into the buffer of its plugin's worker.
Buffer(c) == IF kind[c] = "take" THEN Recorder ELSE c

----------------------------------------------------------------------------
Init ==
    /\ input \in Inputs
    /\ phase = "run" /\ cam = "run" /\ next = 0
    /\ buf = [size |-> None, stamp |-> None, data |-> None]
    /\ db = None
    /\ pc = [c \in Users |-> IF c \in Workers THEN "idle" ELSE "done"]
    /\ kind \in [Users -> Outputs \cup {"stream"}]
    /\ \A c \in Clients : kind[c] = "stream"
    /\ \A c, d \in Workers : kind[c] # "stream" /\ (kind[c] = kind[d] => c = d)
    /\ mine = [c \in Users |-> [size |-> None, stamp |-> None]]
    /\ frame = [c \in Users |-> None]
    /\ room = "whole"
    /\ fresh = [c \in Users |-> FALSE]
    /\ spurious = [c \in Users |-> FALSE]
    /\ disturbed = [c \in Users |-> FALSE]

----------------------------------------------------------------------------
(* The input plugin *)

CamAt(from, to) == phase # "dead" /\ cam = from /\ cam' = to

\* A frame is there: uvcGrab, a file, a picture of the sequence or of a stream.
\* Frames that are dropped (every, minimum_size, softfps) change nothing.
Grab ==
    /\ phase = "run"
    /\ CamAt("run", "lock")
    /\ next' = (next + 1) % NFrames
    /\ UNCHANGED <<input, buf, phase, db, pc, kind, copies, history>>

\* The loop ends: stop, cancellation, or an error (select, uvcGrab, a
\* resolution that cannot be set, inotify, a file, the connection).
EndLoop ==
    /\ phase # "run" \/ input # "testpicture"
    /\ CamAt("run", "cleanup")
    /\ UNCHANGED <<input, next, buf, phase, db, pc, kind, copies, history>>

\* Mutant: the mutex is not waited for.
Lock_Busy ==
    /\ CamAt("lock", "data")
    /\ db' = Cam
    /\ UNCHANGED <<input, next, buf, phase, pc, kind, copies, history>>

Lock ==
    /\ db = None
    /\ CamAt("lock", "data")
    /\ db' = Cam
    /\ UNCHANGED <<input, next, buf, phase, pc, kind, copies, history>>

\* memcpy_picture, compress_image_to_jpeg, read or memcpy into the buffer.
WriteData ==
    /\ CamAt("data", "size")
    /\ buf' = [buf EXCEPT !.data = next]
    /\ UNCHANGED <<input, next, phase, db, pc, kind, copies, history>>

\* input_file has freed the buffer and gets no other: it leaves the loop
\* with the mutex.
NoMemory ==
    /\ input = "file"
    /\ CamAt("data", "cleanup")
    /\ buf' = [buf EXCEPT !.data = None]
    /\ UNCHANGED <<input, next, phase, db, pc, kind, copies, history>>

ReadFails ==
    /\ input = "file"
    /\ CamAt("data", "cleanup")
    /\ buf' = [buf EXCEPT !.data = None, !.size = None]
    /\ db' = None
    /\ UNCHANGED <<input, next, phase, pc, kind, copies, history>>

\* Two of the plugins give the time of the frame.
Stamps == input \in {"uvc", "file"}

WriteSize ==
    /\ CamAt("size", "broadcast")
    /\ buf' = [buf EXCEPT !.size = next,
                          !.stamp = IF Stamps THEN next ELSE @]
    /\ fresh' = [c \in Users |-> fresh[c] \/ pc[c] \in {"wait", "woken"}]
    /\ UNCHANGED <<input, next, phase, db, pc, kind, copies, spurious, disturbed>>

\* Mutant: one of the waiting threads is woken.
Broadcast_Signal ==
    /\ CamAt("broadcast", "unlock")
    /\ \/ \E c \in Users : pc[c] = "wait" /\ pc' = [pc EXCEPT ![c] = "woken"]
       \/ (\A c \in Users : pc[c] # "wait") /\ UNCHANGED pc
    /\ UNCHANGED <<input, next, buf, phase, db, kind, copies, history>>

Broadcast ==
    /\ CamAt("broadcast", "unlock")
    /\ pc' = [c \in Users |-> IF pc[c] = "wait" THEN "woken" ELSE pc[c]]
    /\ UNCHANGED <<input, next, buf, phase, db, kind, copies, history>>

Unlock ==
    /\ CamAt("unlock", "run")
    /\ db' = None
    /\ UNCHANGED <<input, next, buf, phase, pc, kind, copies, history>>

Copying(c) == pc[c] \in {"size", "data"}

\* cam_cleanup or worker_cleanup frees the buffer, without the mutex.
FreeBuffer ==
    /\ CamAt("cleanup", IF input = "uvc" THEN "clear" ELSE "over")
    /\ buf' = [buf EXCEPT !.data = None]
    /\ disturbed' = [c \in Users |-> disturbed[c] \/ Copying(c)]
    /\ UNCHANGED <<input, next, phase, db, pc, kind, copies, fresh, spurious>>

\* cam_cleanup clears the size.
ClearSize ==
    /\ CamAt("clear", "over")
    /\ buf' = [buf EXCEPT !.size = None]
    /\ disturbed' = [c \in Users |-> disturbed[c] \/ Copying(c)]
    /\ UNCHANGED <<input, next, phase, db, pc, kind, copies, fresh, spurious>>

Ending == {"cleanup", "clear", "over"}

publishing ==
    \/ WriteData \/ NoMemory \/ ReadFails \/ WriteSize \/ Broadcast \/ Unlock
    \/ FreeBuffer \/ ClearSize

----------------------------------------------------------------------------
(* Output plugins and HTTP clients *)

At(c, from, to) == phase # "dead" /\ pc[c] = from /\ pc' = [pc EXCEPT ![c] = to]

\* The round is over: what was read in it is not used again.
Forget(c) ==
    /\ mine' = [mine EXCEPT ![c] = [size |-> None, stamp |-> None]]
    /\ fresh' = [fresh EXCEPT ![c] = FALSE]
    /\ spurious' = [spurious EXCEPT ![c] = FALSE]

\* The threads that write or send what is in the buffer of b.
Sending(b) == {u \in Users : pc[u] = "send" /\ Buffer(u) = b}

\* Its buffer stays as it is; what is in one is of no interest once nobody is
\* sending from it.
Keep(c) ==
    /\ frame' = [b \in Users |-> IF Sending(b) \subseteq {c} THEN None ELSE frame[b]]
    /\ disturbed' = [disturbed EXCEPT ![c] = FALSE]

Disturb(us) == [u \in Users |-> disturbed[u] \/ u \in us]

\* The buffer of c is freed, whoever else is sending from it; its pointer is
\* left as it is ("freed") or cleared, but not max_frame_size ("short").
Free(c, left) ==
    /\ frame' = [frame EXCEPT ![c] = None]
    /\ disturbed' = [Disturb(Sending(c)) EXCEPT ![c] = FALSE]
    /\ room' = IF c = Recorder THEN left ELSE room

\* What c copies into holds as many bytes as max_frame_size says.
Sound(c) == Buffer(c) = Recorder => room = "whole"

\* server_thread accepts a client, client_thread reads its request.
Connect(c) ==
    /\ phase = "run" /\ c \in Clients
    /\ At(c, "done", "idle")
    /\ \E k \in Requests : kind' = [kind EXCEPT ![c] = k]
    /\ UNCHANGED <<input_vars, phase, db, copies, history>>

\* The loop condition; output_udp and output_rtsp receive a request first.  A
\* loop that ends runs worker_cleanup (a client's buffer is its own).
Begin(c) ==
    /\ IF phase = "run" \/ kind[c] \in {"take", "snapshot"}
       THEN At(c, "idle", "lock") /\ UNCHANGED <<frame, room, disturbed>>
       ELSE At(c, "idle", "done") /\ Free(c, "freed")
    /\ UNCHANGED <<input_vars, phase, db, kind, mine, fresh, spurious>>

\* Mutant: a frame that is there already is taken as it is.
LockAndWait_IfNone(c) ==
    /\ Profile[kind[c]].waits /\ db = None
    /\ phase # "dead" /\ pc[c] = "lock"
    /\ pc' = [pc EXCEPT ![c] = IF buf.size = None THEN "wait" ELSE "size"]
    /\ db' = IF buf.size = None THEN None ELSE c
    /\ disturbed' = [disturbed EXCEPT ![c] = buf.size # None /\ cam \in Ending]
    /\ UNCHANGED <<input_vars, phase, kind, copies, fresh, spurious>>

\* pthread_mutex_lock and pthread_cond_wait, which releases the mutex again.
LockAndWait(c) ==
    /\ Profile[kind[c]].waits /\ db = None
    /\ At(c, "lock", "wait")
    /\ UNCHANGED <<input_vars, phase, db, kind, copies, history>>

\* No predicate is tested again after pthread_cond_wait.
WakeSpuriously(c) ==
    /\ At(c, "wait", "woken")
    /\ spurious' = [spurious EXCEPT ![c] = TRUE]
    /\ UNCHANGED <<input_vars, phase, db, kind, copies, fresh, disturbed>>

\* pthread_cond_wait returns with the mutex; the command takes it and does not
\* wait.
TakeMutex(c) ==
    /\ db = None /\ db' = c
    /\ \/ At(c, "woken", "size")
       \/ ~Profile[kind[c]].waits /\ At(c, "lock", "size")
    /\ disturbed' = [disturbed EXCEPT ![c] = cam \in Ending]
    /\ UNCHANGED <<input_vars, phase, kind, copies, fresh, spurious>>

\* The buffer is made large enough for a frame larger than any before; realloc
\* may move it while another thread is writing from it.
Grow(c) ==
    /\ Profile[kind[c]].grows /\ buf.size # None
    /\ frame' \in {frame, [frame EXCEPT ![Buffer(c)] = None]}
    /\ disturbed' = Disturb(Sending(Buffer(c)))
    /\ room' = IF Buffer(c) = Recorder /\ room = "short" THEN "whole" ELSE room

ReadSize(c) ==
    /\ At(c, "size", "data")
    /\ mine' = [mine EXCEPT ![c] = [size |-> buf.size, stamp |-> buf.stamp]]
    /\ Grow(c) \/ UNCHANGED <<frame, room, disturbed>>
    /\ UNCHANGED <<input_vars, phase, db, kind, fresh, spurious>>

\* A larger frame than before, and no memory for it: max_frame_size has been
\* raised already.
RefuseMemory(c) ==
    /\ Profile[kind[c]].grows /\ buf.size # None
    /\ At(c, "size", "done")
    /\ Forget(c) /\ Keep(c)
    /\ room' = IF Buffer(c) = Recorder /\ room = "whole" THEN "short" ELSE room
    /\ UNCHANGED <<input_vars, phase, kind>>

\* Mutant: the mutex is forgotten.
NoMemoryFor_Keeps(c) == RefuseMemory(c) /\ UNCHANGED db

NoMemoryFor(c) == RefuseMemory(c) /\ db' = None

\* memcpy, and the mutex is released.  Whoever is sending from the buffer is
\* overwritten; what becomes of a copy that does not fit is undefined.
CopyData(c) ==
    /\ At(c, "data", "send")
    /\ frame' = [frame EXCEPT ![Buffer(c)] = IF Sound(c) THEN buf.data ELSE None]
    /\ disturbed' = Disturb(Sending(Buffer(c)) \cup {u \in {c} : ~Sound(u)})
    /\ db' = None
    /\ UNCHANGED <<input_vars, phase, kind, mine, room, fresh, spurious>>

\* Growing a buffer that was freed, or copying into one that is too small, may
\* as well end the process.
Crash(c) ==
    /\ phase # "dead" /\ Copying(c) /\ ~Sound(c)
    /\ phase' = "dead"
    /\ UNCHANGED <<input_vars, db, pc, kind, copies, history>>

\* The copy is written, sent or shown.
Sent(c) ==
    /\ At(c, "send", IF Profile[kind[c]].once THEN "done" ELSE "idle")
    /\ Forget(c) /\ Keep(c)
    /\ UNCHANGED <<input_vars, phase, db, kind, room>>

\* A worker that returns early runs no worker_cleanup; output_file frees its
\* buffer if strftime fails.
SendFails(c) ==
    /\ Profile[kind[c]].ends
    /\ At(c, "send", "done")
    /\ Forget(c)
    /\ \/ Keep(c) /\ UNCHANGED room
       \/ kind[c] = "file" /\ Free(c, "short")
    /\ UNCHANGED <<input_vars, phase, db, kind>>

----------------------------------------------------------------------------
(* signal_handler *)

\* A second later threads are cancelled, two seconds later the process exits,
\* whatever its threads do.
Stop ==
    /\ phase = "run" /\ phase' = "stop"
    /\ UNCHANGED <<input_vars, db, pc, kind, copies, history>>

\* output_stop: a cancelled worker runs worker_cleanup; one cancelled in
\* pthread_cond_wait takes the mutex with it.
Cancel(c) ==
    /\ phase = "stop" /\ c \in Workers
    /\ \/ pc[c] = "wait" /\ db = None /\ db' = c
       \/ pc[c] \in {"idle", "send"} /\ UNCHANGED db
    /\ pc' = [pc EXCEPT ![c] = "done"]
    /\ Forget(c) /\ Free(c, "freed")
    /\ UNCHANGED <<input_vars, phase, kind>>

copying(c) == ReadSize(c) \/ NoMemoryFor(c) \/ CopyData(c)

Next ==
    \/ Grab \/ EndLoop \/ Lock \/ publishing \/ Stop
    \/ \E c \in Users :
        \/ Connect(c) \/ Begin(c) \/ LockAndWait(c) \/ WakeSpuriously(c)
        \/ TakeMutex(c) \/ copying(c) \/ Crash(c) \/ Sent(c) \/ SendFails(c) \/ Cancel(c)

Spec == Init /\ [][Next]_vars

\* The camera goes on to deliver frames, threads in the middle of a frame go
\* on, and the mutex, which is free while the camera waits for a frame, is
\* given to each thread that keeps asking for it.
FairSpec ==
    /\ Spec
    /\ WF_vars(Grab) /\ WF_vars(publishing) /\ SF_vars(Lock)
    /\ \A c \in Users : WF_vars(copying(c)) /\ SF_vars(TakeMutex(c))

----------------------------------------------------------------------------
(* Properties *)

\* Every variable keeps its type.
TypeOK ==
    /\ phase \in {"run", "stop", "dead"}
    /\ input \in Inputs
    /\ cam \in {"run", "lock", "data", "size", "broadcast", "unlock"} \cup Ending
    /\ next \in Frames
    /\ buf \in [size : Frames \cup {None}, stamp : Frames \cup {None},
                data : Frames \cup {None}]
    /\ db \in Users \cup {Cam, None}
    /\ pc \in [Users -> {"idle", "lock", "wait", "woken", "size", "data", "send", "done"}]
    /\ kind \in [Users -> DOMAIN Profile]
    /\ mine \in [Users -> [size : Frames \cup {None}, stamp : Frames \cup {None}]]
    /\ frame \in [Users -> Frames \cup {None}]
    /\ room \in {"whole", "short", "freed"}
    /\ fresh \in [Users -> BOOLEAN] /\ spurious \in [Users -> BOOLEAN]
    /\ disturbed \in [Users -> BOOLEAN]

\* httpd.c:458, output_file.c:204 and the other loops: what a thread sends or
\* saves is one frame, its size, its time and its data of one picture.  The
\* exceptions are those of the code: the input's buffer was freed while it was
\* copied or before; or the buffer the copy is in is the one output_file's
\* worker shares with the command, and the other of the two overwrote it
\* (output_file.c:279, 602), moved it (:592), freed it (:102, 261), or had left
\* it freed or smaller than max_frame_size says (:229, 591) before the copy.
CopiesWhole ==
    \A c \in Users : pc[c] = "send" /\ ~disturbed[c] =>
        /\ mine[c].size = frame[Buffer(c)]
        /\ Stamps => mine[c].stamp = frame[Buffer(c)]

\* httpd.c:409 (wait for a fresh frame): what a thread sends that waited was
\* published after it began to wait, unless it woke without a broadcast.
FreshFrames ==
    \A c \in Users :
        pc[c] = "send" /\ Profile[kind[c]].waits /\ ~spurious[c] => fresh[c]

\* A thread that waits for a frame gets one, as long as the input goes on.
WaitersServed ==
    \A c \in Users :
        pc[c] = "wait" ~> pc[c] \in {"send", "done"} \/ cam \in Ending \/ phase # "run"

\* The mutex is released on every way out, but for input_file's without memory
\* (input_file.c:341) and for cancellation.
LockComesBack ==
    db # None ~> db = None \/ (input = "file" /\ cam \in Ending) \/ phase # "run"
============================================================================
