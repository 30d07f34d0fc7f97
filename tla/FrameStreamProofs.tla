------------------------- MODULE FrameStreamProofs -------------------------
(***************************************************************************)
(* What the frame database guarantees for any number of output plugins and *)
(* HTTP clients and any numbering of frames.                               *)
(***************************************************************************)
EXTENDS FrameStream, TLAPS

Holding == {"data", "size", "broadcast", "unlock"}

\* The mutex excludes the input thread from those that copy and these from each
\* other.
Exclusive ==
    /\ cam \in Holding => db = Cam
    /\ \A c \in Users : Copying(c) => db = c

\* Size, time and data in the database are of one frame.
Whole == buf.size = buf.data /\ (Stamps => buf.stamp = buf.data)

\* They are but while the input thread is between data and size, and at its end;
\* and those copying see them so.
DatabaseWhole ==
    /\ cam \notin Ending \cup {"size"} => Whole
    /\ cam = "size" => buf.data = next
    /\ \A c \in Users : Copying(c) /\ ~disturbed[c] => Whole

\* What has been read is of the frame in the database.
ReadRight ==
    \A c \in Users : pc[c] = "data" /\ ~disturbed[c] =>
        mine[c].size = buf.size /\ mine[c].stamp = buf.stamp

\* A thread woken by a broadcast has a frame that is newer than its wait.
WokenFresh ==
    \A c \in Users :
        /\ pc[c] = "wait" /\ cam = "broadcast" => fresh[c]
        /\ pc[c] = "woken" /\ ~spurious[c] => fresh[c]
        /\ Copying(c) /\ Profile[kind[c]].waits /\ ~spurious[c] => fresh[c]

IInv ==
    /\ TypeOK /\ Exclusive /\ DatabaseWhole /\ ReadRight /\ CopiesWhole
    /\ WokenFresh /\ FreshFrames

LEMMA KindsOfRequests == Requests \subseteq DOMAIN Profile
BY DEF Requests, Profile

LEMMA KindsOfOutputs == Outputs \subseteq DOMAIN Profile /\ "stream" \in DOMAIN Profile
BY PluginsAssumption DEF Profile

LEMMA InitInv == Init => IInv
<1> SUFFICES ASSUME Init PROVE IInv
  OBVIOUS
<1>1. TypeOK
  <2>1. 0 \in Frames
    BY FramesAssumption DEF Frames
  <2>2. kind \in [Users -> DOMAIN Profile]
    BY KindsOfOutputs DEF Init
  <2> QED
    BY <2>1, <2>2 DEF Init, TypeOK
<1>2. Exclusive /\ DatabaseWhole /\ ReadRight /\ CopiesWhole
  BY DEF Init, Exclusive, DatabaseWhole, ReadRight, CopiesWhole, Whole, Copying,
         Holding, Ending
<1>3. WokenFresh /\ FreshFrames
  BY DEF Init, WokenFresh, FreshFrames, Copying
<1> QED
  BY <1>1, <1>2, <1>3 DEF IInv

\* The input thread's steps.
LEMMA InputKeeps ==
    ASSUME IInv, Grab \/ EndLoop \/ Lock \/ publishing
    PROVE  IInv'
<1> USE DEF IInv
<1>0. db = Cam => \A c \in Users : ~Copying(c)
  BY UsersAssumption DEF Exclusive
<1>1. CASE Grab
  <2>1. TypeOK'
    BY <1>1, FramesAssumption DEF Grab, CamAt, TypeOK, Frames, Ending, copies, history
  <2>2. Exclusive' /\ DatabaseWhole' /\ ReadRight' /\ CopiesWhole'
    BY <1>1 DEF Grab, CamAt, Exclusive, DatabaseWhole, ReadRight, CopiesWhole, Whole,
       Copying, Holding, Ending, Stamps, Buffer, copies, history
  <2>3. WokenFresh' /\ FreshFrames'
    BY <1>1 DEF Grab, CamAt, WokenFresh, FreshFrames, Copying, copies, history
  <2> QED
    BY <2>1, <2>2, <2>3
<1>2. CASE EndLoop
  <2>1. TypeOK'
    BY <1>2 DEF EndLoop, CamAt, TypeOK, Ending, copies, history
  <2>2. Exclusive' /\ DatabaseWhole' /\ ReadRight' /\ CopiesWhole'
    BY <1>2 DEF EndLoop, CamAt, Exclusive, DatabaseWhole, ReadRight, CopiesWhole, Whole,
       Copying, Holding, Ending, Stamps, Buffer, copies, history
  <2>3. WokenFresh' /\ FreshFrames'
    BY <1>2 DEF EndLoop, CamAt, WokenFresh, FreshFrames, Copying, copies, history
  <2> QED
    BY <2>1, <2>2, <2>3
<1>3. CASE Lock
  <2>1. TypeOK'
    BY <1>3 DEF Lock, CamAt, TypeOK, Ending, copies, history
  <2>2. \A c \in Users : ~Copying(c)
    BY <1>3, UsersAssumption DEF Lock, Exclusive
  <2>3. Exclusive' /\ DatabaseWhole' /\ ReadRight' /\ CopiesWhole'
    BY <1>3, <2>2 DEF Lock, CamAt, Exclusive, DatabaseWhole, ReadRight, CopiesWhole,
       Whole, Copying, Holding, Ending, Stamps, Buffer, copies, history
  <2>4. WokenFresh' /\ FreshFrames'
    BY <1>3 DEF Lock, CamAt, WokenFresh, FreshFrames, Copying, copies, history
  <2> QED
    BY <2>1, <2>3, <2>4
<1>4. CASE WriteData
  <2>1. \A c \in Users : ~Copying(c)
    BY <1>4, <1>0 DEF WriteData, CamAt, Exclusive, Holding
  <2>2. buf' = [buf EXCEPT !.data = next] /\ cam' = "size" /\ cam = "data"
    BY <1>4 DEF WriteData, CamAt
  <2>3. buf'.data = next /\ next' = next
    BY <1>4, <2>2 DEF WriteData, TypeOK
  <2>4. TypeOK'
    BY <1>4, <2>2 DEF WriteData, TypeOK, Ending, copies, history
  <2>5. Exclusive' /\ ReadRight' /\ CopiesWhole'
    BY <1>4, <2>1, <2>2 DEF WriteData, Exclusive, ReadRight, CopiesWhole,
       Copying, Holding, Stamps, Buffer, copies, history
  <2>6. DatabaseWhole'
    BY <1>4, <2>1, <2>2, <2>3 DEF WriteData, DatabaseWhole, Copying, Ending
  <2>7. WokenFresh' /\ FreshFrames'
    BY <1>4, <2>2 DEF WriteData, WokenFresh, FreshFrames, Copying, copies, history
  <2> QED
    BY <2>4, <2>5, <2>6, <2>7
<1>5. CASE NoMemory \/ ReadFails
  <2>1. \A c \in Users : ~Copying(c)
    BY <1>5, <1>0 DEF NoMemory, ReadFails, CamAt, Exclusive, Holding
  <2>2. cam' = "cleanup" /\ UNCHANGED <<input, next, phase, pc, kind, copies, history>>
    BY <1>5 DEF NoMemory, ReadFails, CamAt
  <2>3. TypeOK'
    BY <1>5, <2>2 DEF NoMemory, ReadFails, TypeOK, Ending, copies, history
  <2>4. Exclusive' /\ ReadRight' /\ CopiesWhole'
    BY <2>1, <2>2 DEF Exclusive, ReadRight, CopiesWhole,
       Copying, Holding, Stamps, Buffer, copies, history
  <2>5. DatabaseWhole'
    BY <2>1, <2>2 DEF DatabaseWhole, Copying, Ending
  <2>6. WokenFresh' /\ FreshFrames'
    BY <2>2 DEF WokenFresh, FreshFrames, Copying, copies, history
  <2> QED
    BY <2>3, <2>4, <2>5, <2>6
<1>6. CASE WriteSize
  <2>1. \A c \in Users : ~Copying(c)
    BY <1>6, <1>0 DEF WriteSize, CamAt, Exclusive, Holding
  <2>2. /\ cam = "size" /\ cam' = "broadcast"
        /\ buf' = [buf EXCEPT !.size = next, !.stamp = IF Stamps THEN next ELSE @]
        /\ fresh' = [c \in Users |-> fresh[c] \/ pc[c] \in {"wait", "woken"}]
        /\ UNCHANGED <<input, next, phase, db, pc, kind, copies, spurious, disturbed>>
    BY <1>6 DEF WriteSize, CamAt
  <2>3. /\ buf'.size = next /\ buf'.data = buf.data /\ buf.data = next
        /\ Stamps => buf'.stamp = next
    BY <2>2 DEF TypeOK, DatabaseWhole
  <2>4. TypeOK'
    BY <2>2 DEF TypeOK, Ending, copies
  <2>5. Exclusive' /\ ReadRight' /\ CopiesWhole'
    BY <2>1, <2>2 DEF Exclusive, ReadRight, CopiesWhole, Copying, Holding, Stamps,
       Buffer, copies
  <2>6. DatabaseWhole'
    BY <2>1, <2>2, <2>3 DEF DatabaseWhole, Whole, Copying, Ending, Stamps
  <2>7. WokenFresh' /\ FreshFrames'
    BY <2>1, <2>2 DEF WokenFresh, FreshFrames, Copying
  <2> QED
    BY <2>4, <2>5, <2>6, <2>7
<1>7. CASE Broadcast
  <2>1. \A c \in Users : ~Copying(c)
    BY <1>7, <1>0 DEF Broadcast, CamAt, Exclusive, Holding
  <2>2. /\ cam = "broadcast" /\ cam' = "unlock"
        /\ pc' = [c \in Users |-> IF pc[c] = "wait" THEN "woken" ELSE pc[c]]
        /\ UNCHANGED <<input, next, buf, phase, db, kind, copies, history>>
    BY <1>7 DEF Broadcast, CamAt
  <2>3. TypeOK'
    BY <2>2 DEF TypeOK, Ending, copies, history
  <2>4. Exclusive' /\ DatabaseWhole' /\ ReadRight' /\ CopiesWhole'
    BY <2>1, <2>2 DEF Exclusive, DatabaseWhole, ReadRight, CopiesWhole, Whole, Copying,
       Holding, Ending, Stamps, Buffer, copies, history
  <2>5. WokenFresh' /\ FreshFrames'
    BY <2>1, <2>2 DEF WokenFresh, FreshFrames, Copying, copies, history
  <2> QED
    BY <2>3, <2>4, <2>5
<1>8. CASE Unlock
  <2>1. \A c \in Users : ~Copying(c)
    BY <1>8, <1>0 DEF Unlock, CamAt, Exclusive, Holding
  <2>2. TypeOK'
    BY <1>8 DEF Unlock, CamAt, TypeOK, Ending, copies, history
  <2>3. Exclusive' /\ DatabaseWhole' /\ ReadRight' /\ CopiesWhole'
    BY <1>8, <2>1 DEF Unlock, CamAt, Exclusive, DatabaseWhole, ReadRight, CopiesWhole,
       Whole, Copying, Holding, Ending, Stamps, Buffer, copies, history
  <2>4. WokenFresh' /\ FreshFrames'
    BY <1>8 DEF Unlock, CamAt, WokenFresh, FreshFrames, Copying, copies, history
  <2> QED
    BY <2>2, <2>3, <2>4
<1>9. CASE FreeBuffer \/ ClearSize
  <2>1. /\ cam' \in {"clear", "over"} /\ buf' \in {[buf EXCEPT !.data = None], [buf EXCEPT !.size = None]}
        /\ disturbed' = [c \in Users |-> disturbed[c] \/ Copying(c)]
        /\ UNCHANGED <<input, next, phase, db, pc, kind, copies, fresh, spurious>>
    BY <1>9 DEF FreeBuffer, ClearSize, CamAt
  <2>2. TypeOK'
    BY <2>1 DEF TypeOK, Ending, copies
  <2>3. Exclusive' /\ ReadRight' /\ CopiesWhole'
    BY <2>1 DEF Exclusive, ReadRight, CopiesWhole, Copying, Holding, Stamps, Buffer,
       copies
  <2>4. DatabaseWhole'
    BY <2>1 DEF DatabaseWhole, Copying, Ending
  <2>5. WokenFresh' /\ FreshFrames'
    BY <2>1 DEF WokenFresh, FreshFrames, Copying
  <2> QED
    BY <2>2, <2>3, <2>4, <2>5
<1> QED
  BY <1>1, <1>2, <1>3, <1>4, <1>5, <1>6, <1>7, <1>8, <1>9 DEF publishing

LEMMA BuffersAreUsers == \A u \in Users : Buffer(u) \in Users
BY UsersAssumption DEF Buffer, Users

\* What c does with its buffer at the end of a round does not touch what another
\* thread is sending, or disturbs it.
LEMMA OthersSend ==
    ASSUME TypeOK, NEW c \in Users, NEW left \in {"short", "freed"},
           \/ Keep(c) /\ room' \in {"whole", "short", "freed"}
           \/ Free(c, left)
    PROVE  /\ frame' \in [Users -> Frames \cup {None}] /\ disturbed' \in [Users -> BOOLEAN]
           /\ room' \in {"whole", "short", "freed"}
           /\ \A u \in Users \ {c} : ~disturbed'[u] =>
                 /\ ~disturbed[u]
                 /\ pc[u] = "send" => frame'[Buffer(u)] = frame[Buffer(u)]
<1>1. \A u \in Users : pc[u] = "send" => u \in Sending(Buffer(u))
  BY DEF Sending
<1>2. CASE Keep(c) /\ room' \in {"whole", "short", "freed"}
  <2>1. /\ frame' = [b \in Users |-> IF Sending(b) \subseteq {c} THEN None ELSE frame[b]]
        /\ disturbed' = [disturbed EXCEPT ![c] = FALSE]
    BY <1>2 DEF Keep
  <2>2. frame' \in [Users -> Frames \cup {None}] /\ disturbed' \in [Users -> BOOLEAN]
    BY <2>1 DEF TypeOK
  <2>3. \A u \in Users \ {c} : pc[u] = "send" => frame'[Buffer(u)] = frame[Buffer(u)]
    BY <1>1, <2>1, BuffersAreUsers
  <2> QED
    BY <1>2, <2>1, <2>2, <2>3 DEF TypeOK
<1>3. CASE Free(c, left)
  <2>1. /\ frame' = [frame EXCEPT ![c] = None]
        /\ disturbed' = [Disturb(Sending(c)) EXCEPT ![c] = FALSE]
        /\ room' \in {left, room}
    BY <1>3 DEF Free
  <2>2. Disturb(Sending(c)) = [u \in Users |-> disturbed[u] \/ u \in Sending(c)]
    BY DEF Disturb
  <2>3. /\ frame' \in [Users -> Frames \cup {None}] /\ disturbed' \in [Users -> BOOLEAN]
        /\ room' \in {"whole", "short", "freed"}
    BY <2>1, <2>2 DEF TypeOK
  <2>4. ASSUME NEW u \in Users \ {c}, ~disturbed'[u]
        PROVE  ~disturbed[u] /\ u \notin Sending(c)
    BY <2>1, <2>2, <2>4
  <2>5. ASSUME NEW u \in Users \ {c}, ~disturbed'[u], pc[u] = "send"
        PROVE  frame'[Buffer(u)] = frame[Buffer(u)]
    <3>1. Buffer(u) # c
      BY <1>1, <2>4, <2>5
    <3> QED
      BY <2>1, <3>1, BuffersAreUsers DEF TypeOK
  <2> QED
    BY <2>3, <2>4, <2>5
<1> QED
  BY <1>2, <1>3

\* The mutex is free or the thread's own: nobody else is in the middle of a frame.
LEMMA Alone ==
    ASSUME IInv, NEW c \in Users, db = None \/ db = c
    PROVE  cam \notin Holding /\ \A u \in Users \ {c} : ~Copying(u)
BY UsersAssumption DEF IInv, Exclusive, Users

\* The end of a round: whatever was read in it is forgotten.
LEMMA RoundOver ==
    ASSUME IInv, NEW c \in Users, NEW to \in {"idle", "done"},
           NEW left \in {"short", "freed"},
           pc' = [pc EXCEPT ![c] = to], Forget(c) \/ UNCHANGED <<mine, fresh, spurious>>,
           \/ Keep(c) /\ room' \in {"whole", "short", "freed"}
           \/ Free(c, left),
           UNCHANGED <<input_vars, phase, kind>>,
           \/ db' = db /\ ~Copying(c)
           \/ (db = None \/ db = c) /\ db' \in {c, None}
    PROVE  IInv'
<1> USE DEF IInv
<1>1. /\ frame' \in [Users -> Frames \cup {None}] /\ disturbed' \in [Users -> BOOLEAN]
      /\ room' \in {"whole", "short", "freed"}
      /\ \A u \in Users \ {c} : ~disturbed'[u] =>
            /\ ~disturbed[u]
            /\ pc[u] = "send" => frame'[Buffer(u)] = frame[Buffer(u)]
  BY OthersSend
<1>2. pc'[c] = to /\ \A u \in Users \ {c} : pc'[u] = pc[u]
  BY DEF TypeOK
<1>3. /\ mine' \in [Users -> [size : Frames \cup {None}, stamp : Frames \cup {None}]]
      /\ fresh' \in [Users -> BOOLEAN] /\ spurious' \in [Users -> BOOLEAN]
      /\ \A u \in Users \ {c} : /\ mine'[u] = mine[u] /\ fresh'[u] = fresh[u]
                                /\ spurious'[u] = spurious[u]
  <2>1. CASE Forget(c)
    BY <2>1 DEF TypeOK, Forget
  <2>2. CASE UNCHANGED <<mine, fresh, spurious>>
    BY <2>2 DEF TypeOK
  <2> QED
    BY <2>1, <2>2
<1>4. TypeOK'
  BY <1>1, <1>3 DEF TypeOK, input_vars, Ending, Users
<1>5. Exclusive'
  BY <1>2, Alone, UsersAssumption DEF Exclusive, Copying, Holding, input_vars, Users
<1>6. DatabaseWhole' /\ ReadRight'
  BY <1>1, <1>2, <1>3 DEF DatabaseWhole, ReadRight, Whole, Copying, Stamps, Ending, input_vars
<1>7. CopiesWhole'
  <2> SUFFICES ASSUME NEW u \in Users, pc'[u] = "send", ~disturbed'[u]
               PROVE  /\ mine'[u].size = frame'[Buffer(u)]
                      /\ Stamps' => mine'[u].stamp = frame'[Buffer(u)]
    BY DEF CopiesWhole, Buffer
  <2>1. u # c /\ pc[u] = "send" /\ mine'[u] = mine[u]
    BY <1>2, <1>3
  <2>2. ~disturbed[u] /\ frame'[Buffer(u)] = frame[Buffer(u)]
    BY <1>1, <2>1
  <2> QED
    BY <2>1, <2>2 DEF CopiesWhole, Stamps, input_vars
<1>8. WokenFresh' /\ FreshFrames'
  BY <1>2, <1>3 DEF WokenFresh, FreshFrames, Copying, input_vars
<1> QED
  BY <1>4, <1>5, <1>6, <1>7, <1>8

\* The steps of signal_handler, of the workers and of the clients.
LEMMA UsersKeep ==
    ASSUME IInv, NEW c \in Users,
           \/ Stop \/ Connect(c) \/ Begin(c) \/ LockAndWait(c) \/ WakeSpuriously(c)
           \/ TakeMutex(c) \/ copying(c) \/ Crash(c) \/ Sent(c) \/ SendFails(c) \/ Cancel(c)
    PROVE  IInv'
<1> USE DEF IInv
<1>1. CASE Stop
  <2>1. TypeOK'
    BY <1>1 DEF Stop, TypeOK, input_vars, Ending, copies, history
  <2>2. Exclusive' /\ DatabaseWhole' /\ ReadRight' /\ CopiesWhole'
    BY <1>1 DEF Stop, Exclusive, DatabaseWhole, ReadRight, CopiesWhole, Whole, Copying,
       Stamps, Buffer, input_vars, copies, history
  <2>3. WokenFresh' /\ FreshFrames'
    BY <1>1 DEF Stop, WokenFresh, FreshFrames, Copying, input_vars, history
  <2> QED
    BY <2>1, <2>2, <2>3
<1>2. CASE Connect(c)
  <2>1. TypeOK'
    BY <1>2, KindsOfRequests
    DEF Connect, At, TypeOK, input_vars, Ending, copies, history
  <2>2. Exclusive' /\ DatabaseWhole' /\ ReadRight'
    BY <1>2 DEF Connect, At, TypeOK, Exclusive, DatabaseWhole, ReadRight, Whole, Copying,
       Stamps, input_vars, copies, history
  <2>3. \A u \in Users : pc'[u] = "send" => pc[u] = "send" /\ kind'[u] = kind[u]
    BY <1>2 DEF Connect, At, TypeOK
  <2>4. CopiesWhole'
    BY <1>2, <2>3 DEF Connect, CopiesWhole, Stamps, Buffer, input_vars, copies, history
  <2>5. WokenFresh' /\ FreshFrames'
    BY <1>2 DEF Connect, At, TypeOK, WokenFresh, FreshFrames, Copying, input_vars, history
  <2> QED
    BY <2>1, <2>2, <2>4, <2>5
<1>3. CASE Begin(c)
  <2>1. CASE pc' = [pc EXCEPT ![c] = "lock"] /\ UNCHANGED <<frame, room, disturbed>>
    <3>1. UNCHANGED <<input_vars, phase, db, kind, copies, history>> /\ pc[c] = "idle"
      BY <1>3, <2>1 DEF Begin, At, copies, history
    <3>2. TypeOK'
      BY <2>1, <3>1 DEF TypeOK, input_vars, Ending, copies, history
    <3>3. Exclusive' /\ DatabaseWhole' /\ ReadRight' /\ CopiesWhole'
      BY <2>1, <3>1 DEF TypeOK, Exclusive, DatabaseWhole, ReadRight, CopiesWhole, Whole,
         Copying, Stamps, Buffer, input_vars, copies, history
    <3>4. WokenFresh' /\ FreshFrames'
      BY <2>1, <3>1 DEF TypeOK, WokenFresh, FreshFrames, Copying, input_vars, history
    <3> QED
      BY <3>2, <3>3, <3>4
  <2>2. CASE pc' = [pc EXCEPT ![c] = "done"] /\ Free(c, "freed")
    <3>1. /\ UNCHANGED <<input_vars, phase, kind>> /\ UNCHANGED <<mine, fresh, spurious>>
          /\ db' = db /\ ~Copying(c)
      BY <1>3 DEF Begin, At, Copying
    <3> QED
      BY <2>2, <3>1, RoundOver
  <2> QED
    BY <1>3, <2>1, <2>2 DEF Begin, At
<1>4. CASE LockAndWait(c)
  <2>0. cam # "broadcast"
    BY <1>4, Alone DEF LockAndWait, Holding
  <2>1. TypeOK'
    BY <1>4 DEF LockAndWait, At, TypeOK, input_vars, Ending, copies, history
  <2>2. Exclusive' /\ DatabaseWhole' /\ ReadRight' /\ CopiesWhole'
    BY <1>4 DEF LockAndWait, At, TypeOK, Exclusive, DatabaseWhole, ReadRight, CopiesWhole,
       Whole, Copying, Stamps, Buffer, input_vars, copies, history
  <2>3. WokenFresh' /\ FreshFrames'
    BY <1>4, <2>0 DEF LockAndWait, At, TypeOK, WokenFresh, FreshFrames, Copying,
       input_vars, history
  <2> QED
    BY <2>1, <2>2, <2>3
<1>5. CASE WakeSpuriously(c)
  <2>1. TypeOK'
    BY <1>5 DEF WakeSpuriously, At, TypeOK, input_vars, Ending, copies
  <2>2. Exclusive' /\ DatabaseWhole' /\ ReadRight' /\ CopiesWhole'
    BY <1>5 DEF WakeSpuriously, At, TypeOK, Exclusive, DatabaseWhole, ReadRight,
       CopiesWhole, Whole, Copying, Stamps, Buffer, input_vars, copies
  <2>3. WokenFresh' /\ FreshFrames'
    BY <1>5 DEF WakeSpuriously, At, TypeOK, WokenFresh, FreshFrames, Copying, input_vars
  <2> QED
    BY <2>1, <2>2, <2>3
<1>6. CASE TakeMutex(c)
  <2>1. /\ db = None /\ db' = c /\ pc' = [pc EXCEPT ![c] = "size"]
        /\ pc[c] = "woken" \/ ~Profile[kind[c]].waits
        /\ disturbed' = [disturbed EXCEPT ![c] = cam \in Ending]
        /\ UNCHANGED <<input_vars, phase, kind, copies, fresh, spurious>>
    BY <1>6 DEF TakeMutex, At
  <2>2. cam \notin Holding /\ \A u \in Users \ {c} : ~Copying(u)
    BY <2>1, Alone
  <2>3. TypeOK'
    BY <2>1 DEF TypeOK, input_vars, Ending, copies
  <2>4. Exclusive' /\ ReadRight' /\ CopiesWhole'
    BY <2>1, <2>2 DEF TypeOK, Exclusive, ReadRight, CopiesWhole, Copying, Stamps, Buffer,
       input_vars, copies
  <2>5. DatabaseWhole'
    BY <2>1, <2>2 DEF TypeOK, DatabaseWhole, Whole, Copying, Stamps, Holding, input_vars
  <2>6. WokenFresh' /\ FreshFrames'
    BY <2>1 DEF TypeOK, WokenFresh, FreshFrames, Copying, input_vars
  <2> QED
    BY <2>3, <2>4, <2>5, <2>6
<1>7. CASE ReadSize(c)
  <2>1. /\ pc[c] = "size" /\ pc' = [pc EXCEPT ![c] = "data"]
        /\ mine' = [mine EXCEPT ![c] = [size |-> buf.size, stamp |-> buf.stamp]]
        /\ UNCHANGED <<input_vars, phase, db, kind, fresh, spurious>>
    BY <1>7 DEF ReadSize, At
  <2>2. /\ frame' \in [Users -> Frames \cup {None}] /\ disturbed' \in [Users -> BOOLEAN]
        /\ room' \in {"whole", "short", "freed"}
        /\ \A u \in Users : ~disturbed'[u] =>
              /\ ~disturbed[u]
              /\ pc[u] = "send" => frame'[Buffer(u)] = frame[Buffer(u)]
    <3>1. CASE UNCHANGED <<frame, room, disturbed>>
      BY <3>1 DEF TypeOK
    <3>2. CASE Grow(c)
      <4>1. /\ frame' \in {frame, [frame EXCEPT ![Buffer(c)] = None]}
            /\ disturbed' = [u \in Users |-> disturbed[u] \/ u \in Sending(Buffer(c))]
            /\ room' \in {room, "whole"}
        BY <3>2 DEF Grow, Disturb
      <4>2. frame' \in [Users -> Frames \cup {None}] /\ disturbed' \in [Users -> BOOLEAN]
        BY <4>1, BuffersAreUsers DEF TypeOK
      <4>3. ASSUME NEW u \in Users, ~disturbed'[u]
            PROVE  ~disturbed[u] /\ u \notin Sending(Buffer(c))
        BY <4>1, <4>3
      <4>4. ASSUME NEW u \in Users, ~disturbed'[u], pc[u] = "send"
            PROVE  frame'[Buffer(u)] = frame[Buffer(u)]
        <5>1. Buffer(u) # Buffer(c)
          BY <4>3, <4>4 DEF Sending
        <5> QED
          BY <4>1, <5>1, BuffersAreUsers DEF TypeOK
      <4> QED
        BY <4>1, <4>2, <4>3, <4>4 DEF TypeOK
    <3> QED
      BY <1>7, <3>1, <3>2 DEF ReadSize
  <2>3. TypeOK'
    BY <2>1, <2>2 DEF TypeOK, input_vars, Ending
  <2>4. Exclusive' /\ DatabaseWhole' /\ ReadRight'
    BY <2>1, <2>2 DEF TypeOK, Exclusive, DatabaseWhole, ReadRight, Whole, Copying, Stamps,
       input_vars
  <2>5. CopiesWhole'
    <3> SUFFICES ASSUME NEW u \in Users, pc'[u] = "send", ~disturbed'[u]
                 PROVE  /\ mine'[u].size = frame'[Buffer(u)]
                        /\ Stamps' => mine'[u].stamp = frame'[Buffer(u)]
      BY <2>1 DEF CopiesWhole, Buffer
    <3>1. u # c /\ pc[u] = "send" /\ mine'[u] = mine[u]
      BY <2>1 DEF TypeOK
    <3> QED
      BY <2>1, <2>2, <3>1 DEF CopiesWhole, Stamps, input_vars
  <2>6. WokenFresh' /\ FreshFrames'
    BY <2>1 DEF TypeOK, WokenFresh, FreshFrames, Copying, input_vars
  <2> QED
    BY <2>3, <2>4, <2>5, <2>6
<1>8. CASE CopyData(c)
  <2>1. /\ pc[c] = "data" /\ pc' = [pc EXCEPT ![c] = "send"]
        /\ frame' = [frame EXCEPT ![Buffer(c)] = IF Sound(c) THEN buf.data ELSE None]
        /\ disturbed' = [u \in Users |-> disturbed[u]
                            \/ u \in Sending(Buffer(c)) \cup {v \in {c} : ~Sound(v)}]
        /\ db' = None
        /\ UNCHANGED <<input_vars, phase, kind, mine, room, fresh, spurious>>
    BY <1>8 DEF CopyData, At, Disturb
  <2>2. db = c /\ cam \notin Holding /\ \A u \in Users \ {c} : ~Copying(u)
    BY <2>1, Alone DEF Exclusive, Copying
  <2>3. \A u \in Users : Buffer(u) \in Users
    BY BuffersAreUsers
  <2>4. TypeOK'
    BY <2>1, <2>3 DEF TypeOK, input_vars, Ending
  <2>5. Exclusive' /\ DatabaseWhole' /\ ReadRight'
    BY <2>1, <2>2 DEF TypeOK, Exclusive, DatabaseWhole, ReadRight, Whole, Copying, Stamps,
       input_vars
  <2>6. CopiesWhole'
    <3> SUFFICES ASSUME NEW u \in Users, pc'[u] = "send", ~disturbed'[u]
                 PROVE  /\ mine[u].size = frame'[Buffer(u)]
                        /\ Stamps => mine[u].stamp = frame'[Buffer(u)]
      BY <2>1 DEF CopiesWhole, Stamps, Buffer, input_vars
    <3>1. ~disturbed[u] /\ u \notin Sending(Buffer(c)) /\ ~(u = c /\ ~Sound(c))
      BY <2>1
    <3>2. CASE u = c
      <4>1. Whole /\ mine[c].size = buf.size /\ mine[c].stamp = buf.stamp
        BY <2>1, <3>1, <3>2 DEF DatabaseWhole, ReadRight, Copying
      <4>2. frame'[Buffer(c)] = buf.data
        BY <2>1, <2>3, <3>1, <3>2 DEF TypeOK
      <4> QED
        BY <3>2, <4>1, <4>2 DEF Whole
    <3>3. CASE u # c
      <4>1. pc[u] = "send" /\ Buffer(u) # Buffer(c)
        BY <2>1, <3>1, <3>3 DEF TypeOK, Sending
      <4>2. frame'[Buffer(u)] = frame[Buffer(u)]
        BY <2>1, <2>3, <4>1 DEF TypeOK
      <4> QED
        BY <3>1, <4>1, <4>2 DEF CopiesWhole
    <3> QED
      BY <3>2, <3>3
  <2>7. WokenFresh' /\ FreshFrames'
    BY <2>1 DEF TypeOK, WokenFresh, FreshFrames, Copying, input_vars
  <2> QED
    BY <2>4, <2>5, <2>6, <2>7
<1>9. CASE NoMemoryFor(c) \/ Sent(c) \/ SendFails(c) \/ Cancel(c)
  <2>1. PICK to \in {"idle", "done"} : pc' = [pc EXCEPT ![c] = to]
    BY <1>9 DEF NoMemoryFor, RefuseMemory, Sent, SendFails, Cancel, At
  <2>2. Forget(c) /\ UNCHANGED <<input_vars, phase, kind>>
    BY <1>9 DEF NoMemoryFor, RefuseMemory, Sent, SendFails, Cancel
  <2>3. NoMemoryFor(c) => db = c /\ db' = None
    BY DEF NoMemoryFor, RefuseMemory, At, Exclusive, Copying
  <2>4. \/ db' = db /\ ~Copying(c)
        \/ (db = None \/ db = c) /\ db' \in {c, None}
    BY <1>9, <2>3 DEF Sent, SendFails, Cancel, At, Copying
  <2>5. PICK left \in {"short", "freed"} :
            \/ Keep(c) /\ room' \in {"whole", "short", "freed"}
            \/ Free(c, left)
    BY <1>9 DEF NoMemoryFor, RefuseMemory, Sent, SendFails, Cancel, TypeOK
  <2> QED
    BY <2>1, <2>2, <2>4, <2>5, RoundOver
<1>10. CASE Crash(c)
  <2>1. phase' = "dead" /\ UNCHANGED <<input_vars, db, pc, kind, copies, history>>
    BY <1>10 DEF Crash
  <2>2. TypeOK'
    BY <2>1 DEF TypeOK, input_vars, Ending, copies, history
  <2>3. Exclusive' /\ DatabaseWhole' /\ ReadRight' /\ CopiesWhole'
    BY <2>1 DEF Exclusive, DatabaseWhole, ReadRight, CopiesWhole, Whole, Copying,
       Stamps, Buffer, input_vars, copies, history
  <2>4. WokenFresh' /\ FreshFrames'
    BY <2>1 DEF WokenFresh, FreshFrames, Copying, input_vars, history
  <2> QED
    BY <2>2, <2>3, <2>4
<1> QED
  BY <1>1, <1>2, <1>3, <1>4, <1>5, <1>6, <1>7, <1>8, <1>9, <1>10 DEF copying

LEMMA Inductive == IInv /\ [Next]_vars => IInv'
<1>1. ASSUME IInv, UNCHANGED vars PROVE IInv'
  BY <1>1 DEF IInv, TypeOK, Exclusive, DatabaseWhole, ReadRight, CopiesWhole, WokenFresh,
     FreshFrames, Whole, Copying, Stamps, Buffer, Ending, vars, input_vars, copies, history
<1>2. ASSUME IInv, Next, Users # {} PROVE IInv'
  BY <1>2, InputKeeps, UsersKeep DEF Next
<1> QED
  BY <1>1, <1>2, UsersAssumption DEF Users

LEMMA Holds == Spec => []IInv
BY InitInv, Inductive, PTL DEF Spec

\* Every variable keeps its type.
THEOREM TypeCorrect == Spec => []TypeOK
<1>1. IInv => TypeOK
  BY DEF IInv
<1> QED
  BY <1>1, Holds, PTL

\* What a thread sends or saves is one frame, unless the buffer it was copied from
\* was freed, or the one it was copied to is output_file's, which its worker and
\* the command TAKE share without a lock, and the other of the two overwrote, moved
\* or freed it, or had left it freed or too small before the copy.
THEOREM CopiesStayWhole == Spec => []CopiesWhole
<1>1. IInv => CopiesWhole
  BY DEF IInv
<1> QED
  BY <1>1, Holds, PTL

\* What a thread sends that waited for a frame was published after it began to wait.
THEOREM FramesFresh == Spec => []FreshFrames
<1>1. IInv => FreshFrames
  BY DEF IInv
<1> QED
  BY <1>1, Holds, PTL

----------------------------------------------------------------------------
(* The mutex is given back *)

\* The steps a holder of the mutex has left, at a place p, until it gives it
\* back.
StepsAt(p) ==
    CASE p = "size" -> 2 [] p = "data" -> 1 [] OTHER -> 0
InputStepsAt(p) ==
    CASE p = "data" -> 4 [] p = "size" -> 3 [] p = "broadcast" -> 2 [] p = "unlock" -> 1
      [] OTHER -> 0

HoldLeft ==
    IF db = Cam THEN InputStepsAt(cam) ELSE IF db \in Users THEN StepsAt(pc[db]) ELSE 0

\* Whoever holds the mutex is in the middle of a frame; or it is input_file's
\* thread, which has no memory, or a worker cancelled while it waited.
MutexHeld ==
    db # None =>
        \/ db = Cam /\ cam \in Holding
        \/ db \in Users /\ Copying(db)
        \/ db = Cam /\ cam \in Ending /\ input = "file"
        \/ db \in Workers /\ pc[db] = "done" /\ phase # "run"

\* Nobody takes the mutex from its holder, and every step of the input thread
\* or of a copying thread brings it nearer to giving it back.
HoldSteps ==
    [][db # None =>
         /\ db' \in {db, None} /\ HoldLeft' <= HoldLeft
         /\ (publishing /\ cam \in Holding) \/ (\E c \in Users : copying(c))
                => HoldLeft' < HoldLeft]_vars

LEMMA StepsNumbers ==
/\ \A p : StepsAt(p) \in 0..4 /\ InputStepsAt(p) \in 0..4
/\ StepsAt("size") = 2 /\ StepsAt("data") = 1 /\ StepsAt("done") = 0 /\ StepsAt("send") = 0
/\ InputStepsAt("data") = 4 /\ InputStepsAt("size") = 3 /\ InputStepsAt("broadcast") = 2
/\ InputStepsAt("unlock") = 1 /\ InputStepsAt("cleanup") = 0 /\ InputStepsAt("clear") = 0
/\ InputStepsAt("over") = 0
BY DEF StepsAt, InputStepsAt

LEMMA HoldLeftType == HoldLeft \in 0..4 /\ HoldLeft' \in 0..4
<1>1. HoldLeft \in 0..4
  BY StepsNumbers DEF HoldLeft
<1>2. HoldLeft' \in 0..4
  BY StepsNumbers DEF HoldLeft
<1> QED
  BY <1>1, <1>2

\* A step of the input thread.
LEMMA InputHolds ==
    ASSUME IInv, MutexHeld, Grab \/ EndLoop \/ Lock \/ publishing
    PROVE  /\ MutexHeld'
           /\ db # None => /\ db' \in {db, None} /\ HoldLeft' <= HoldLeft
                           /\ publishing /\ cam \in Holding => HoldLeft' < HoldLeft
<1> USE DEF IInv
<1>1. pc \in [Users -> {"idle", "lock", "wait", "woken", "size", "data", "send", "done"}]
      /\ Cam \notin Users /\ None \notin Users /\ Cam # None /\ Workers \subseteq Users
  BY UsersAssumption DEF TypeOK, Users
<1>2. HoldLeft \in Int /\ HoldLeft' \in Int /\ HoldLeft >= 0
  BY HoldLeftType
<1>3. CASE Grab \/ EndLoop
  <2>1. /\ db' = db /\ pc' = pc /\ phase' = phase /\ input' = input /\ cam = "run"
        /\ cam' \in {"lock", "cleanup"}
    BY <1>3 DEF Grab, EndLoop, CamAt
  <2>2. db # Cam
    BY <2>1, <1>1 DEF MutexHeld, Holding, Ending
  <2>3. MutexHeld'
    BY <2>1, <2>2 DEF MutexHeld, Copying
  <2>4. HoldLeft' = HoldLeft
    BY <2>1, <2>2 DEF HoldLeft
  <2> QED
    BY <2>1, <2>3, <2>4, <1>2 DEF Holding
<1>4. CASE Lock
  BY <1>4 DEF Lock, CamAt, MutexHeld, Holding
<1>5. CASE WriteData \/ WriteSize
  <2>1. /\ db' = db /\ pc' = pc /\ phase' = phase /\ input' = input
        /\ \/ cam = "data" /\ cam' = "size"
           \/ cam = "size" /\ cam' = "broadcast"
    <3>1. CASE WriteData
      BY <3>1 DEF WriteData, CamAt
    <3>2. CASE WriteSize
      BY <3>2 DEF WriteSize, CamAt
    <3> QED
      BY <1>5, <3>1, <3>2
  <2>2. db = Cam
    BY <2>1 DEF Exclusive, Holding
  <2> QED
    BY <2>1, <2>2, <1>1, StepsNumbers DEF MutexHeld, HoldLeft, Holding
<1>6. CASE Broadcast
  <2>1. db' = db /\ cam = "broadcast" /\ cam' = "unlock"
    BY <1>6 DEF Broadcast, CamAt
  <2>2. db = Cam
    BY <2>1 DEF Exclusive, Holding
  <2> QED
    BY <2>1, <2>2, <1>1, StepsNumbers DEF MutexHeld, HoldLeft, Holding
<1>7. CASE Unlock \/ ReadFails
  <2>1. db' = None /\ cam \in {"unlock", "data"}
    BY <1>7 DEF Unlock, ReadFails, CamAt
  <2>2. db = Cam
    BY <2>1 DEF Exclusive, Holding
  <2> QED
    BY <2>1, <2>2, <1>1, StepsNumbers DEF MutexHeld, HoldLeft
<1>8. CASE NoMemory
  <2>1. db' = db /\ cam = "data" /\ cam' = "cleanup" /\ input = "file" /\ input' = input
    BY <1>8 DEF NoMemory, CamAt
  <2>2. db = Cam
    BY <2>1 DEF Exclusive, Holding
  <2> QED
    BY <2>1, <2>2, <1>1, StepsNumbers DEF MutexHeld, HoldLeft, Ending
<1>9. CASE FreeBuffer \/ ClearSize
  <2>1. /\ db' = db /\ pc' = pc /\ phase' = phase /\ input' = input
        /\ cam \in {"cleanup", "clear"} /\ cam' \in {"clear", "over"}
    BY <1>9 DEF FreeBuffer, ClearSize, CamAt
  <2>2. MutexHeld'
    BY <2>1 DEF MutexHeld, Copying, Holding, Ending
  <2>3. HoldLeft' = HoldLeft
    BY <2>1, StepsNumbers DEF HoldLeft
  <2> QED
    BY <2>1, <2>2, <2>3, <1>2 DEF Holding
<1> QED
  BY <1>3, <1>4, <1>5, <1>6, <1>7, <1>8, <1>9 DEF publishing

\* A step of signal_handler, of a worker or of a client.
LEMMA UsersHold ==
    ASSUME IInv, MutexHeld, NEW c \in Users,
           \/ Stop \/ Connect(c) \/ Begin(c) \/ LockAndWait(c) \/ WakeSpuriously(c)
           \/ TakeMutex(c) \/ copying(c) \/ Crash(c) \/ Sent(c) \/ SendFails(c) \/ Cancel(c)
    PROVE  /\ MutexHeld'
           /\ db # None => /\ db' \in {db, None} /\ HoldLeft' <= HoldLeft
                           /\ copying(c) => HoldLeft' < HoldLeft
<1> USE DEF IInv
<1>1. pc \in [Users -> {"idle", "lock", "wait", "woken", "size", "data", "send", "done"}]
      /\ Cam \notin Users /\ None \notin Users /\ Cam # None /\ Workers \subseteq Users
      /\ Workers \cap Clients = {}
  BY UsersAssumption DEF TypeOK, Users
<1>2. HoldLeft \in Int /\ HoldLeft' \in Int /\ HoldLeft >= 0
  BY HoldLeftType
<1>3. ASSUME UNCHANGED <<cam, input, db>>, phase # "run" => phase' # "run",
             \A u \in Users : db = u => pc'[u] = pc[u]
      PROVE  MutexHeld' /\ HoldLeft' = HoldLeft
  <2>1. db \in Users => pc'[db] = pc[db]
    BY <1>3
  <2>2. MutexHeld'
    BY <1>1, <1>3, <2>1 DEF MutexHeld, Copying
  <2>3. HoldLeft' = HoldLeft
    BY <1>3, <2>1 DEF HoldLeft
  <2> QED
    BY <2>2, <2>3
<1>4. ASSUME Copying(c) PROVE db = c /\ HoldLeft = StepsAt(pc[c])
  BY <1>1, <1>4 DEF Exclusive, HoldLeft
<1>5. copying(c) => Copying(c)
  BY DEF copying, ReadSize, NoMemoryFor, RefuseMemory, CopyData, At, Copying
<1>6. CASE Stop \/ Crash(c)
  <2>1. UNCHANGED <<cam, input, db, pc>> /\ phase' # phase /\ phase' # "run"
    BY <1>6 DEF Stop, Crash, input_vars
  <2>2. ~copying(c)
    BY <2>1 DEF copying, ReadSize, NoMemoryFor, RefuseMemory, CopyData
  <2> QED
    BY <1>2, <1>3, <2>1, <2>2
<1>7. CASE /\ Connect(c) \/ Begin(c) \/ LockAndWait(c) \/ WakeSpuriously(c) \/ Sent(c)
              \/ SendFails(c) \/ (Cancel(c) /\ db' = db)
  <2>1. /\ UNCHANGED <<cam, input, phase, db>>
        /\ pc[c] \in {"idle", "lock", "wait", "send"} \/ (pc[c] = "done" /\ c \in Clients)
        /\ \E l : pc' = [pc EXCEPT ![c] = l]
    BY <1>7 DEF Connect, Begin, LockAndWait, WakeSpuriously, Sent, SendFails, Cancel, At, input_vars
  <2>2. ~Copying(c)
    BY <2>1 DEF Copying
  <2>3. db # c
    BY <1>1, <2>1, <2>2 DEF MutexHeld
  <2>4. \A u \in Users : db = u => pc'[u] = pc[u]
    BY <1>1, <2>1, <2>3
  <2> QED
    BY <1>2, <1>3, <1>5, <2>1, <2>2, <2>4
<1>8. CASE TakeMutex(c)
  <2>1. db = None /\ db' = c /\ pc' = [pc EXCEPT ![c] = "size"]
    BY <1>8 DEF TakeMutex, At
  <2> QED
    BY <1>1, <2>1 DEF MutexHeld, Copying
<1>9. CASE Cancel(c) /\ db' # db
  <2>1. db = None /\ db' = c /\ pc' = [pc EXCEPT ![c] = "done"] /\ c \in Workers
        /\ phase' = "stop"
    BY <1>9 DEF Cancel
  <2> QED
    BY <1>1, <2>1 DEF MutexHeld
<1>10. CASE ReadSize(c)
  <2>1. UNCHANGED <<cam, input, db>> /\ pc[c] = "size" /\ pc' = [pc EXCEPT ![c] = "data"]
    BY <1>10 DEF ReadSize, At, input_vars
  <2>2. db = c /\ HoldLeft = 2
    BY <1>4, <2>1, StepsNumbers DEF Copying
  <2>3. pc'[c] = "data"
    BY <1>1, <2>1
  <2>4. HoldLeft' = 1
    BY <1>1, <2>1, <2>2, <2>3, StepsNumbers DEF HoldLeft
  <2>5. MutexHeld'
    BY <2>1, <2>2, <2>3 DEF MutexHeld, Copying
  <2> QED
    BY <2>1, <2>2, <2>4, <2>5
<1>11. CASE NoMemoryFor(c) \/ CopyData(c)
  <2>1. db' = None /\ pc[c] \in {"size", "data"}
    BY <1>11 DEF NoMemoryFor, RefuseMemory, CopyData, At
  <2>2. HoldLeft > 0
    BY <1>4, <2>1, StepsNumbers DEF Copying
  <2>3. HoldLeft' = 0 /\ MutexHeld'
    BY <1>1, <2>1 DEF HoldLeft, MutexHeld
  <2> QED
    BY <1>2, <2>1, <2>2, <2>3
<1> QED
  BY <1>6, <1>7, <1>8, <1>9, <1>10, <1>11 DEF copying

\* input_uvc.c:768, httpd.c:409 and the other loops: the mutex is held in the
\* middle of a frame only and given back within four steps of its holder, or it
\* is lost in one of two ways: input_file has no memory (input_file.c:341), or
\* a worker is cancelled while it waits.  What LockComesBack says of fair
\* schedules, in numbers, and sharper: stopping alone loses no mutex.
THEOREM MutexGivenBack == Spec => []MutexHeld /\ HoldSteps
<1>1. Init => MutexHeld
  BY DEF Init, MutexHeld
<1>2. IInv /\ MutexHeld /\ [Next]_vars
        => MutexHeld' /\ [db # None =>
             /\ db' \in {db, None} /\ HoldLeft' <= HoldLeft
             /\ (publishing /\ cam \in Holding) \/ (\E c \in Users : copying(c))
                    => HoldLeft' < HoldLeft]_vars
  <2> SUFFICES ASSUME IInv, MutexHeld, [Next]_vars
               PROVE  MutexHeld' /\ [db # None =>
             /\ db' \in {db, None} /\ HoldLeft' <= HoldLeft
             /\ (publishing /\ cam \in Holding) \/ (\E c \in Users : copying(c))
                    => HoldLeft' < HoldLeft]_vars
    OBVIOUS
  <2>1. CASE UNCHANGED vars
    <3>1. UNCHANGED <<db, cam, input, pc, phase>>
      BY <2>1 DEF vars, input_vars
    <3>2. MutexHeld'
      BY <3>1 DEF MutexHeld, Copying
    <3> QED
      BY <2>1, <3>2
  <2>2. db # None /\ publishing /\ cam \in Holding => HoldLeft' < HoldLeft
    BY InputHolds
  <2>3. \A c \in Users : db # None /\ copying(c) => HoldLeft' < HoldLeft
    BY UsersHold
  <2>4. CASE Grab \/ EndLoop \/ Lock \/ publishing
    BY <2>2, <2>3, <2>4, InputHolds
  <2>5. ASSUME NEW c \in Users,
               \/ Stop \/ Connect(c) \/ Begin(c) \/ LockAndWait(c) \/ WakeSpuriously(c)
               \/ TakeMutex(c) \/ copying(c) \/ Crash(c) \/ Sent(c) \/ SendFails(c) \/ Cancel(c)
        PROVE  MutexHeld' /\ (db # None => db' \in {db, None} /\ HoldLeft' <= HoldLeft)
    BY <2>5, UsersHold
  <2>6. Recorder \in Users
    BY UsersAssumption DEF Users
  <2> QED
    BY <2>1, <2>2, <2>3, <2>4, <2>5, <2>6 DEF Next
<1>3. QED
  BY <1>1, <1>2, Holds, PTL DEF Spec, HoldSteps

----------------------------------------------------------------------------
(* A waiting thread gets its frame *)

Waiting == {"wait", "woken", "size", "data"}

\* The steps until a thread at p has its copy, with the input thread at k: the
\* input's up to its broadcast, then the thread's own.
WaitLeftAt(p, k) ==
    CASE p = "wait" /\ k = "run" -> 8 [] p = "wait" /\ k = "lock" -> 7
      [] p = "wait" /\ k = "data" -> 6 [] p = "wait" /\ k = "size" -> 5
      [] p = "wait" /\ k = "broadcast" -> 4
      [] p = "woken" -> 3 [] p = "size" -> 2 [] p = "data" -> 1 [] OTHER -> 0

WaitLeft(c) == WaitLeftAt(pc[c], cam)

\* Nobody waits who has just missed the broadcast.
WaitsForBroadcast ==
    \A c \in Users : pc[c] = "wait" => cam # "unlock"

\* As long as the input goes on, each of its steps brings the frame nearer to
\* every thread that waits, each step of a thread that was woken its copy, and
\* no step of anybody takes it back.
WaitSteps ==
    [][cam \notin Ending /\ cam' \notin Ending =>
         \A c \in Users : pc[c] \in Waiting =>
            /\ pc'[c] \in Waiting \cup {"send", "done"}
            /\ WaitLeft(c) \in 1..8 /\ WaitLeft(c)' <= WaitLeft(c)
            /\ pc[c] = "wait" /\ (Grab \/ Lock \/ publishing)
                  => WaitLeft(c)' < WaitLeft(c)
            /\ TakeMutex(c) \/ copying(c) => WaitLeft(c)' < WaitLeft(c)]_vars

\* The steps of the input, of the thread itself, and those that do not concern it.
CamMoves(p, k, p2, k2) ==
    \/ p2 = p /\ <<k, k2>> \in {<<"run", "lock">>, <<"lock", "data">>, <<"data", "size">>,
                               <<"size", "broadcast">>, <<"unlock", "run">>}
    \/ k = "broadcast" /\ k2 = "unlock" /\ p2 = IF p = "wait" THEN "woken" ELSE p

OwnMoves(p, k, p2, k2) ==
    k2 = k /\ <<p, p2>> \in {<<"wait", "woken">>, <<"woken", "size">>, <<"size", "data">>,
                            <<"size", "done">>, <<"data", "send">>}

LEMMA WaitTable ==
    ASSUME NEW p \in Waiting, NEW k, NEW p2, NEW k2, p = "wait" => k # "unlock",
           k \in {"run", "lock", "data", "size", "broadcast", "unlock"}
    PROVE  /\ WaitLeftAt(p, k) \in 1..8
           /\ CamMoves(p, k, p2, k2)
                => /\ p2 \in Waiting /\ WaitLeftAt(p2, k2) <= WaitLeftAt(p, k)
                   /\ p = "wait" => WaitLeftAt(p2, k2) < WaitLeftAt(p, k)
           /\ OwnMoves(p, k, p2, k2)
                => /\ p2 \in Waiting \cup {"send", "done"}
                   /\ WaitLeftAt(p2, k2) < WaitLeftAt(p, k)
           /\ k2 = k /\ p2 \in {p, "done"}
                => /\ p2 \in Waiting \cup {"done"}
                   /\ WaitLeftAt(p2, k2) <= WaitLeftAt(p, k)
<1>1. CASE p = "wait"
  BY <1>1 DEF Waiting, WaitLeftAt, CamMoves, OwnMoves
<1>2. CASE p # "wait"
  BY <1>2 DEF Waiting, WaitLeftAt, CamMoves, OwnMoves
<1> QED
  BY <1>1, <1>2

\* The input's steps, for a thread.
LEMMA InputMoves ==
    ASSUME TypeOK, NEW c \in Users, cam \notin Ending, cam' \notin Ending,
           Grab \/ EndLoop \/ Lock \/ publishing
    PROVE  CamMoves(pc[c], cam, pc'[c], cam') /\ ~TakeMutex(c) /\ ~copying(c)
<1>1. Grab \/ Lock \/ WriteData \/ WriteSize \/ Unlock \/ Broadcast
  <2>1. ~EndLoop /\ ~NoMemory /\ ~ReadFails /\ ~FreeBuffer /\ ~ClearSize
    BY DEF EndLoop, NoMemory, ReadFails, FreeBuffer, ClearSize, CamAt, Ending
  <2> QED
    BY <2>1 DEF publishing
<1>2. cam' # cam
  BY <1>1 DEF Grab, Lock, WriteData, WriteSize, Unlock, Broadcast, CamAt
<1>3. ~TakeMutex(c) /\ ~copying(c)
  BY <1>2 DEF TakeMutex, copying, ReadSize, NoMemoryFor, RefuseMemory, CopyData, input_vars
<1>4. CASE Broadcast
  BY <1>3, <1>4 DEF Broadcast, CamAt, CamMoves, TypeOK
<1>5. CASE Grab \/ Lock \/ WriteData \/ WriteSize \/ Unlock
  <2>1. /\ pc' = pc
        /\ <<cam, cam'>> \in {<<"run", "lock">>, <<"lock", "data">>, <<"data", "size">>,
                             <<"size", "broadcast">>, <<"unlock", "run">>}
    BY <1>5 DEF Grab, Lock, WriteData, WriteSize, Unlock, CamAt
  <2> QED
    BY <1>3, <2>1 DEF CamMoves
<1> QED
  BY <1>1, <1>4, <1>5

\* The steps of a thread, for it and for another one.
LEMMA UserMoves ==
    ASSUME TypeOK, NEW c \in Users, NEW u \in Users, pc[c] \in Waiting,
           \/ Stop \/ Connect(u) \/ Begin(u) \/ LockAndWait(u) \/ WakeSpuriously(u)
           \/ TakeMutex(u) \/ copying(u) \/ Crash(u) \/ Sent(u) \/ SendFails(u) \/ Cancel(u)
    PROVE  /\ cam' = cam
           /\ pc'[c] \in {pc[c], "done"} \/ OwnMoves(pc[c], cam, pc'[c], cam')
           /\ TakeMutex(c) \/ copying(c) => OwnMoves(pc[c], cam, pc'[c], cam')
<1>1. pc \in [Users -> {"idle", "lock", "wait", "woken", "size", "data", "send", "done"}]
  BY DEF TypeOK
<1>2. cam' = cam
  BY DEF Stop, Connect, Begin, LockAndWait, WakeSpuriously, TakeMutex, copying, ReadSize,
         NoMemoryFor, RefuseMemory, CopyData, Crash, Sent, SendFails, Cancel, input_vars
<1>3. TakeMutex(c) \/ copying(c) => OwnMoves(pc[c], cam, pc'[c], cam')
  BY <1>1, <1>2 DEF TakeMutex, copying, ReadSize, NoMemoryFor, RefuseMemory,
     CopyData, At, OwnMoves, Waiting
<1>4. CASE Stop \/ Crash(u)
  BY <1>2, <1>3, <1>4 DEF Stop, Crash
<1>5. CASE ~Stop /\ ~Crash(u)
  <2>1. \E l : pc' = [pc EXCEPT ![u] = l]
    BY <1>5 DEF Connect, Begin, LockAndWait, WakeSpuriously, TakeMutex, copying, ReadSize,
                NoMemoryFor, RefuseMemory, CopyData, Sent, SendFails, Cancel, At
  <2>2. CASE u # c
    BY <1>1, <1>2, <1>3, <2>1, <2>2
  <2>3. CASE u = c
    <3>1. CASE TakeMutex(c) \/ copying(c)
      BY <1>2, <1>3, <3>1
    <3>2. CASE WakeSpuriously(c)
      BY <1>1, <1>2, <1>3, <3>2 DEF WakeSpuriously, At, OwnMoves
    <3>3. CASE Cancel(c)
      BY <1>1, <1>2, <1>3, <3>3 DEF Cancel
    <3>4. ~(Connect(c) \/ Begin(c) \/ LockAndWait(c) \/ Sent(c) \/ SendFails(c))
      BY DEF Connect, Begin, LockAndWait, Sent, SendFails, At, Waiting
    <3> QED
      BY <1>5, <2>3, <3>1, <3>2, <3>3, <3>4
  <2> QED
    BY <2>2, <2>3
<1> QED
  BY <1>4, <1>5

LEMMA WaitsStep ==
    ASSUME IInv, WaitsForBroadcast, [Next]_vars
    PROVE  WaitsForBroadcast'
<1> SUFFICES ASSUME NEW c \in Users, pc'[c] = "wait", cam' = "unlock"
             PROVE  FALSE
  BY DEF WaitsForBroadcast
<1>1. pc \in [Users -> {"idle", "lock", "wait", "woken", "size", "data", "send", "done"}]
  BY DEF IInv, TypeOK
<1>2. CASE cam # "unlock"
  <2>1. Broadcast
    BY <1>2 DEF Next, Grab, EndLoop, Lock, publishing, WriteData, NoMemory, ReadFails, WriteSize,
                Unlock, FreeBuffer, ClearSize, CamAt, Stop, Connect, Begin, LockAndWait,
                WakeSpuriously, TakeMutex, copying, ReadSize, NoMemoryFor, RefuseMemory,
                CopyData, Crash, Sent, SendFails, Cancel, input_vars, vars
  <2> QED
    BY <2>1 DEF Broadcast
<1>3. CASE cam = "unlock"
  <2>1. pc[c] # "wait" /\ db = Cam /\ Cam # None
    BY <1>3, UsersAssumption DEF WaitsForBroadcast, IInv, Exclusive, Holding
  <2>2. \A u \in Users : ~LockAndWait(u)
    BY <2>1 DEF LockAndWait
  <2>3. CASE Grab \/ EndLoop \/ Lock \/ publishing \/ Stop \/ UNCHANGED vars
                 \/ \E u \in Users : Crash(u)
    <3>1. pc' = pc \/ Broadcast
      BY <2>3 DEF Grab, EndLoop, Lock, publishing, WriteData, NoMemory, ReadFails, WriteSize,
                  Unlock, FreeBuffer, ClearSize, Stop, Crash, vars
    <3> QED
      BY <2>1, <3>1 DEF Broadcast
  <2>4. ASSUME NEW u \in Users,
               \/ Connect(u) \/ Begin(u) \/ WakeSpuriously(u)
               \/ TakeMutex(u) \/ copying(u) \/ Sent(u) \/ SendFails(u) \/ Cancel(u)
        PROVE  FALSE
    <3>1. \E l \in {"idle", "lock", "woken", "size", "data", "send", "done"} :
              pc' = [pc EXCEPT ![u] = l]
      BY <2>4 DEF Connect, Begin, WakeSpuriously, TakeMutex, copying, ReadSize, NoMemoryFor,
                  RefuseMemory, CopyData, Sent, SendFails, Cancel, At
    <3> QED
      BY <1>1, <2>1, <3>1
  <2> QED
    BY <2>2, <2>3, <2>4 DEF Next
<1> QED
  BY <1>2, <1>3

\* httpd.c:409 and the other loops: a thread that waits cannot have missed the
\* broadcast of the frame that is being published, and has its copy after at
\* most five steps of the input thread and three of its own, unless the input
\* ends: what WaitersServed says of fair schedules, in numbers.
THEOREM WaitBounded == Spec => []WaitsForBroadcast /\ WaitSteps
<1>1. Init => WaitsForBroadcast
  BY DEF Init, WaitsForBroadcast
<1>2. IInv /\ WaitsForBroadcast /\ [Next]_vars
        => [cam \notin Ending /\ cam' \notin Ending =>
         \A c \in Users : pc[c] \in Waiting =>
            /\ pc'[c] \in Waiting \cup {"send", "done"}
            /\ WaitLeft(c) \in 1..8 /\ WaitLeft(c)' <= WaitLeft(c)
            /\ pc[c] = "wait" /\ (Grab \/ Lock \/ publishing)
                  => WaitLeft(c)' < WaitLeft(c)
            /\ TakeMutex(c) \/ copying(c) => WaitLeft(c)' < WaitLeft(c)]_vars
  <2> SUFFICES ASSUME IInv, WaitsForBroadcast, Next, cam \notin Ending, cam' \notin Ending,
                      NEW c \in Users, pc[c] \in Waiting
               PROVE  /\ pc'[c] \in Waiting \cup {"send", "done"}
                      /\ WaitLeft(c) \in 1..8 /\ WaitLeft(c)' <= WaitLeft(c)
                      /\ pc[c] = "wait" /\ (Grab \/ Lock \/ publishing)
                            => WaitLeft(c)' < WaitLeft(c)
                      /\ TakeMutex(c) \/ copying(c) => WaitLeft(c)' < WaitLeft(c)
    OBVIOUS
  <2> DEFINE left == WaitLeftAt(pc[c], cam)
             left2 == WaitLeftAt(pc'[c], cam')
  <2>1. WaitLeft(c) = left /\ WaitLeft(c)' = left2
    BY DEF WaitLeft
  <2>2. /\ pc[c] = "wait" => cam # "unlock"
        /\ cam \in {"run", "lock", "data", "size", "broadcast", "unlock"}
    BY DEF WaitsForBroadcast, IInv, TypeOK, Ending
  <2>3. left \in 1..8
    BY <2>2, WaitTable, Zenon
  <2>4. CASE CamMoves(pc[c], cam, pc'[c], cam') /\ ~TakeMutex(c) /\ ~copying(c)
    <3>1. pc'[c] \in Waiting /\ left2 <= left /\ (pc[c] = "wait" => left2 < left)
      BY <2>2, <2>4, WaitTable, Zenon
    <3> HIDE DEF left, left2
    <3> QED
      BY <2>1, <2>3, <2>4, <3>1
  <2>5. CASE OwnMoves(pc[c], cam, pc'[c], cam')
    <3>1. pc'[c] \in Waiting \cup {"send", "done"} /\ left2 < left
      BY <2>2, <2>5, WaitTable, Zenon
    <3>2. left2 <= left
      <4>1. \A p, k : WaitLeftAt(p, k) \in Int
        BY DEF WaitLeftAt
      <4>2. left2 \in Int
        BY <4>1
      <4> HIDE DEF left, left2
      <4> QED
        BY <2>3, <3>1, <4>2
    <3> HIDE DEF left, left2
    <3> QED
      BY <2>1, <2>3, <3>1, <3>2
  <2>6. CASE /\ cam' = cam /\ pc'[c] \in {pc[c], "done"}
             /\ ~TakeMutex(c) /\ ~copying(c) /\ ~Grab /\ ~Lock /\ ~publishing
    <3>1. pc'[c] \in Waiting \cup {"done"} /\ left2 <= left
      BY <2>2, <2>6, WaitTable, Zenon
    <3> HIDE DEF left, left2
    <3> QED
      BY <2>1, <2>3, <2>6, <3>1
  <2>7. ASSUME Grab \/ EndLoop \/ Lock \/ publishing
        PROVE  CamMoves(pc[c], cam, pc'[c], cam') /\ ~TakeMutex(c) /\ ~copying(c)
    BY <2>7, InputMoves DEF IInv
  <2>8. ASSUME NEW u \in Users,
               \/ Stop \/ Connect(u) \/ Begin(u) \/ LockAndWait(u) \/ WakeSpuriously(u)
               \/ TakeMutex(u) \/ copying(u) \/ Crash(u) \/ Sent(u) \/ SendFails(u) \/ Cancel(u)
        PROVE  /\ cam' = cam
               /\ pc'[c] \in {pc[c], "done"} \/ OwnMoves(pc[c], cam, pc'[c], cam')
               /\ TakeMutex(c) \/ copying(c) => OwnMoves(pc[c], cam, pc'[c], cam')
    BY <2>8, UserMoves DEF IInv
  <2>9. CASE Grab \/ EndLoop \/ Lock \/ publishing
    BY <2>4, <2>7, <2>9
  <2>10. CASE ~(Grab \/ EndLoop \/ Lock \/ publishing)
    <3>1. Recorder \in Users
      BY UsersAssumption DEF Users
    <3>2. PICK u \in Users :
               \/ Stop \/ Connect(u) \/ Begin(u) \/ LockAndWait(u) \/ WakeSpuriously(u)
               \/ TakeMutex(u) \/ copying(u) \/ Crash(u) \/ Sent(u) \/ SendFails(u) \/ Cancel(u)
      BY <2>10, <3>1 DEF Next
    <3> QED
      BY <2>5, <2>6, <2>8, <2>10, <3>2
  <2> QED
    BY <2>9, <2>10
<1> QED
  BY <1>1, <1>2, WaitsStep, Holds, PTL DEF Spec, WaitSteps
============================================================================
