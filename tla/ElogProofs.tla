---------------------------- MODULE ElogProofs ----------------------------
(***************************************************************************)
(* What the logger guarantees for any number of threads, lines of any      *)
(* length and buffers of any size.                                         *)
(***************************************************************************)
EXTENDS Elog, SequenceTheorems, TLAPS

\* The flags say what the indices cannot: whether meeting indices mean a full
\* or an empty buffer.
RingOK ==
    /\ buf_is_full => write_index = read_index /\ ~buf_is_empty
    /\ buf_is_empty => write_index = read_index
    /\ write_index = read_index => buf_is_full \/ buf_is_empty

\* Only the holder of the mutex is in the middle of a line.
HolderOK ==
    \A t \in Threads :
        pc[t] \in {"head", "message", "output", "notice", "unlock"} => output_lock = t

\* The buffer of elog.c holds the line of the thread that is in the middle of it.
LineOK ==
    \A t \in Threads :
        /\ pc[t] = "message" => line = SubSeq(LineOf(t), 1, job[t].head)
        /\ pc[t] = "output" => line = LineOf(t)

IInv == TypeOK /\ RingOK /\ HolderOK /\ LineOK /\ NoLostWakeup

----------------------------------------------------------------------------
(* Lengths *)

\* A line has room for its end signs, and the static buffer has room for it.
LEMMA LineLengthBounded ==
    ASSUME NEW j \in Jobs
    PROVE  /\ LineLength(j) \in 1..LineBuf
           /\ j.head \in 0..LineLength(j)
<1>1. j.head \in 0..LineBuf /\ j.message \in Nat
  BY LengthsAssumption DEF Jobs
<1> QED
  BY <1>1, LengthsAssumption DEF LineLength

\* A line is a sequence of bytes of its thread.
LEMMA LineIsSequence ==
    ASSUME NEW t \in Threads, NEW n \in 1..LineBuf
    PROVE  Line(t, n) \in Seq(Bytes) /\ Len(Line(t, n)) = n
<1>0. n \in Nat
  BY LengthsAssumption
<1>1. \A i \in 1..n : <<t, i>> \in Bytes
  BY LengthsAssumption DEF Bytes
<1>2. Line(t, n) \in [1..n -> Bytes]
  BY <1>1 DEF Line
<1> QED
  BY <1>0, <1>2

\* A sequence that agrees with one, then with another, is the two together.
LEMMA ConcatIs ==
    ASSUME NEW S, NEW a \in Seq(S), NEW b \in Seq(S), NEW c \in Seq(S),
           Len(c) = Len(a) + Len(b),
           \A i \in 1..Len(a) : c[i] = a[i],
           \A i \in 1..Len(b) : c[Len(a) + i] = b[i]
    PROVE  c = a \o b
<1>1. a \o b \in Seq(S) /\ Len(a \o b) = Len(c)
  BY ConcatProperties
<1>2. \A i \in 1..Len(c) : c[i] = (a \o b)[i]
  <2> TAKE i \in 1..Len(c)
  <2>0. Len(a) \in Nat /\ Len(b) \in Nat
    OBVIOUS
  <2>1. (a \o b)[i] = IF i <= Len(a) THEN a[i] ELSE b[i - Len(a)]
    BY ConcatProperties
  <2>2. CASE i <= Len(a)
    BY <2>0, <2>1, <2>2
  <2>3. CASE i > Len(a)
    <3>1. i - Len(a) \in 1..Len(b) /\ Len(a) + (i - Len(a)) = i
      BY <2>0, <2>3
    <3>2. c[Len(a) + (i - Len(a))] = b[i - Len(a)]
      BY <3>1
    <3> QED
      BY <2>0, <2>1, <2>3, <3>1, <3>2
  <2> QED
    BY <2>0, <2>2, <2>3
<1> QED
  BY <1>1, <1>2, SeqEqual

\* The bytes used and the place that follows them.
LEMMA UsedBounded ==
    ASSUME TypeOK, RingOK
    PROVE  /\ elog_async_get_buf_used \in 0..BufSize
           /\ elog_async_get_buf_used < BufSize =>
                write_index = After(read_index, elog_async_get_buf_used)
           /\ elog_async_get_buf_used = BufSize => write_index = read_index
           /\ elog_async_get_buf_used = BufSize <=> buf_is_full
           /\ elog_async_get_buf_used = 0 <=> buf_is_empty
<1>1. BufSize \in Nat \ {0} /\ write_index \in 0..BufSize-1 /\ read_index \in 0..BufSize-1
  BY SizesAssumption DEF TypeOK, Places
<1>2. buf_is_full \in BOOLEAN /\ buf_is_empty \in BOOLEAN
  BY DEF TypeOK
<1> QED
  BY <1>1, <1>2 DEF RingOK, elog_async_get_buf_used, After

\* The distance of two places that are m apart round the buffer.
LEMMA Distance ==
    ASSUME NEW b \in Nat, NEW w \in 0..b-1, NEW r \in 0..b-1, NEW m \in 1..b-1,
           w = IF r + m < b THEN r + m ELSE r + m - b
    PROVE  (IF w > r THEN w - r ELSE b - (r - w)) = m
  OBVIOUS

----------------------------------------------------------------------------
(* The two operations of the ring buffer *)

\* async_put_log lengthens what is used by what it puts, leaves what was used
\* alone and adds the first bytes of the line behind it.
LEMMA PutAppends ==
    ASSUME TypeOK, RingOK, NEW log \in Seq(Bytes), Len(log) > 0,
           async_get_buf_space > 0, async_put_log(log, PutSize(Len(log)))
    PROVE  LET u == elog_async_get_buf_used
               n == PutSize(Len(log))
           IN  /\ n \in 1..Len(log) /\ n <= BufSize - u
               /\ ring' \in [Places -> Bytes \cup {0}]
               /\ write_index' \in Places /\ RingOK'
               /\ elog_async_get_buf_used' = u + n
               /\ \A i \in 1..u :
                    ring'[After(read_index, i - 1)] = ring[After(read_index, i - 1)]
               /\ \A i \in u+1..u+n :
                    ring'[After(read_index, i - 1)] = log[i - u]
<1> DEFINE u == elog_async_get_buf_used
           n == PutSize(Len(log))
<1>1. BufSize \in Nat \ {0} /\ write_index \in 0..BufSize-1 /\ read_index \in 0..BufSize-1
  BY SizesAssumption DEF TypeOK, Places
<1>2. buf_is_full \in BOOLEAN /\ buf_is_empty \in BOOLEAN
  BY DEF TypeOK
<1>3. /\ u \in 0..BufSize /\ u < BufSize
      /\ write_index = After(read_index, u)
      /\ ~buf_is_full
  BY UsedBounded, <1>1 DEF async_get_buf_space
<1>4. Len(log) \in Nat
  OBVIOUS
<1>5. n \in 1..Len(log) /\ n <= BufSize - u /\ n \in Nat
  BY <1>1, <1>3, <1>4 DEF PutSize, async_get_buf_space
<1>6. /\ write_index' = After(write_index, n) /\ read_index' = read_index
      /\ buf_is_full' = (BufSize - u <= Len(log)) /\ buf_is_empty' = FALSE
  BY <1>3 DEF async_put_log, async_get_buf_space
<1>7. write_index' \in 0..BufSize-1
  BY <1>1, <1>3, <1>5, <1>6 DEF After
<1>8. (BufSize - u <= Len(log)) <=> (n = BufSize - u)
  BY <1>1, <1>3, <1>4 DEF PutSize, async_get_buf_space
<1>9. RingOK' /\ elog_async_get_buf_used' = u + n
  <2>1. write_index' = After(After(read_index, u), n)
    BY <1>3, <1>6
  <2>2. (write_index' = read_index) <=> (n = BufSize - u)
    BY <2>1, <1>1, <1>3, <1>5 DEF After
  <2>3. RingOK'
    BY <2>2, <1>6, <1>8 DEF RingOK
  <2>4. CASE n = BufSize - u
    <3>1. elog_async_get_buf_used' = BufSize
      BY <2>4, <2>2, <1>1, <1>6, <1>8 DEF elog_async_get_buf_used
    <3> QED
      BY <3>1, <2>3, <2>4, <1>1, <1>3
  <2>5. CASE n # BufSize - u
    <3>1. write_index' # read_index /\ ~buf_is_full' /\ ~buf_is_empty'
      BY <2>5, <2>2, <1>6, <1>8
    <3>2. elog_async_get_buf_used' =
            IF write_index' > read_index THEN write_index' - read_index
            ELSE BufSize - (read_index - write_index')
      BY <3>1, <1>6 DEF elog_async_get_buf_used
    <3>3. write_index' \in 0..BufSize-1
      BY <1>7
    <3>4. write_index' = IF read_index + (u + n) < BufSize THEN read_index + (u + n)
                         ELSE read_index + (u + n) - BufSize
      BY <2>1, <2>5, <1>1, <1>3, <1>5 DEF After
    <3>5. u + n \in 1..BufSize-1
      BY <2>5, <1>1, <1>3, <1>5
    <3>6. elog_async_get_buf_used' = u + n
      BY <3>2, <3>3, <3>4, <3>5, <1>1, Distance
    <3> QED
      BY <3>6, <2>3
  <2> QED
    BY <2>3, <2>4, <2>5
<1>10. ring' = [k \in Places |->
                 IF Behind(k, write_index) < n THEN log[Behind(k, write_index) + 1]
                 ELSE ring[k]]
  BY DEF async_put_log
<1>11. \A k \in Places : Behind(k, write_index) \in Nat
  BY <1>1 DEF Behind, Places
<1>12. ring' \in [Places -> Bytes \cup {0}]
  <2>1. \A k \in Places : Behind(k, write_index) < n =>
           log[Behind(k, write_index) + 1] \in Bytes
    <3> TAKE k \in Places
    <3> HAVE Behind(k, write_index) < n
    <3>1. Behind(k, write_index) + 1 \in 1..Len(log)
      BY <1>4, <1>5, <1>11
    <3> QED
      BY <3>1, ElementOfSeq
  <2>2. \A k \in Places : ring[k] \in Bytes \cup {0}
    BY DEF TypeOK
  <2> QED
    BY <1>10, <2>1, <2>2
<1>13. \A i \in 1..u :
          ring'[After(read_index, i - 1)] = ring[After(read_index, i - 1)]
  <2> TAKE i \in 1..u
  <2>1. After(read_index, i - 1) \in Places
    BY <1>1, <1>3 DEF After, Places
  <2>2. ~(Behind(After(read_index, i - 1), write_index) < n)
    BY <1>1, <1>3, <1>5 DEF After, Behind
  <2> QED
    BY <2>1, <2>2, <1>10
<1>14. \A i \in u+1..u+n : ring'[After(read_index, i - 1)] = log[i - u]
  <2> TAKE i \in u+1..u+n
  <2>1. After(read_index, i - 1) \in Places
    BY <1>1, <1>3, <1>5 DEF After, Places
  <2>2. Behind(After(read_index, i - 1), write_index) = i - 1 - u
    BY <1>1, <1>3, <1>5 DEF After, Behind
  <2>3. i - 1 - u < n /\ (i - 1 - u) + 1 = i - u
    BY <1>3, <1>5
  <2> QED
    BY <2>1, <2>2, <2>3, <1>10
<1> QED
  BY <1>5, <1>7, <1>9, <1>12, <1>13, <1>14 DEF Places

\* elog_async_get_log takes the oldest bytes and leaves the others in place.
LEMMA GetTakesOldest ==
    ASSUME TypeOK, RingOK, elog_async_get_log
    PROVE  LET u == elog_async_get_buf_used
           IN  \E n \in 1..u :
               /\ chunk' = [i \in 1..n |-> ring[After(read_index, i - 1)]]
               /\ read_index' \in Places /\ RingOK'
               /\ elog_async_get_buf_used' = u - n
               /\ \A i \in 1..u-n :
                    After(read_index', i - 1) = After(read_index, n + i - 1)
<1> DEFINE u == elog_async_get_buf_used
           n == IF u <= PollSize THEN u ELSE PollSize
<1>1. /\ BufSize \in Nat \ {0} /\ write_index \in 0..BufSize-1
      /\ read_index \in 0..BufSize-1 /\ PollSize \in Nat \ {0}
  BY SizesAssumption DEF TypeOK, Places
<1>2. buf_is_full \in BOOLEAN /\ buf_is_empty \in BOOLEAN
  BY DEF TypeOK
<1>3. /\ u \in 1..BufSize
      /\ u < BufSize => write_index = After(read_index, u)
      /\ u = BufSize => write_index = read_index
      /\ ~buf_is_empty
  BY UsedBounded, <1>1 DEF elog_async_get_log
<1>4. n \in 1..u /\ ((u <= PollSize) <=> (n = u))
  BY <1>1, <1>3
<1>5. /\ chunk' = [i \in 1..n |-> ring[After(read_index, i - 1)]]
      /\ read_index' = After(read_index, n) /\ write_index' = write_index
      /\ buf_is_empty' = (n = u) /\ buf_is_full' = FALSE
  BY <1>3, <1>4 DEF elog_async_get_log
<1>6. read_index' \in 0..BufSize-1
  BY <1>1, <1>3, <1>4, <1>5 DEF After
<1>7. (write_index' = read_index') <=> (n = u)
  BY <1>1, <1>3, <1>4, <1>5 DEF After
<1>8. RingOK'
  BY <1>5, <1>7 DEF RingOK
<1>9. elog_async_get_buf_used' = u - n
  <2>1. CASE n = u
    <3>0. buf_is_empty' /\ ~buf_is_full'
      BY <2>1, <1>5, <1>7
    <3>1. ~(write_index' > read_index')
      BY <2>1, <1>1, <1>6, <1>7
    <3>2. elog_async_get_buf_used' = 0
      BY <3>0, <3>1 DEF elog_async_get_buf_used
    <3> QED
      BY <3>2, <2>1, <1>3
  <2>2. CASE n # u
    <3>1. elog_async_get_buf_used' =
            IF write_index > read_index' THEN write_index - read_index'
            ELSE BufSize - (read_index' - write_index)
      BY <2>2, <1>5, <1>7 DEF elog_async_get_buf_used
    <3>2. write_index = IF read_index' + (u - n) < BufSize THEN read_index' + (u - n)
                        ELSE read_index' + (u - n) - BufSize
      BY <2>2, <1>1, <1>3, <1>4, <1>5 DEF After
    <3>3. u - n \in 1..BufSize-1
      BY <2>2, <1>1, <1>3, <1>4
    <3> QED
      BY <3>1, <3>2, <3>3, <1>1, <1>6, Distance
  <2> QED
    BY <2>1, <2>2
<1>10. \A i \in 1..u-n :
          After(read_index', i - 1) = After(read_index, n + i - 1)
  BY <1>1, <1>3, <1>4, <1>5 DEF After
<1> QED
  BY <1>4, <1>5, <1>6, <1>8, <1>9, <1>10 DEF Places

----------------------------------------------------------------------------
(* The invariant *)

\* What a step that leaves the ring buffer alone leaves true.
LEMMA BufferKept ==
    ASSUME UNCHANGED buffer
    PROVE  /\ RingOK => RingOK'
           /\ elog_async_get_buf_used' = elog_async_get_buf_used
           /\ ring' = ring /\ read_index' = read_index
BY DEF buffer, RingOK, elog_async_get_buf_used

\* The line a thread hands over is not empty.
LEMMA OwnLine ==
    ASSUME TypeOK, NEW t \in Threads
    PROVE  /\ LineLength(job[t]) \in 1..LineBuf /\ job[t].head \in 0..LineLength(job[t])
           /\ LineOf(t) \in Seq(Bytes) /\ Len(LineOf(t)) = LineLength(job[t])
<1>1. job[t] \in Jobs
  BY DEF TypeOK
<1> QED
  BY <1>1, LineLengthBounded, LineIsSequence DEF LineOf

\* Every step of the specification preserves the inductive invariant.
LEMMA Inductive == IInv /\ [Next]_vars => IInv'
<1> SUFFICES ASSUME IInv, [Next]_vars PROVE IInv'
  OBVIOUS
<1> USE DEF IInv
<1>0. \A t \in Threads : t # None
  BY ThreadsAssumption
<1>1. ASSUME NEW t \in Threads, elog_output(t) PROVE IInv'
  <2>1. PICK j \in Jobs : job' = [job EXCEPT ![t] = j]
    BY <1>1 DEF elog_output
  <2>2. /\ pc[t] = "idle" /\ pc' = [pc EXCEPT ![t] = "filter"]
        /\ UNCHANGED <<output_lock, line, buffer, notice, apc, chunk>>
    BY <1>1 DEF elog_output, Goto
  <2>3. TypeOK'
    BY <2>1, <2>2 DEF TypeOK, buffer
  <2>4. HolderOK'
    BY <2>2 DEF HolderOK, TypeOK
  <2>5. LineOK'
    <3> SUFFICES ASSUME NEW s \in Threads, pc'[s] \in {"message", "output"}
                 PROVE  s # t /\ pc'[s] = pc[s] /\ job'[s] = job[s] /\ line' = line
      BY DEF LineOK, LineOf
    <3> QED
      BY <2>1, <2>2 DEF TypeOK
  <2>6. NoLostWakeup'
    BY <2>2, BufferKept DEF NoLostWakeup, TypeOK
  <2> QED
    BY <2>2, <2>3, <2>4, <2>5, <2>6, BufferKept
<1>2. ASSUME NEW t \in Threads, elog_get_filter_tag_lvl(t) PROVE IInv'
  <2>2. /\ pc[t] = "filter" /\ pc' = [pc EXCEPT ![t] = "lock"]
        /\ UNCHANGED <<job, output_lock, line, buffer, notice, apc, chunk>>
    BY <1>2 DEF elog_get_filter_tag_lvl, Goto
  <2>3. TypeOK'
    BY <2>2 DEF TypeOK, buffer
  <2>4. HolderOK'
    BY <2>2 DEF HolderOK, TypeOK
  <2>5. LineOK'
    BY <2>2 DEF LineOK, LineOf, TypeOK
  <2>6. NoLostWakeup'
    BY <2>2, BufferKept DEF NoLostWakeup, TypeOK
  <2> QED
    BY <2>2, <2>3, <2>4, <2>5, <2>6, BufferKept
<1>3. ASSUME NEW t \in Threads, elog_output_lock(t) PROVE IInv'
  <2>2. /\ pc[t] = "lock" /\ pc' = [pc EXCEPT ![t] = "head"]
        /\ output_lock = None /\ output_lock' = t
        /\ UNCHANGED <<job, line, buffer, notice, apc, chunk>>
    BY <1>3 DEF elog_output_lock, Goto
  <2>3. TypeOK'
    BY <2>2 DEF TypeOK, buffer
  <2>4. HolderOK'
    BY <2>2, <1>0 DEF HolderOK, TypeOK
  <2>5. LineOK'
    BY <2>2 DEF LineOK, LineOf, TypeOK
  <2>6. NoLostWakeup'
    BY <2>2, BufferKept DEF NoLostWakeup, TypeOK
  <2> QED
    BY <2>2, <2>3, <2>4, <2>5, <2>6, BufferKept
<1>4. ASSUME NEW t \in Threads, package_head(t) PROVE IInv'
  <2>2. /\ pc[t] = "head" /\ pc' = [pc EXCEPT ![t] = "message"]
        /\ line' = SubSeq(LineOf(t), 1, job[t].head)
        /\ UNCHANGED <<job, output_lock, buffer, notice, apc, chunk>>
    BY <1>4 DEF package_head, Goto
  <2>1. line' \in Seq(Bytes)
    <3>1. job[t].head \in Int /\ 1 \in Int
      BY OwnLine, LengthsAssumption
    <3>2. \A i \in 1..job[t].head : LineOf(t)[i] \in Bytes
      BY OwnLine, LengthsAssumption, ElementOfSeq
    <3> QED
      BY <2>2, <3>1, <3>2, SubSeqProperties
  <2>3. TypeOK'
    BY <2>1, <2>2 DEF TypeOK, buffer
  <2>4. HolderOK'
    BY <2>2 DEF HolderOK, TypeOK
  <2>5. LineOK'
    <3>1. \A s \in Threads : s # t => pc[s] \notin {"message", "output"}
      BY <2>2 DEF HolderOK
    <3> QED
      BY <2>2, <3>1 DEF LineOK, LineOf, TypeOK
  <2>6. NoLostWakeup'
    BY <2>2, BufferKept DEF NoLostWakeup, TypeOK
  <2> QED
    BY <2>2, <2>3, <2>4, <2>5, <2>6, BufferKept
<1>5. ASSUME NEW t \in Threads, package_message(t) PROVE IInv'
  <2>2. /\ pc[t] = "message" /\ pc' = [pc EXCEPT ![t] = "output"]
        /\ line' = SubSeq(line, 1, job[t].head)
                     \o SubSeq(LineOf(t), job[t].head + 1, LineLength(job[t]))
        /\ UNCHANGED <<job, output_lock, buffer, notice, apc, chunk>>
    BY <1>5 DEF package_message, Goto
  <2>1. line' = LineOf(t)
    <3> DEFINE h == job[t].head
               n == LineLength(job[t])
               L == LineOf(t)
    <3>1. h \in 0..n /\ n \in Nat /\ h \in Nat /\ L \in Seq(Bytes) /\ Len(L) = n
      BY OwnLine, LengthsAssumption
    <3>2. line = SubSeq(L, 1, h)
      BY <2>2 DEF LineOK
    <3> HIDE DEF h, n, L
    <3>3. line \in Seq(Bytes) /\ Len(line) = h /\ \A i \in 1..h : line[i] = L[i]
      BY <3>1, <3>2
    <3>4. SubSeq(line, 1, h) = line
      BY <3>3
    <3>5. /\ SubSeq(L, h + 1, n) \in Seq(Bytes)
          /\ Len(SubSeq(L, h + 1, n)) = n - h
          /\ \A i \in 1 .. n - h : SubSeq(L, h + 1, n)[i] = L[h + i]
      <4>1. \A i \in h + 1 .. n : L[i] \in Bytes
        BY <3>1, ElementOfSeq
      <4> QED
        BY <3>1, <4>1, SubSeqProperties
    <3>6. L = line \o SubSeq(L, h + 1, n)
      <4> DEFINE rest == SubSeq(L, h + 1, n)
      <4>1. rest \in Seq(Bytes) /\ Len(rest) = n - h
            /\ \A i \in 1..n - h : rest[i] = L[h + i]
        BY <3>5
      <4> HIDE DEF rest
      <4>2. Len(L) = Len(line) + Len(rest)
        BY <3>1, <3>3, <4>1
      <4>3. \A i \in 1..Len(line) : L[i] = line[i]
        BY <3>3
      <4>4. \A i \in 1..Len(rest) : L[Len(line) + i] = rest[i]
        BY <3>3, <4>1
      <4>5. L = line \o rest
        BY <3>1, <3>3, <4>1, <4>2, <4>3, <4>4, ConcatIs
      <4> QED
        BY <4>5 DEF rest
    <3> QED
      BY <2>2, <3>4, <3>6 DEF h, n, L
  <2>3. TypeOK'
    BY <2>1, <2>2, OwnLine DEF TypeOK, buffer
  <2>4. HolderOK'
    BY <2>2 DEF HolderOK, TypeOK
  <2>5. LineOK'
    <3>1. \A s \in Threads : s # t => pc[s] \notin {"message", "output"}
      BY <2>2 DEF HolderOK
    <3> QED
      BY <2>1, <2>2, <3>1 DEF LineOK, LineOf, TypeOK
  <2>6. NoLostWakeup'
    BY <2>2, BufferKept DEF NoLostWakeup, TypeOK
  <2> QED
    BY <2>2, <2>3, <2>4, <2>5, <2>6, BufferKept
<1>6. ASSUME NEW t \in Threads, output_directly(t) PROVE IInv'
  <2>2. /\ pc[t] = "output" /\ pc' = [pc EXCEPT ![t] = "unlock"]
        /\ UNCHANGED <<job, output_lock, line, buffer, notice, apc, chunk>>
    BY <1>6 DEF output_directly, Goto
  <2>3. TypeOK'
    BY <2>2 DEF TypeOK, buffer
  <2>4. HolderOK'
    BY <2>2 DEF HolderOK, TypeOK
  <2>5. LineOK'
    BY <2>2 DEF LineOK, LineOf, TypeOK
  <2>6. NoLostWakeup'
    BY <2>2, BufferKept DEF NoLostWakeup, TypeOK
  <2> QED
    BY <2>2, <2>3, <2>4, <2>5, <2>6, BufferKept
<1>7. ASSUME NEW t \in Threads, elog_async_output(t) PROVE IInv'
  <2>1. /\ pc[t] = "output"
        /\ UNCHANGED <<job, output_lock, line, notice, apc, chunk>>
    BY <1>7 DEF elog_async_output, Goto
  <2>2. CASE /\ async_get_buf_space > 0
             /\ pc' = [pc EXCEPT ![t] = "notice"]
             /\ async_put_log(line, PutSize(Len(line)))
    <3>1. line = LineOf(t) /\ line \in Seq(Bytes) /\ Len(line) > 0
      BY <2>1, OwnLine, LengthsAssumption DEF LineOK
    <3>2. /\ ring' \in [Places -> Bytes \cup {0}]
          /\ write_index' \in Places /\ RingOK'
      BY <3>1, <2>2, PutAppends
    <3>3. /\ buf_is_full' \in BOOLEAN /\ buf_is_empty' \in BOOLEAN
          /\ read_index' = read_index
      BY <2>2 DEF async_put_log, TypeOK
    <3>4. TypeOK'
      BY <2>1, <2>2, <3>2, <3>3 DEF TypeOK
    <3>5. HolderOK'
      BY <2>1, <2>2 DEF HolderOK, TypeOK
    <3>6. LineOK'
      BY <2>1, <2>2 DEF LineOK, LineOf, TypeOK
    <3>7. NoLostWakeup'
      BY <2>1, <2>2 DEF NoLostWakeup, TypeOK
    <3> QED
      BY <3>2, <3>4, <3>5, <3>6, <3>7
  <2>3. CASE pc' = [pc EXCEPT ![t] = "unlock"] /\ UNCHANGED buffer
    <3>1. TypeOK'
      BY <2>1, <2>3 DEF TypeOK, buffer
    <3>2. HolderOK'
      BY <2>1, <2>3 DEF HolderOK, TypeOK
    <3>3. LineOK'
      BY <2>1, <2>3 DEF LineOK, LineOf, TypeOK
    <3>4. NoLostWakeup'
      BY <2>1, <2>3, BufferKept DEF NoLostWakeup, TypeOK
    <3> QED
      BY <2>3, <3>1, <3>2, <3>3, <3>4, BufferKept
  <2> QED
    BY <1>7, <2>2, <2>3 DEF elog_async_output, Goto
<1>8. ASSUME NEW t \in Threads, elog_async_output_notice(t) PROVE IInv'
  <2>2. /\ pc[t] = "notice" /\ pc' = [pc EXCEPT ![t] = "unlock"]
        /\ notice' = notice + 1
        /\ UNCHANGED <<job, output_lock, line, buffer, apc, chunk>>
    BY <1>8 DEF elog_async_output_notice, Goto
  <2>3. TypeOK'
    BY <2>2 DEF TypeOK, buffer
  <2>4. HolderOK'
    BY <2>2 DEF HolderOK, TypeOK
  <2>5. LineOK'
    BY <2>2 DEF LineOK, LineOf, TypeOK
  <2>6. NoLostWakeup'
    BY <2>2 DEF NoLostWakeup, TypeOK
  <2> QED
    BY <2>2, <2>3, <2>4, <2>5, <2>6, BufferKept
<1>9. ASSUME NEW t \in Threads, elog_output_unlock(t) PROVE IInv'
  <2>2. /\ pc[t] = "unlock" /\ pc' = [pc EXCEPT ![t] = "idle"]
        /\ output_lock' = None
        /\ UNCHANGED <<job, line, buffer, notice, apc, chunk>>
    BY <1>9 DEF elog_output_unlock, Goto
  <2>1. \A s \in Threads : s # t =>
           pc[s] \notin {"head", "message", "output", "notice", "unlock"}
    BY <2>2 DEF HolderOK
  <2>3. TypeOK'
    BY <2>2 DEF TypeOK, buffer
  <2>4. HolderOK'
    BY <2>1, <2>2 DEF HolderOK, TypeOK
  <2>5. LineOK'
    BY <2>2 DEF LineOK, LineOf, TypeOK
  <2>6. NoLostWakeup'
    BY <2>2, BufferKept DEF NoLostWakeup, TypeOK
  <2> QED
    BY <2>2, <2>3, <2>4, <2>5, <2>6, BufferKept
<1>10. ASSUME sem_wait PROVE IInv'
  <2>2. /\ apc = "wait" /\ notice > 0 /\ notice' = notice - 1 /\ apc' = "poll"
        /\ UNCHANGED <<callers, buffer, chunk>>
    BY <1>10 DEF sem_wait
  <2>3. TypeOK'
    BY <2>2 DEF TypeOK, buffer, callers
  <2>4. HolderOK' /\ LineOK' /\ NoLostWakeup'
    BY <2>2 DEF HolderOK, LineOK, LineOf, NoLostWakeup, callers
  <2> QED
    BY <2>2, <2>3, <2>4, BufferKept
<1>11. ASSUME elog_async_get_log PROVE IInv'
  <2>1. PICK n \in 1..elog_async_get_buf_used :
          /\ chunk' = [i \in 1..n |-> ring[After(read_index, i - 1)]]
          /\ read_index' \in Places /\ RingOK'
    BY <1>11, GetTakesOldest
  <2>2. /\ apc' = "print" /\ UNCHANGED <<callers, ring, write_index, notice>>
        /\ buf_is_full' \in BOOLEAN /\ buf_is_empty' \in BOOLEAN
    BY <1>11 DEF elog_async_get_log, TypeOK
  <2>3. elog_async_get_buf_used \in 0..BufSize
    BY UsedBounded
  <2>4. \A i \in 1..n : ring[After(read_index, i - 1)] \in Bytes \cup {0}
    <3> TAKE i \in 1..n
    <3>1. read_index \in 0..BufSize-1 /\ i - 1 \in 0..BufSize-1
      BY <2>3, SizesAssumption DEF TypeOK, Places
    <3>2. After(read_index, i - 1) \in Places
      BY <3>1, SizesAssumption DEF After, Places
    <3> QED
      BY <3>2 DEF TypeOK
  <2>5. chunk' \in Seq(Bytes \cup {0})
    <3>1. n \in Nat
      BY <2>3, SizesAssumption
    <3> QED
      BY <2>1, <2>4, <3>1
  <2>6. TypeOK'
    BY <2>1, <2>2, <2>5 DEF TypeOK, callers
  <2>7. HolderOK' /\ LineOK' /\ NoLostWakeup'
    BY <2>2 DEF HolderOK, LineOK, LineOf, NoLostWakeup, callers
  <2> QED
    BY <2>1, <2>6, <2>7
<1>12. ASSUME poll_nothing PROVE IInv'
  <2>2. /\ elog_async_get_buf_used = 0 /\ apc' = "wait"
        /\ UNCHANGED <<callers, buffer, notice, chunk>>
    BY <1>12 DEF poll_nothing
  <2>3. TypeOK'
    BY <2>2 DEF TypeOK, buffer, callers
  <2>4. HolderOK' /\ LineOK'
    BY <2>2 DEF HolderOK, LineOK, LineOf, callers
  <2>5. NoLostWakeup'
    BY <2>2, BufferKept DEF NoLostWakeup
  <2> QED
    BY <2>2, <2>3, <2>4, <2>5, BufferKept
<1>13. ASSUME elog_port_output PROVE IInv'
  <2>2. apc' = "poll" /\ UNCHANGED <<callers, buffer, notice, chunk>>
    BY <1>13 DEF elog_port_output
  <2>3. TypeOK'
    BY <2>2 DEF TypeOK, buffer, callers
  <2>4. HolderOK' /\ LineOK' /\ NoLostWakeup'
    BY <2>2 DEF HolderOK, LineOK, LineOf, NoLostWakeup, callers
  <2> QED
    BY <2>2, <2>3, <2>4, BufferKept
<1>14. ASSUME UNCHANGED vars PROVE IInv'
  <2>1. TypeOK'
    BY <1>14 DEF TypeOK, vars, buffer, callers
  <2>2. HolderOK' /\ LineOK'
    BY <1>14 DEF HolderOK, LineOK, LineOf, vars, callers
  <2>3. NoLostWakeup'
    BY <1>14, BufferKept DEF NoLostWakeup, vars, callers
  <2> QED
    BY <1>14, <2>1, <2>2, <2>3, BufferKept DEF vars
<1> QED
  BY <1>1, <1>2, <1>3, <1>4, <1>5, <1>6, <1>7, <1>8, <1>9, <1>10, <1>11, <1>12,
     <1>13, <1>14 DEF Next, async_output, logging

LEMMA InitInv == Init => IInv
<1> SUFFICES ASSUME Init PROVE IInv
  OBVIOUS
<1>1. TypeOK
  <2>1. job \in [Threads -> Jobs] /\ pc \in [Threads -> {"idle"}]
    BY DEF Init
  <2>2. ring \in [Places -> Bytes \cup {0}] /\ 0 \in Places
    BY SizesAssumption DEF Init, Places
  <2> QED
    BY <2>1, <2>2 DEF Init, TypeOK
<1>2. RingOK /\ HolderOK /\ LineOK
  BY DEF Init, RingOK, HolderOK, LineOK
<1>3. NoLostWakeup
  BY DEF Init, NoLostWakeup, elog_async_get_buf_used
<1> QED
  BY <1>1, <1>2, <1>3 DEF IInv

\* Every variable keeps its type; the indices never leave the ring buffer.
THEOREM TypeCorrect == Spec => []TypeOK
<1>1. IInv => TypeOK
  BY DEF IInv
<1> QED
  BY <1>1, InitInv, Inductive, PTL DEF Spec

\* The line a thread hands over is its own, whole and within the static buffer,
\* however many threads log at once.
THEOREM LinesStayIntact == Spec => []LinesIntact
<1>1. IInv => LinesIntact
  BY OwnLine DEF IInv, LineOK, LinesIntact
<1> QED
  BY <1>1, InitInv, Inductive, PTL DEF Spec

\* The output thread never sleeps over queued bytes nobody tells it of.
THEOREM WakeupNotLost == Spec => []NoLostWakeup
<1>1. IInv => NoLostWakeup
  BY DEF IInv
<1> QED
  BY <1>1, InitInv, Inductive, PTL DEF Spec

----------------------------------------------------------------------------
(* The mutex comes back, the bytes come out *)

Middle == {"head", "message", "output", "notice", "unlock"}

\* The mutex is held in the middle of a line only: the converse of HolderOK.
HeldInLine == output_lock # None => output_lock \in Threads /\ pc[output_lock] \in Middle

\* The steps a thread at p has left until it gives the mutex back, and those the
\* output thread has left until it prints.
LineStepsAt(p) ==
    CASE p = "head" -> 5 [] p = "message" -> 4 [] p = "output" -> 3 [] p = "notice" -> 2
      [] p = "unlock" -> 1 [] OTHER -> 0
PrintStepsAt(a) == CASE a = "wait" -> 2 [] a = "poll" -> 1 [] OTHER -> 0

LineLeft == IF output_lock \in Threads THEN LineStepsAt(pc[output_lock]) ELSE 0
PrintLeft == PrintStepsAt(apc)

\* Nobody takes the mutex from its holder, and a step of a line brings it
\* nearer to giving it back; while bytes are queued, every step of the output
\* thread that does not print brings it nearer to printing.
OutputSteps ==
    [][/\ output_lock # None =>
            /\ output_lock' \in {output_lock, None} /\ LineLeft' <= LineLeft
            /\ (\E t \in Threads : logging(t)) => LineLeft' < LineLeft
       /\ elog_async_get_buf_used > 0 /\ apc # "print" =>
            /\ PrintLeft' <= PrintLeft
            /\ async_output => PrintLeft' < PrintLeft]_vars

LEMMA OutputStepsNumbers ==
/\ \A p : LineStepsAt(p) \in 0..5 /\ PrintStepsAt(p) \in 0..2
/\ LineStepsAt("head") = 5 /\ LineStepsAt("message") = 4 /\ LineStepsAt("output") = 3
/\ LineStepsAt("notice") = 2 /\ LineStepsAt("unlock") = 1
/\ PrintStepsAt("wait") = 2 /\ PrintStepsAt("poll") = 1 /\ PrintStepsAt("print") = 0
BY DEF LineStepsAt, PrintStepsAt

\* A step of a thread that logs, while somebody holds the mutex.
LEMMA HolderSteps ==
    ASSUME IInv, HeldInLine, NEW t \in Threads, logging(t)
    PROVE  /\ HeldInLine' /\ apc' = apc
           /\ output_lock # None => output_lock' \in {output_lock, None} /\ LineLeft' < LineLeft
<1> USE DEF IInv
<1>1. pc \in [Threads -> {"idle", "filter", "lock"} \cup Middle] /\ None \notin Threads
      /\ output_lock \in Threads \cup {None}
  BY ThreadsAssumption DEF TypeOK, Middle
<1>2. \A p : LineStepsAt(p) \in Int
  BY OutputStepsNumbers
<1>3. ASSUME pc[t] \in Middle PROVE output_lock = t /\ LineLeft = LineStepsAt(pc[t])
  BY <1>1, <1>3 DEF HolderOK, Middle, LineLeft
<1>4. CASE elog_get_filter_tag_lvl(t)
  BY <1>1, <1>4 DEF elog_get_filter_tag_lvl, HeldInLine
<1>5. CASE elog_output_lock(t)
  <2>1. output_lock = None /\ output_lock' = t /\ pc' = [pc EXCEPT ![t] = "head"] /\ apc' = apc
    BY <1>5 DEF elog_output_lock, Goto
  <2> QED
    BY <1>1, <2>1 DEF HeldInLine, Middle
<1>6. CASE package_head(t) \/ package_message(t) \/ output_directly(t) \/ elog_async_output(t)
           \/ elog_async_output_notice(t)
  <2>1. /\ apc' = apc /\ output_lock' = output_lock
        /\ \/ pc[t] = "head" /\ pc' = [pc EXCEPT ![t] = "message"]
           \/ pc[t] = "message" /\ pc' = [pc EXCEPT ![t] = "output"]
           \/ pc[t] = "output" /\ pc' = [pc EXCEPT ![t] = "unlock"]
           \/ pc[t] = "output" /\ pc' = [pc EXCEPT ![t] = "notice"]
           \/ pc[t] = "notice" /\ pc' = [pc EXCEPT ![t] = "unlock"]
    <3>1. CASE package_head(t) \/ package_message(t) \/ output_directly(t)
      BY <3>1 DEF package_head, package_message, output_directly, Goto
    <3>2. CASE elog_async_output(t)
      BY <3>2 DEF elog_async_output, Goto
    <3>3. CASE elog_async_output_notice(t)
      BY <3>3 DEF elog_async_output_notice, Goto
    <3> QED
      BY <1>6, <3>1, <3>2, <3>3
  <2>2. output_lock = t /\ LineLeft = LineStepsAt(pc[t])
    BY <1>3, <2>1 DEF Middle
  <2>3. LineLeft' = LineStepsAt(pc'[t]) /\ HeldInLine'
    BY <1>1, <2>1, <2>2 DEF LineLeft, HeldInLine, Middle
  <2>4. LineStepsAt(pc'[t]) < LineStepsAt(pc[t])
    BY <1>1, <2>1, OutputStepsNumbers
  <2> QED
    BY <2>1, <2>2, <2>3, <2>4
<1>7. CASE elog_output_unlock(t)
  <2>1. output_lock' = None /\ apc' = apc /\ pc[t] = "unlock"
    BY <1>7 DEF elog_output_unlock, Goto
  <2>2. LineLeft = 1
    BY <1>3, <2>1, OutputStepsNumbers DEF Middle
  <2>3. LineLeft' = 0 /\ HeldInLine'
    BY <1>1, <2>1 DEF LineLeft, HeldInLine
  <2> QED
    BY <2>1, <2>2, <2>3
<1> QED
  BY <1>4, <1>5, <1>6, <1>7 DEF logging

\* A step of the output thread, or the beginning of a line.
LEMMA OtherSteps ==
    ASSUME IInv, HeldInLine, async_output \/ \E t \in Threads : elog_output(t)
    PROVE  /\ HeldInLine' /\ output_lock' = output_lock /\ LineLeft' = LineLeft
           /\ elog_async_get_buf_used > 0 /\ apc # "print" =>
                /\ async_output => PrintLeft' < PrintLeft
                /\ ~async_output => apc' = apc
<1> USE DEF IInv
<1>1. pc \in [Threads -> {"idle", "filter", "lock"} \cup Middle] /\ None \notin Threads
  BY ThreadsAssumption DEF TypeOK, Middle
<1>2. CASE async_output
  <2>1. pc' = pc /\ output_lock' = output_lock
    BY <1>2 DEF async_output, sem_wait, elog_async_get_log, poll_nothing, elog_port_output, callers
  <2>2. elog_async_get_buf_used > 0 /\ apc # "print" =>
            \/ apc = "wait" /\ apc' = "poll"
            \/ apc = "poll" /\ apc' = "print"
    <3>1. CASE sem_wait
      BY <3>1 DEF sem_wait
    <3>2. CASE elog_async_get_log
      BY <3>2, Zenon DEF elog_async_get_log
    <3>3. CASE poll_nothing
      BY <3>3 DEF poll_nothing
    <3>4. CASE elog_port_output
      BY <3>4 DEF elog_port_output
    <3> QED
      BY <1>2, <3>1, <3>2, <3>3, <3>4 DEF async_output
  <2>3. elog_async_get_buf_used > 0 /\ apc # "print" => PrintLeft' < PrintLeft
    BY <2>2, OutputStepsNumbers DEF PrintLeft
  <2> QED
    BY <1>2, <2>1, <2>3 DEF HeldInLine, LineLeft
<1>3. ASSUME NEW t \in Threads, elog_output(t)
      PROVE  HeldInLine' /\ output_lock' = output_lock /\ LineLeft' = LineLeft /\ apc' = apc
  <2>1. /\ pc[t] = "idle" /\ pc' = [pc EXCEPT ![t] = "filter"]
        /\ output_lock' = output_lock /\ apc' = apc
    BY <1>3 DEF elog_output, Goto
  <2>2. output_lock # t
    BY <1>1, <2>1 DEF HeldInLine, Middle
  <2>3. output_lock \in Threads => pc'[output_lock] = pc[output_lock]
    BY <1>1, <2>1, <2>2
  <2> QED
    BY <1>1, <2>1, <2>3 DEF HeldInLine, LineLeft
<1> QED
  BY <1>2, <1>3

\* elog_output (elog.c:509-605) and async_output (elog_async.c:282): the mutex
\* is held in the middle of a line only and given back within five steps of its
\* holder, and the output thread prints at its second step after bytes are
\* queued and a notice is there, which NoLostWakeup promises: what
\* QueuedComesOut says of fair schedules, in numbers.
THEOREM OutputBounded == Spec => []HeldInLine /\ OutputSteps
<1>1. Init => HeldInLine
  BY DEF Init, HeldInLine
<1>2. IInv /\ HeldInLine /\ [Next]_vars
        => HeldInLine' /\
           [/\ output_lock # None =>
                 /\ output_lock' \in {output_lock, None} /\ LineLeft' <= LineLeft
                 /\ (\E t \in Threads : logging(t)) => LineLeft' < LineLeft
            /\ elog_async_get_buf_used > 0 /\ apc # "print" =>
                 /\ PrintLeft' <= PrintLeft
                 /\ async_output => PrintLeft' < PrintLeft]_vars
  <2> SUFFICES ASSUME IInv, HeldInLine, [Next]_vars
               PROVE  HeldInLine' /\
           [/\ output_lock # None =>
                 /\ output_lock' \in {output_lock, None} /\ LineLeft' <= LineLeft
                 /\ (\E t \in Threads : logging(t)) => LineLeft' < LineLeft
            /\ elog_async_get_buf_used > 0 /\ apc # "print" =>
                 /\ PrintLeft' <= PrintLeft
                 /\ async_output => PrintLeft' < PrintLeft]_vars
    OBVIOUS
  <2>1. LineLeft \in Int /\ LineLeft' \in Int /\ PrintLeft \in Int /\ PrintLeft' \in Int
    BY OutputStepsNumbers DEF LineLeft, PrintLeft
  <2>2. CASE UNCHANGED vars
    <3>1. pc' = pc /\ output_lock' = output_lock
      BY <2>2 DEF vars, callers
    <3>2. HeldInLine'
      BY <3>1 DEF HeldInLine
    <3> QED
      BY <2>2, <3>2
  <2>3. ASSUME NEW t \in Threads, logging(t)
        PROVE  /\ HeldInLine' /\ PrintLeft' = PrintLeft
               /\ output_lock # None => output_lock' \in {output_lock, None} /\ LineLeft' < LineLeft
    BY <2>3, HolderSteps DEF PrintLeft
  <2>4. ASSUME async_output \/ \E t \in Threads : elog_output(t)
        PROVE  /\ HeldInLine' /\ output_lock' = output_lock /\ LineLeft' = LineLeft
               /\ elog_async_get_buf_used > 0 /\ apc # "print" =>
                    /\ PrintLeft' <= PrintLeft
                    /\ async_output => PrintLeft' < PrintLeft
    <3>1. apc' = apc => PrintLeft' = PrintLeft
      BY DEF PrintLeft
    <3> QED
      BY <2>1, <2>4, <3>1, OtherSteps
  <2>5. ~(async_output /\ \E t \in Threads : logging(t) /\ elog_async_get_buf_used > 0 /\ apc # "print")
    <3>1. ASSUME async_output, NEW t \in Threads, logging(t),
                 elog_async_get_buf_used > 0, apc # "print"
          PROVE  FALSE
      <4>1. PrintLeft' < PrintLeft
        BY <3>1, OtherSteps
      <4>2. PrintLeft' = PrintLeft
        BY <2>3, <3>1
      <4> QED
        BY <2>1, <4>1, <4>2
    <3> QED
      BY <3>1
  <2> QED
    BY <2>1, <2>2, <2>3, <2>4, <2>5 DEF Next
<1>3. QED
  BY <1>1, <1>2, InitInv, Inductive, PTL DEF Spec, OutputSteps

----------------------------------------------------------------------------
(* The refinement *)

\* What is queued, and what is taken from it, as sequences.
queued == [i \in 1..elog_async_get_buf_used |-> ring[After(read_index, i - 1)]]

QueuedOK ==
    /\ queued \in Seq(Bytes \cup {0})
    /\ Len(queued) = elog_async_get_buf_used
    /\ elog_async_get_buf_used \in Nat

LEMMA QueuedIsSequence == TypeOK /\ RingOK => QueuedOK
<1> SUFFICES ASSUME TypeOK, RingOK PROVE QueuedOK
  OBVIOUS
<1>1. BufSize \in Nat \ {0} /\ read_index \in 0..BufSize-1
  BY SizesAssumption DEF TypeOK, Places
<1>2. elog_async_get_buf_used \in 0..BufSize
  BY UsedBounded
<1>3. \A i \in 1..elog_async_get_buf_used :
          ring[After(read_index, i - 1)] \in Bytes \cup {0}
  <2> TAKE i \in 1..elog_async_get_buf_used
  <2>1. After(read_index, i - 1) \in Places
    BY <1>1, <1>2 DEF After, Places
  <2> QED
    BY <2>1 DEF TypeOK
<1>4. elog_async_get_buf_used \in Nat
  BY <1>1, <1>2
<1> QED
  BY <1>3, <1>4 DEF queued, QueuedOK

LEMMA QueuedStaysSequence == IInv /\ IInv' => QueuedOK /\ QueuedOK'
<1>1. IInv => QueuedOK
  BY QueuedIsSequence DEF IInv
<1> QED
  BY <1>1, PTL

\* A put is a Put of the abstract queue.
LEMMA PutRefines ==
    ASSUME IInv, IInv', NEW t \in Threads, elog_async_output(t), ~UNCHANGED buffer
    PROVE  Queue!Next
<1> USE DEF IInv
<1>1. /\ pc[t] = "output" /\ chunk' = chunk /\ async_get_buf_space > 0
      /\ async_put_log(line, PutSize(Len(line)))
  BY DEF elog_async_output, Goto
<1>2. line = LineOf(t) /\ line \in Seq(Bytes) /\ Len(line) \in Nat /\ Len(line) > 0
  BY <1>1, OwnLine, LengthsAssumption DEF LineOK
<1> DEFINE u == elog_async_get_buf_used
           n == PutSize(Len(line))
<1>3. /\ n \in 1..Len(line) /\ n <= BufSize - u
      /\ elog_async_get_buf_used' = u + n
      /\ \A i \in 1..u :
           ring'[After(read_index, i - 1)] = ring[After(read_index, i - 1)]
      /\ \A i \in u+1..u+n : ring'[After(read_index, i - 1)] = line[i - u]
  BY <1>1, <1>2, PutAppends
<1>4. read_index' = read_index
  BY <1>1 DEF async_put_log
<1>5. /\ queued \in Seq(Bytes \cup {0}) /\ Len(queued) = u /\ u \in Nat
      /\ queued' \in Seq(Bytes \cup {0}) /\ Len(queued') = u + n
  BY <1>3, QueuedStaysSequence DEF QueuedOK
<1>6. n = Queue!Room(line)
  BY <1>2, <1>5, SizesAssumption
     DEF Queue!Room, PutSize, async_get_buf_space, queued
<1>7. SubSeq(line, 1, n) \in Seq(Bytes \cup {0}) /\ Len(SubSeq(line, 1, n)) = n
      /\ \A i \in 1..n : SubSeq(line, 1, n)[i] = line[i]
  BY <1>2, <1>3
<1>8. queued' = queued \o SubSeq(line, 1, n)
  <2> DEFINE put == SubSeq(line, 1, n)
  <2>1. \A i \in 1..u : queued'[i] = queued[i]
    BY <1>3, <1>4, <1>5 DEF queued
  <2>2. \A i \in 1..n : queued'[u + i] = put[i]
    <3> TAKE i \in 1..n
    <3>1. u + i \in u+1..u+n /\ (u + i) - u = i /\ u + i \in 1..u+n
      BY <1>3, <1>5
    <3>2. queued'[u + i] = ring'[After(read_index, (u + i) - 1)]
      BY <3>1, <1>3, <1>4 DEF queued
    <3>3. ring'[After(read_index, (u + i) - 1)] = line[(u + i) - u]
      BY <3>1, <1>3
    <3>4. put[i] = line[i]
      BY <1>7
    <3> QED
      BY <3>1, <3>2, <3>3, <3>4
  <2>3. put \in Seq(Bytes \cup {0}) /\ Len(put) = n
    BY <1>7
  <2> HIDE DEF put
  <2>4. /\ Len(queued') = Len(queued) + Len(put)
        /\ \A i \in 1..Len(queued) : queued'[i] = queued[i]
        /\ \A i \in 1..Len(put) : queued'[Len(queued) + i] = put[i]
    BY <1>5, <2>1, <2>2, <2>3
  <2>5. queued' = queued \o put
    BY <1>5, <2>3, <2>4, ConcatIs
  <2> QED
    BY <2>5 DEF put
<1>9. line \in {Line(s, LineLength(j)) : s \in Threads, j \in Jobs}
  BY <1>2 DEF LineOf, TypeOK
<1>10. Queue!Put(line)
  BY <1>1, <1>6, <1>8 DEF Queue!Put, queued
<1> QED
  BY <1>9, <1>10 DEF Queue!Next, Queue!PutLine

\* Getting a chunk is a Take of the abstract queue.
LEMMA GetRefines ==
    ASSUME IInv, IInv', elog_async_get_log
    PROVE  Queue!Next
<1> USE DEF IInv
<1> DEFINE u == elog_async_get_buf_used
<1>1. PICK n \in 1..u :
        /\ chunk' = [i \in 1..n |-> ring[After(read_index, i - 1)]]
        /\ elog_async_get_buf_used' = u - n
        /\ \A i \in 1..u-n : After(read_index', i - 1) = After(read_index, n + i - 1)
  BY GetTakesOldest
<1>2. ring' = ring
  BY DEF elog_async_get_log
<1>3. /\ queued \in Seq(Bytes \cup {0}) /\ Len(queued) = u /\ u \in Nat
      /\ queued' \in Seq(Bytes \cup {0}) /\ Len(queued') = u - n
      /\ n \in Nat
  BY <1>1, QueuedStaysSequence DEF QueuedOK
<1>4. chunk' = SubSeq(queued, 1, n)
  <2>1. chunk' \in Seq(Bytes \cup {0}) /\ Len(chunk') = n
    BY <1>1, <1>3 DEF TypeOK
  <2>2. /\ SubSeq(queued, 1, n) \in Seq(Bytes \cup {0})
        /\ Len(SubSeq(queued, 1, n)) = n
        /\ \A i \in 1..n : SubSeq(queued, 1, n)[i] = queued[i]
    BY <1>3
  <2>3. \A i \in 1..n : chunk'[i] = queued[i]
    BY <1>1, <1>3 DEF queued
  <2> QED
    BY <2>1, <2>2, <2>3, SeqEqual
<1>5. queued' = SubSeq(queued, n + 1, u)
  <2>1. /\ SubSeq(queued, n + 1, u) \in Seq(Bytes \cup {0})
        /\ Len(SubSeq(queued, n + 1, u)) = u - n
        /\ \A i \in 1..u-n : SubSeq(queued, n + 1, u)[i] = queued[n + i]
    <3>1. \A i \in n+1..u : queued[i] \in Bytes \cup {0}
      BY <1>3, ElementOfSeq
    <3> QED
      BY <1>1, <1>3, <3>1, SubSeqProperties
  <2>2. \A i \in 1..u-n : queued'[i] = queued[n + i]
    <3> TAKE i \in 1..u-n
    <3>1. n + i \in 1..u /\ n + i - 1 = (n + i) - 1
      BY <1>1, <1>3
    <3> QED
      BY <1>1, <1>2, <3>1 DEF queued
  <2> QED
    BY <1>3, <2>1, <2>2, SeqEqual
<1>6. Queue!Take(n)
  BY <1>1, <1>3, <1>4, <1>5 DEF Queue!Take, queued
<1>7. n \in 1..Len(queued)
  BY <1>1, <1>3
<1>8. Queue!TakeSome
  BY <1>6, <1>7 DEF Queue!TakeSome, queued
<1> QED
  BY <1>8 DEF Queue!Next

\* The ring buffer, its indices and its flags implement the bounded queue:
\* bytes come out in order, none twice, none lost but ends without room.
THEOREM QueueImplemented == Spec => ImplementsQueue
<1>1. Init => Queue!Init
  <2> SUFFICES ASSUME Init PROVE Queue!Init
    OBVIOUS
  <2>1. elog_async_get_buf_used = 0
    BY DEF Init, elog_async_get_buf_used
  <2>2. queued = <<>>
    BY <2>1 DEF queued
  <2> QED
    BY <2>2 DEF Init, Queue!Init, queued
<1>2. IInv /\ IInv' /\ [Next]_vars => [Queue!Next]_<<queued, chunk>>
  <2> SUFFICES ASSUME IInv, IInv', [Next]_vars
               PROVE  Queue!Next \/ UNCHANGED <<queued, chunk>>
    OBVIOUS
  <2>1. CASE UNCHANGED <<buffer, chunk>>
    BY <2>1, BufferKept DEF queued, buffer
  <2>2. ASSUME NEW t \in Threads, elog_async_output(t), ~UNCHANGED buffer
        PROVE  Queue!Next
    BY <2>2, PutRefines
  <2>3. CASE elog_async_get_log
    BY <2>3, GetRefines
  <2>4. ASSUME NEW t \in Threads, elog_output(t) \/ logging(t),
               ~elog_async_output(t)
        PROVE  UNCHANGED <<buffer, chunk>>
    BY <2>4 DEF elog_output, logging, elog_get_filter_tag_lvl, elog_output_lock,
       package_head, package_message, output_directly, elog_async_output_notice,
       elog_output_unlock
  <2>5. ASSUME sem_wait \/ poll_nothing \/ elog_port_output
        PROVE  UNCHANGED <<buffer, chunk>>
    BY <2>5 DEF sem_wait, poll_nothing, elog_port_output
  <2>6. ASSUME NEW t \in Threads, elog_async_output(t), UNCHANGED buffer
        PROVE  UNCHANGED <<buffer, chunk>>
    BY <2>6 DEF elog_async_output
  <2>7. CASE UNCHANGED vars
    BY <2>1, <2>7 DEF vars
  <2> QED
    BY <2>1, <2>2, <2>3, <2>4, <2>5, <2>6, <2>7 DEF Next, async_output
<1>3. [][Queue!Next]_<<queued, chunk>> /\ Queue!Init => ImplementsQueue
  BY DEF ImplementsQueue, Queue!Spec, queued
<1> QED
  BY <1>1, <1>2, <1>3, InitInv, Inductive, PTL DEF Spec
============================================================================
