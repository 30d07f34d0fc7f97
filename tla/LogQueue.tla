----------------------------- MODULE LogQueue -----------------------------
(***************************************************************************)
(* What the asynchronous half of the logger promises: the bytes of the     *)
(* lines handed to it wait in a queue of bounded size and leave it in the  *)
(* order they came in.  Of a line that does not fit only the end is lost.  *)
(***************************************************************************)
EXTENDS Integers, Sequences

CONSTANTS
    Lines,      \* the lines there are, sequences of bytes
    Size        \* bytes the queue has room for

VARIABLES
    queue,      \* bytes waiting, the oldest first
    chunk       \* bytes the output thread took last

Init == queue = <<>> /\ chunk = <<>>

\* As much of the line as there is room for.
Room(line) ==
    IF Len(line) <= Size - Len(queue) THEN Len(line) ELSE Size - Len(queue)

Put(line) ==
    /\ queue' = queue \o SubSeq(line, 1, Room(line))
    /\ UNCHANGED chunk

Take(n) ==
    /\ chunk' = SubSeq(queue, 1, n)
    /\ queue' = SubSeq(queue, n + 1, Len(queue))

PutLine == \E line \in Lines : Put(line)
TakeSome == \E n \in 1 .. Len(queue) : Take(n)

Next == PutLine \/ TakeSome

Spec == Init /\ [][Next]_<<queue, chunk>>
============================================================================
