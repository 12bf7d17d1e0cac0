----------------------------- MODULE ByteWindow -----------------------------
(***************************************************************************)
(* What the byte buffer of libplat promises its users, with no offset and  *)
(* no array: a queue of at most Capacity bytes.  A write appends its bytes *)
(* and, when they do not fit, forgets the OLDEST ones; a read takes bytes  *)
(* from the front, as many as it asked for or as many as there are.        *)
(* This is an abstract specification: RingBuffer implements it.            *)
(***************************************************************************)
EXTENDS Integers, Sequences

CONSTANTS Byte,        \* the values a byte may have
          Capacity,    \* how many bytes the buffer retains
          MaxChunk     \* bound: the longest chunk of one call

VARIABLES given,       \* the chunk of the last call, when it was a write
          asked,       \* the length of the last call, when it was a read
          queue,       \* the bytes retained, oldest first
          out,         \* the bytes the last read delivered
          ret          \* what the last call returned

vars == <<given, asked, queue, out, ret>>

Chunk == UNION {[1..n -> Byte] : n \in 0..MaxChunk}

(* What the caller passed: a chunk to write, a length to read, or nothing. *)
Passes(from, n) == given' = from /\ asked' = n

Init == /\ given = <<>>
        /\ asked = 0
        /\ queue = <<>>
        /\ out = <<>>
        /\ ret = 0

\* The newest Capacity bytes of s (all of s when it is no longer than that).
Newest(s) == IF Len(s) <= Capacity
               THEN s
               ELSE SubSeq(s, Len(s) - Capacity + 1, Len(s))

Put(from) == /\ Len(from) <= Capacity
             /\ Passes(from, 0)
             /\ queue' = Newest(queue \o from)
             /\ ret' = 0
             /\ UNCHANGED out

\* A chunk larger than the whole buffer is refused and changes nothing.
Refuse(from) == /\ Len(from) > Capacity
                /\ Passes(from, 0)
                /\ ret' = -1
                /\ UNCHANGED <<queue, out>>

Take(n) == LET got == IF n > Len(queue) THEN Len(queue) ELSE n
           IN /\ Passes(<<>>, n)
              /\ out' = SubSeq(queue, 1, got)
              /\ queue' = SubSeq(queue, got + 1, Len(queue))
              /\ ret' = got

Count == /\ Passes(<<>>, 0)
         /\ ret' = Len(queue)
         /\ UNCHANGED <<queue, out>>

Clear == /\ Passes(<<>>, 0)
         /\ queue' = <<>>
         /\ ret' = 0
         /\ UNCHANGED out

Next == \/ \E from \in Chunk : Put(from) \/ Refuse(from)
        \/ \E n \in 0..MaxChunk : Take(n)
        \/ Count
        \/ Clear

Spec == Init /\ [][Next]_vars
=============================================================================
