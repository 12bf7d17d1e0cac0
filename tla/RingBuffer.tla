----------------------------- MODULE RingBuffer -----------------------------
(***************************************************************************)
(* libplat/src/common/ak_ring_buffer.c: the byte buffer between the audio  *)
(* capture thread and its readers (ak_ai.c) and between the network and    *)
(* the speaker (dana_av.c).                                                *)
(*                                                                         *)
(* Every call runs under rb->data_mutex, so a call is one step, whichever  *)
(* thread makes it.  The offsets read and write are NOT normalised: each   *)
(* may rest at total_len, one past the array, until the next call wraps.   *)
(***************************************************************************)
EXTENDS Integers, Sequences

CONSTANTS Byte,        \* the values a byte may have
          ZeroByte,    \* what calloc and memset fill the array with
          TotalLen,    \* rb->total_len
          MaxChunk     \* bound: the longest chunk a caller writes or asks for

ASSUME TotalLenAssumption == TotalLen \in Nat \ {0}
ASSUME MaxChunkAssumption == MaxChunk \in Nat
ASSUME ZeroByteAssumption == ZeroByte \in Byte

VARIABLES given,       \* the chunk of the last call, when it was a write
          asked,       \* the length of the last call, when it was a read
          remain,      \* how many bytes are stored (the field's comment says "free")
          read,        \* offset of the oldest stored byte
          write,       \* offset where the next byte goes
          data,        \* the array
          out,         \* the caller's buffer `to' after the last read
          ret          \* what the last call returned

vars == <<given, asked, remain, read, write, data, out, ret>>

AK_SUCCESS == 0
AK_FAILED == -1

Chunk == UNION {[1..n -> Byte] : n \in 0..MaxChunk}

-----------------------------------------------------------------------------
(* memcpy in the two directions: array a, offset at.                       *)

Store(a, at, s) == [k \in 0..TotalLen - 1 |->
                      IF at <= k /\ k < at + Len(s) THEN s[k - at + 1] ELSE a[k]]

Fetch(a, at, n) == [i \in 1..n |-> a[at + i - 1]]

(* The two-piece copies of a read and a write, the piece up to the end of  *)
(* the array and the rest at its beginning, and where the offset lands.    *)

MutAdvanceNoWrap(at, n) == at + n

Advance(at, n) == IF TotalLen - at >= n THEN at + n ELSE n - (TotalLen - at)

MutDepositSameStart(from) ==
  LET n == Len(from)
      tail_space == TotalLen - write
  IN IF tail_space >= n
       THEN Store(data, write, from)
       ELSE Store(Store(data, write, SubSeq(from, 1, tail_space)),
                  0, SubSeq(from, 1, n - tail_space))

Deposit(from) ==
  LET n == Len(from)
      tail_space == TotalLen - write
  IN IF tail_space >= n
       THEN Store(data, write, from)
       ELSE Store(Store(data, write, SubSeq(from, 1, tail_space)),
                  0, SubSeq(from, tail_space + 1, n))

Collect(n) ==
  LET tail_space == TotalLen - read
  IN IF tail_space >= n
       THEN Fetch(data, read, n)
       ELSE Fetch(data, read, tail_space) \o Fetch(data, 0, n - tail_space)

(* On overflow the oldest byte kept is the one the write stopped at.       *)

KeepNewest(n) == IF remain + n >= TotalLen
                   THEN /\ read' = write'
                        /\ remain' = TotalLen
                   ELSE /\ remain' = remain + n
                        /\ UNCHANGED read

-----------------------------------------------------------------------------
(* What the caller passed: a chunk to write, a length to read, or nothing. *)
Passes(from, n) == given' = from /\ asked' = n

Init == /\ given = <<>>
        /\ asked = 0
        /\ remain = 0
        /\ read = 0
        /\ write = 0
        /\ data = [k \in 0..TotalLen - 1 |-> ZeroByte]
        /\ out = <<>>
        /\ ret = AK_SUCCESS

ak_rb_reset == /\ Passes(<<>>, 0)
               /\ remain' = 0
               /\ read' = 0
               /\ write' = 0
               /\ data' = [k \in 0..TotalLen - 1 |-> ZeroByte]
               /\ ret' = AK_SUCCESS
               /\ UNCHANGED out

ak_rb_get_data_len == /\ Passes(<<>>, 0)
                      /\ ret' = remain
                      /\ UNCHANGED <<remain, read, write, data, out>>

ak_rb_read(read_len) ==
  LET n == IF read_len > remain THEN remain ELSE read_len
  IN /\ Passes(<<>>, read_len)
     /\ out' = Collect(n)
     /\ read' = Advance(read, n)
     /\ remain' = remain - n
     /\ ret' = n
     /\ UNCHANGED <<write, data>>

ak_rb_write_refused(from) ==
  /\ Len(from) > TotalLen
  /\ Passes(from, 0)
  /\ ret' = AK_FAILED
  /\ UNCHANGED <<remain, read, write, data, out>>

ak_rb_write(from) ==
  /\ Len(from) <= TotalLen
  /\ Passes(from, 0)
  /\ data' = Deposit(from)
  /\ write' = Advance(write, Len(from))
  /\ KeepNewest(Len(from))
  /\ ret' = AK_SUCCESS
  /\ UNCHANGED out

Next == \/ \E from \in Chunk : ak_rb_write(from) \/ ak_rb_write_refused(from)
        \/ \E n \in 0..MaxChunk : ak_rb_read(n)
        \/ ak_rb_get_data_len
        \/ ak_rb_reset

Spec == Init /\ [][Next]_vars

-----------------------------------------------------------------------------
(* The array position of the i-th byte (i counts from 1) of the region     *)
(* that begins at offset `at', the region's n bytes, and the stored bytes  *)
(* oldest first.                                                           *)

Position(at, i) == IF at + i - 1 < TotalLen THEN at + i - 1
                                            ELSE at + i - 1 - TotalLen

Region(a, at, n) == [i \in 1..n |-> a[Position(at, i)]]

Stored == Region(data, read, remain)

(* The fields keep their ranges; both offsets may equal TotalLen, where a  *)
(* dereference would be out of the array (lines 12-19).                    *)
TypeOK == /\ given \in Chunk
          /\ asked \in 0..MaxChunk
          /\ remain \in 0..TotalLen
          /\ read \in 0..TotalLen
          /\ write \in 0..TotalLen
          /\ data \in [0..TotalLen - 1 -> Byte]
          /\ out \in Seq(Byte)
          /\ ret \in Int

(* The three fields describe one region: walking `remain' bytes from read  *)
(* arrives at write, with at most one wrap (lines 125-138, 178-198).       *)
OffsetsAgree == read + remain \in {write, write + TotalLen}

(* The buffer is a queue that keeps the newest TotalLen bytes written and  *)
(* delivers them in the order written, whatever the chunk sizes and        *)
(* wherever the offsets wrap (lines 107-207).                              *)
Window == INSTANCE ByteWindow WITH queue <- Stored, Capacity <- TotalLen
ImplementsWindow == Window!Spec
=============================================================================
