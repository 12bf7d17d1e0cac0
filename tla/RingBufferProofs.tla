-------------------------- MODULE RingBufferProofs --------------------------
(***************************************************************************)
(* Theorems about RingBuffer, for every alphabet, buffer size and bound on *)
(* the chunks.                                                             *)
(***************************************************************************)
EXTENDS RingBuffer, SequenceTheorems, TLAPS

IInv == TypeOK /\ OffsetsAgree

(* A chunk is a sequence of bytes. *)
LEMMA ChunkType ==
  ASSUME NEW from \in Chunk
  PROVE  from \in Seq(Byte) /\ Len(from) \in Nat
<1>1. PICK n \in 0..MaxChunk : from \in [1..n -> Byte]
  BY DEF Chunk
<1>2. QED
  BY <1>1, MaxChunkAssumption

(* Storing a piece of a chunk leaves an array of bytes. *)
LEMMA StoreType ==
  ASSUME NEW a \in [0..TotalLen - 1 -> Byte], NEW at \in Nat, NEW s \in Seq(Byte)
  PROVE  Store(a, at, s) \in [0..TotalLen - 1 -> Byte]
<1>1. \A k \in 0..TotalLen - 1 : at <= k /\ k < at + Len(s) => s[k - at + 1] \in Byte
  BY TotalLenAssumption
<1>2. QED
  BY <1>1 DEF Store

(* Fetching inside the array yields a sequence of bytes. *)
LEMMA FetchType ==
  ASSUME NEW a \in [0..TotalLen - 1 -> Byte], NEW at \in Nat, NEW n \in Nat,
         at + n <= TotalLen
  PROVE  Fetch(a, at, n) \in Seq(Byte)
<1>1. \A i \in 1..n : a[at + i - 1] \in Byte
  BY TotalLenAssumption
<1>2. Fetch(a, at, n) \in [1..n -> Byte]
  BY <1>1 DEF Fetch
<1>3. QED
  BY <1>2

(* The empty chunk and the length 0, of the calls that pass nothing. *)
LEMMA EmptyChunk == <<>> \in Chunk /\ 0 \in 0..MaxChunk
<1>1. <<>> \in [1..0 -> Byte] /\ 0 \in 0..MaxChunk
  BY MaxChunkAssumption
<1>2. QED
  BY <1>1 DEF Chunk

LEMMA InitInv == Init => IInv
BY EmptyChunk, TotalLenAssumption, ZeroByteAssumption DEF Init, IInv, TypeOK, OffsetsAgree, AK_SUCCESS

(* What the type invariant says of the offsets, in the form the arithmetic *)
(* of the steps needs.                                                     *)
LEMMA Ranges ==
  ASSUME IInv
  PROVE  /\ TotalLen \in Nat /\ TotalLen > 0
         /\ remain \in Nat /\ remain <= TotalLen
         /\ read \in Nat /\ read <= TotalLen
         /\ write \in Nat /\ write <= TotalLen
         /\ read + remain = write \/ read + remain = write + TotalLen
BY TotalLenAssumption DEF IInv, TypeOK, OffsetsAgree

(* The array after a write: the chunk lies at write, wrapping at the end;  *)
(* every other cell is as before.                                          *)
LEMMA WriteData ==
  ASSUME IInv, NEW from \in Chunk, ak_rb_write(from)
  PROVE  /\ data' \in [0..TotalLen - 1 -> Byte]
         /\ \A k \in 0..TotalLen - 1 :
              data'[k] = IF write <= k /\ k < write + Len(from)
                           THEN from[k - write + 1]
                           ELSE IF k + TotalLen < write + Len(from)
                                  THEN from[k + TotalLen - write + 1]
                                  ELSE data[k]
<1> DEFINE tail == TotalLen - write
           front == SubSeq(from, 1, tail)
           back == SubSeq(from, tail + 1, Len(from))
<1>1. /\ from \in Seq(Byte) /\ Len(from) \in Nat /\ Len(from) <= TotalLen
      /\ TotalLen \in Nat /\ tail \in Nat /\ write \in Nat
      /\ data \in [0..TotalLen - 1 -> Byte]
  BY ChunkType, Ranges DEF IInv, TypeOK, ak_rb_write
<1>2. CASE tail >= Len(from)
  <2>1. data' = Store(data, write, from)
    BY <1>2 DEF ak_rb_write, Advance, Deposit, KeepNewest
  <2>2. data' \in [0..TotalLen - 1 -> Byte]
    BY <2>1, <1>1, StoreType
  <2>3. QED
    BY <2>1, <2>2, <1>1, <1>2, Ranges DEF Store
<1>3. CASE tail < Len(from)
  <2>1. data' = Store(Store(data, write, front), 0, back)
    BY <1>1, <1>3 DEF ak_rb_write, Advance, Deposit, KeepNewest
  <2>2. /\ front \in Seq(Byte) /\ Len(front) = tail
        /\ \A i \in 1..tail : front[i] = from[i]
    BY <1>1, <1>3
  <2>3. /\ back \in Seq(Byte) /\ Len(back) = Len(from) - tail
        /\ \A i \in 1..Len(from) - tail : back[i] = from[tail + i]
    BY <1>1, <1>3
  <2>4. Store(data, write, front) \in [0..TotalLen - 1 -> Byte]
    BY <1>1, <2>2, StoreType
  <2>5. data' \in [0..TotalLen - 1 -> Byte]
    BY <2>1, <2>3, <2>4, StoreType
  <2>6. ASSUME NEW k \in 0..TotalLen - 1
        PROVE  data'[k] = IF k < Len(from) - tail THEN back[k + 1]
                          ELSE IF write <= k /\ k < write + tail
                                 THEN front[k - write + 1] ELSE data[k]
    <3> DEFINE inner == Store(data, write, front)
    <3>1. inner[k] = IF write <= k /\ k < write + tail
                       THEN front[k - write + 1] ELSE data[k]
      BY <2>2 DEF Store
    <3> HIDE DEF inner
    <3>2. data'[k] = IF 0 <= k /\ k < 0 + Len(back) THEN back[k - 0 + 1] ELSE inner[k]
      <4>1. data' = Store(inner, 0, back)
        BY <2>1 DEF inner
      <4>2. QED
        BY <4>1 DEF Store
    <3>3. k \in Nat /\ Len(back) = Len(from) - tail /\ Len(back) \in Nat
      BY <2>3, <1>1, <1>3, Ranges
    <3> HIDE DEF front, back, tail
    <3>4. 0 + Len(back) = Len(from) - tail /\ k - 0 + 1 = k + 1 /\ 0 <= k
      BY <3>3
    <3>5. QED
      BY <3>1, <3>2, <3>4
  <2>7. ASSUME NEW k \in 0..TotalLen - 1
        PROVE  data'[k] = IF write <= k /\ k < write + Len(from)
                            THEN from[k - write + 1]
                            ELSE IF k + TotalLen < write + Len(from)
                                   THEN from[k + TotalLen - write + 1]
                                   ELSE data[k]
    <3>1. k \in Nat /\ k < TotalLen
      BY Ranges
    <3>2. CASE k < Len(from) - tail
      <4>1. k + 1 \in 1..Len(from) - tail /\ tail + (k + 1) = k + TotalLen - write + 1
        BY <1>1, <3>1, <3>2
      <4>2. data'[k] = from[k + TotalLen - write + 1]
        BY <2>3, <2>6, <3>2, <4>1
      <4>3. ~(write <= k) /\ k + TotalLen < write + Len(from)
        BY <1>1, <3>1, <3>2
      <4>4. QED
        BY <4>2, <4>3
    <3>3. CASE ~(k < Len(from) - tail) /\ write <= k
      <4>1. k - write + 1 \in 1..tail /\ k < write + tail /\ k < write + Len(from)
        BY <1>1, <1>3, <3>1, <3>3
      <4>2. QED
        BY <2>2, <2>6, <3>3, <4>1
    <3>4. CASE ~(k < Len(from) - tail) /\ ~(write <= k)
      <4>1. ~(k + TotalLen < write + Len(from))
        BY <1>1, <3>1, <3>4
      <4>2. QED
        BY <2>6, <3>4, <4>1
    <3>5. QED
      BY <3>2, <3>3, <3>4
  <2>8. QED
    BY <2>5, <2>7
<1>4. QED
  BY <1>1, <1>2, <1>3

(* The offsets after a write. *)
LEMMA WriteOffsets ==
  ASSUME IInv, NEW from \in Chunk, ak_rb_write(from)
  PROVE  /\ Len(from) \in Nat /\ Len(from) <= TotalLen
         /\ write' = IF write + Len(from) <= TotalLen
                       THEN write + Len(from) ELSE write + Len(from) - TotalLen
         /\ remain' = IF remain + Len(from) >= TotalLen
                        THEN TotalLen ELSE remain + Len(from)
         /\ read' = IF remain + Len(from) >= TotalLen THEN write' ELSE read
<1>1. Len(from) \in Nat /\ Len(from) <= TotalLen
  BY ChunkType DEF ak_rb_write, Advance, Deposit, KeepNewest
<1>2. write' = IF write + Len(from) <= TotalLen
                 THEN write + Len(from) ELSE write + Len(from) - TotalLen
  <2>1. CASE TotalLen - write >= Len(from)
    BY <1>1, <2>1, Ranges DEF ak_rb_write, Advance, Deposit, KeepNewest
  <2>2. CASE ~(TotalLen - write >= Len(from))
    <3>1. write' = Len(from) - (TotalLen - write)
      BY <2>2 DEF ak_rb_write, Advance, Deposit, KeepNewest
    <3>2. QED
      BY <1>1, <2>2, <3>1, Ranges
  <2>3. QED
    BY <2>1, <2>2
<1>3. /\ remain' = IF remain + Len(from) >= TotalLen
                     THEN TotalLen ELSE remain + Len(from)
      /\ read' = IF remain + Len(from) >= TotalLen THEN write' ELSE read
  BY DEF ak_rb_write, Advance, Deposit, KeepNewest
<1>4. QED
  BY <1>1, <1>2, <1>3

LEMMA WriteInv ==
  ASSUME IInv, NEW from \in Chunk, ak_rb_write(from)
  PROVE  IInv'
<1>1. /\ remain' \in 0..TotalLen
      /\ read' \in 0..TotalLen
      /\ write' \in 0..TotalLen
      /\ read' + remain' = write' \/ read' + remain' = write' + TotalLen
  <2>1. /\ Len(from) \in Nat /\ Len(from) <= TotalLen
        /\ write' = IF write + Len(from) <= TotalLen
                      THEN write + Len(from) ELSE write + Len(from) - TotalLen
    BY WriteOffsets
  <2>2. write' \in 0..TotalLen
    BY <2>1, Ranges
  <2>3. CASE remain + Len(from) >= TotalLen
    <3>1. remain' = TotalLen /\ read' = write'
      BY <2>3, WriteOffsets
    <3>2. QED
      BY <2>2, <3>1, Ranges
  <2>4. CASE ~(remain + Len(from) >= TotalLen)
    <3>1. remain' = remain + Len(from) /\ read' = read
      BY <2>4, WriteOffsets
    <3> DEFINE n == Len(from)
    <3>2. n \in Nat /\ n <= TotalLen /\ remain + n < TotalLen
      BY <2>1, <2>4, Ranges
    <3> HIDE DEF n
    <3>3. CASE write + n <= TotalLen
      <4>1. write' = write + n
        BY <2>1, <3>3 DEF n
      <4>2. QED
        BY <2>2, <3>1, <3>2, <4>1, Ranges DEF n
    <3>4. CASE ~(write + n <= TotalLen)
      <4>1. write' = write + n - TotalLen
        BY <2>1, <3>4 DEF n
      <4>2. remain' = remain + n /\ read' = read
        BY <3>1 DEF n
      <4>3. read + remain = write + TotalLen \/ read + remain = write
        BY Ranges
      <4>4. QED
        BY <2>2, <3>2, <4>1, <4>2, <4>3, Ranges
    <3>5. QED
      BY <3>3, <3>4
  <2>5. QED
    BY <2>3, <2>4
<1>2. data' \in [0..TotalLen - 1 -> Byte]
  BY WriteData
<1>3. /\ out' \in Seq(Byte) /\ ret' \in Int
      /\ given' \in Chunk /\ asked' \in 0..MaxChunk
  BY EmptyChunk DEF ak_rb_write, Passes, IInv, TypeOK, AK_SUCCESS
<1>4. QED
  BY <1>1, <1>2, <1>3 DEF IInv, TypeOK, OffsetsAgree

(* The offsets after a read. *)
LEMMA ReadOffsets ==
  ASSUME IInv, NEW n \in 0..MaxChunk, ak_rb_read(n),
         NEW got, got = IF n > remain THEN remain ELSE n
  PROVE  /\ got \in Nat /\ got <= remain
         /\ remain' = remain - got
         /\ read' = IF read + got <= TotalLen THEN read + got
                                              ELSE read + got - TotalLen
         /\ ret' = got
<1>1. got \in Nat /\ got <= remain
  BY Ranges, MaxChunkAssumption
<1>2. remain' = remain - got /\ ret' = got
  BY DEF ak_rb_read, Advance, Collect
<1>3. CASE TotalLen - read >= got
  <2>1. read' = read + got
    BY <1>3 DEF ak_rb_read, Advance, Collect
  <2>2. QED
    BY <1>1, <1>2, <1>3, <2>1, Ranges
<1>4. CASE ~(TotalLen - read >= got)
  <2>1. read' = got - (TotalLen - read)
    BY <1>4 DEF ak_rb_read, Advance, Collect
  <2>2. QED
    BY <1>1, <1>2, <1>4, <2>1, Ranges
<1>5. QED
  BY <1>3, <1>4

(* What a read delivers: the oldest bytes, in order. *)
LEMMA ReadData ==
  ASSUME IInv, NEW n \in 0..MaxChunk, ak_rb_read(n),
         NEW got, got = IF n > remain THEN remain ELSE n
  PROVE  /\ out' \in Seq(Byte) /\ Len(out') = got
         /\ \A i \in 1..got : out'[i] = data[Position(read, i)]
<1> DEFINE tail == TotalLen - read
<1>1. /\ got \in Nat /\ got <= TotalLen /\ tail \in Nat /\ read \in Nat
      /\ data \in [0..TotalLen - 1 -> Byte]
  BY ReadOffsets, Ranges DEF IInv, TypeOK
<1>2. CASE tail >= got
  <2>1. out' = Fetch(data, read, got)
    BY <1>2 DEF ak_rb_read, Advance, Collect
  <2>2. out' \in Seq(Byte)
    <3>1. read + got <= TotalLen
      BY <1>1, <1>2, Ranges
    <3>2. QED
      BY <2>1, <3>1, <1>1, FetchType
  <2>3. QED
    BY <2>1, <2>2, <1>1, <1>2, Ranges DEF Fetch, Position
<1>3. CASE ~(tail >= got)
  <2> DEFINE rest == got - tail
             first == Fetch(data, read, tail)
             second == Fetch(data, 0, rest)
  <2>1. out' = first \o second
    BY <1>3 DEF ak_rb_read, Advance, Collect
  <2>2. rest \in Nat /\ rest <= TotalLen
    BY <1>1, <1>3, Ranges
  <2>3. first \in Seq(Byte) /\ second \in Seq(Byte)
    BY <2>2, <1>1, FetchType, Ranges
  <2>4. /\ Len(first) = tail /\ Len(second) = rest
        /\ \A i \in 1..tail : first[i] = data[read + i - 1]
        /\ \A i \in 1..rest : second[i] = data[i - 1]
    BY <2>2, <1>1 DEF Fetch
  <2> HIDE DEF first, second
  <2>5. /\ out' \in Seq(Byte) /\ Len(out') = tail + rest
        /\ \A i \in 1..tail + rest :
             out'[i] = IF i <= tail THEN first[i] ELSE second[i - tail]
    <3>1. /\ first \o second \in Seq(Byte)
          /\ Len(first \o second) = Len(first) + Len(second)
          /\ \A i \in 1..Len(first) + Len(second) :
               (first \o second)[i]
                 = IF i <= Len(first) THEN first[i] ELSE second[i - Len(first)]
      BY <2>3, ConcatProperties
    <3>2. Len(first) = tail /\ Len(second) = rest
      BY <2>4
    <3>3. QED
      BY <2>1, <3>1, <3>2
  <2>6. ASSUME NEW i \in 1..got
        PROVE  out'[i] = data[Position(read, i)]
    <3>1. CASE i <= tail
      <4>1. i \in 1..tail /\ i \in 1..tail + rest
        BY <3>1, <1>1, <2>2
      <4>2. Position(read, i) = read + i - 1
        BY <4>1, <1>1, Ranges DEF Position
      <4>3. QED
        BY <3>1, <4>1, <4>2, <2>4, <2>5
    <3>2. CASE ~(i <= tail)
      <4>1. i - tail \in 1..rest /\ out'[i] = second[i - tail]
        BY <3>2, <2>5, <1>1, <2>2
      <4>2. Position(read, i) = i - tail - 1
        BY <3>2, <1>1, Ranges DEF Position
      <4>3. QED
        BY <4>1, <4>2, <2>4
    <3>3. QED
      BY <3>1, <3>2
  <2>7. QED
    BY <2>5, <2>6, <1>1
<1>4. QED
  BY <1>2, <1>3

LEMMA ReadInv ==
  ASSUME IInv, NEW n \in 0..MaxChunk, ak_rb_read(n)
  PROVE  IInv'
<1> DEFINE got == IF n > remain THEN remain ELSE n
<1>1. /\ remain' \in 0..TotalLen
      /\ read' \in 0..TotalLen
      /\ read' + remain' = write \/ read' + remain' = write + TotalLen
      /\ ret' \in Int
  BY ReadOffsets, Ranges
<1>2. out' \in Seq(Byte)
  BY ReadData
<1>3. /\ write' = write /\ data' = data
      /\ given' \in Chunk /\ asked' \in 0..MaxChunk
  BY EmptyChunk DEF ak_rb_read, Passes
<1>4. QED
  BY <1>1, <1>2, <1>3 DEF IInv, TypeOK, OffsetsAgree

LEMMA StepInv == IInv /\ [Next]_vars => IInv'
<1> SUFFICES ASSUME IInv, [Next]_vars
             PROVE  IInv'
  OBVIOUS
<1>1. CASE \E from \in Chunk : ak_rb_write(from)
  BY <1>1, WriteInv
<1>2. CASE \E from \in Chunk : ak_rb_write_refused(from)
  BY <1>2, EmptyChunk
     DEF IInv, TypeOK, OffsetsAgree, ak_rb_write_refused, Passes, AK_FAILED
<1>3. CASE \E n \in 0..MaxChunk : ak_rb_read(n)
  BY <1>3, ReadInv
<1>4. CASE ak_rb_get_data_len
  BY <1>4, EmptyChunk, TotalLenAssumption
     DEF IInv, TypeOK, OffsetsAgree, ak_rb_get_data_len, Passes
<1>5. CASE ak_rb_reset
  BY <1>5, EmptyChunk, TotalLenAssumption, ZeroByteAssumption
     DEF IInv, TypeOK, OffsetsAgree, ak_rb_reset, Passes, AK_SUCCESS
<1>6. CASE UNCHANGED vars
  BY <1>6 DEF IInv, TypeOK, OffsetsAgree, vars
<1>7. QED
  BY <1>1, <1>2, <1>3, <1>4, <1>5, <1>6 DEF Next

(* For every buffer size, the offsets stay in range and always describe    *)
(* one region of `remain' bytes (ak_ring_buffer.c 107-207).                *)
THEOREM OffsetsAgreeAlways == Spec => [](TypeOK /\ OffsetsAgree)
<1>1. IInv => TypeOK /\ OffsetsAgree
  BY DEF IInv
<1>2. QED
  BY InitInv, StepInv, <1>1, PTL DEF Spec
-----------------------------------------------------------------------------
(* The refinement: every step of the buffer is a step of the queue of the  *)
(* newest TotalLen bytes.                                                  *)

(* A region of the array is a sequence of bytes. *)
LEMMA RegionType ==
  ASSUME NEW a \in [0..TotalLen - 1 -> Byte], NEW at \in 0..TotalLen,
         NEW n \in 0..TotalLen
  PROVE  /\ Region(a, at, n) \in Seq(Byte) /\ Len(Region(a, at, n)) = n
         /\ \A i \in 1..n : Region(a, at, n)[i] = a[Position(at, i)]
<1>1. \A i \in 1..n : Position(at, i) \in 0..TotalLen - 1
  BY TotalLenAssumption DEF Position
<1>2. Region(a, at, n) \in [1..n -> Byte]
  BY <1>1 DEF Region
<1>3. QED
  BY <1>2, TotalLenAssumption DEF Region

LEMMA StoredType ==
  ASSUME IInv
  PROVE  /\ Stored \in Seq(Byte) /\ Len(Stored) = remain
         /\ \A i \in 1..remain : Stored[i] = data[Position(read, i)]
BY RegionType DEF IInv, TypeOK, Stored

LEMMA StoredTypePrime ==
  ASSUME IInv'
  PROVE  /\ Stored' \in Seq(Byte) /\ Len(Stored') = remain'
         /\ \A i \in 1..remain' : Stored'[i] = data'[Position(read', i)]
<1>1. /\ data' \in [0..TotalLen - 1 -> Byte]
      /\ read' \in 0..TotalLen /\ remain' \in 0..TotalLen
  BY DEF IInv, TypeOK
<1>2. Stored' = Region(data', read', remain')
  BY DEF Stored
<1>3. QED
  BY <1>1, <1>2, RegionType

(* Byte i stored after a write is byte i of the old content followed by    *)
(* the chunk, once the overwritten bytes are dropped from its front.       *)
LEMMA WriteContent ==
  ASSUME IInv, NEW from \in Chunk, ak_rb_write(from), NEW i \in 1..remain',
         NEW j
  PROVE  j = i + (remain + Len(from) - remain') =>
         /\ j \in 1..remain + Len(from)
         /\ data'[Position(read', i)] = IF j <= remain THEN data[Position(read, j)]
                                                 ELSE from[j - remain]
<1>0. SUFFICES ASSUME j = i + (remain + Len(from) - remain')
               PROVE  /\ j \in 1..remain + Len(from)
                      /\ data'[Position(read', i)] = IF j <= remain THEN data[Position(read, j)]
                                                              ELSE from[j - remain]
  OBVIOUS
<1> DEFINE n == Len(from)
           p == Position(read', i)
<1>1. /\ TotalLen \in Nat /\ TotalLen > 0 /\ n \in Nat /\ n <= TotalLen
      /\ remain \in Nat /\ remain <= TotalLen
      /\ read \in Nat /\ read <= TotalLen
      /\ write \in Nat /\ write <= TotalLen
      /\ read + remain = write \/ read + remain = write + TotalLen
      /\ write' = IF write + n <= TotalLen THEN write + n ELSE write + n - TotalLen
      /\ remain' = IF remain + n >= TotalLen THEN TotalLen ELSE remain + n
      /\ read' = IF remain + n >= TotalLen THEN write' ELSE read
  BY Ranges, WriteOffsets
<1>2. p = IF read' + i - 1 < TotalLen THEN read' + i - 1 ELSE read' + i - 1 - TotalLen
  BY DEF Position
<1>3. Position(read, j) = IF read + j - 1 < TotalLen THEN read + j - 1
                                              ELSE read + j - 1 - TotalLen
  BY DEF Position
<1> HIDE DEF n, p
<1>4. i \in 1..remain' /\ j = i + (remain + n - remain')
  BY <1>0 DEF n
<1>5. j \in 1..remain + n /\ i \in Nat /\ i >= 1 /\ i <= remain' /\ j \in Nat
  BY <1>1, <1>4
<1>6. p \in 0..TotalLen - 1
  BY <1>1, <1>2, <1>5
<1>7. data'[p] = IF write <= p /\ p < write + n
                   THEN from[p - write + 1]
                   ELSE IF p + TotalLen < write + n
                          THEN from[p + TotalLen - write + 1]
                          ELSE data[p]
  BY <1>6, WriteData DEF n
<1>8. CASE j <= remain
  <2>1. p = Position(read, j)
    BY <1>1, <1>2, <1>3, <1>4, <1>5, <1>8
  <2>2. ~(write <= p /\ p < write + n) /\ ~(p + TotalLen < write + n)
    BY <1>1, <1>2, <1>4, <1>5, <1>8
  <2>3. QED
    BY <1>5, <1>7, <1>8, <2>1, <2>2 DEF p, n
<1>9. CASE ~(j <= remain)
  <2>1. CASE write + (j - remain) - 1 < TotalLen
    <3>1. p = write + (j - remain) - 1
      BY <1>1, <1>2, <1>4, <1>5, <1>9, <2>1
    <3>2. /\ j <= remain + n /\ j > remain /\ p \in Nat
          /\ j \in Nat /\ n \in Nat /\ remain \in Nat /\ write \in Nat
      BY <1>1, <1>5, <1>6, <1>9
    <3>3. write <= p /\ p < write + n /\ p - write + 1 = j - remain
      BY <3>1, <3>2
    <3>4. QED
      BY <1>5, <1>7, <1>9, <3>3 DEF p, n
  <2>2. CASE ~(write + (j - remain) - 1 < TotalLen)
    <3>1. p = write + (j - remain) - 1 - TotalLen
      BY <1>1, <1>2, <1>4, <1>5, <1>9, <2>2
    <3>2. /\ j <= remain + n /\ j > remain /\ p \in Nat /\ p < TotalLen
          /\ j \in Nat /\ n \in Nat /\ remain \in Nat /\ write \in Nat
          /\ TotalLen \in Nat /\ j <= remain + TotalLen
          /\ i \in Nat /\ remain' \in Nat
      BY <1>1, <1>5, <1>6, <1>9
    <3>3. p + TotalLen - write + 1 = j - remain
      BY <3>1, <3>2
    <3>4. ~(write <= p)
      BY <3>1, <3>2
    <3>5. p + TotalLen < write + n
      BY <3>1, <3>2
    <3>6. QED
      BY <1>5, <1>7, <1>9, <3>3, <3>4, <3>5 DEF p, n
  <2>3. QED
    BY <2>1, <2>2
<1>10. QED
  BY <1>8, <1>9

(* A write puts the chunk at the end of the queue and keeps the newest. *)
LEMMA WriteRefines ==
  ASSUME IInv, NEW from \in Chunk, ak_rb_write(from)
  PROVE  Window!Put(from)
<1> DEFINE cat == Stored \o from
           len == remain + Len(from)
           drop == len - remain'
<1>1. /\ from \in Seq(Byte) /\ Len(from) \in Nat /\ Len(from) <= TotalLen
      /\ remain \in Nat /\ remain' \in Nat /\ TotalLen \in Nat
      /\ remain' = IF len >= TotalLen THEN TotalLen ELSE len
  BY ChunkType, WriteOffsets, Ranges
<1>2. /\ Stored \in Seq(Byte) /\ Len(Stored) = remain
      /\ \A i \in 1..remain : Stored[i] = data[Position(read, i)]
  BY StoredType
<1>3. /\ Stored' \in Seq(Byte) /\ Len(Stored') = remain'
      /\ \A i \in 1..remain' : Stored'[i] = data'[Position(read', i)]
  BY WriteInv, StoredTypePrime
<1>4. /\ cat \in Seq(Byte) /\ Len(cat) = len
      /\ \A i \in 1..len : cat[i] = IF i <= remain THEN Stored[i]
                                                   ELSE from[i - remain]
  <2>1. /\ Stored \o from \in Seq(Byte)
        /\ Len(Stored \o from) = Len(Stored) + Len(from)
        /\ \A i \in 1..Len(Stored) + Len(from) :
             (Stored \o from)[i]
               = IF i <= Len(Stored) THEN Stored[i] ELSE from[i - Len(Stored)]
    BY <1>1, <1>2, ConcatProperties
  <2>2. QED
    BY <1>2, <2>1
<1>5. \A i \in 1..remain' : Stored'[i] = cat[i + drop]
  <2> TAKE i \in 1..remain'
  <2> DEFINE j == i + drop
  <2>0. j = i + (remain + Len(from) - remain')
    BY <1>1
  <2> HIDE DEF j
  <2>1. /\ j \in 1..remain + Len(from)
        /\ data'[Position(read', i)] = IF j <= remain THEN data[Position(read, j)]
                                                ELSE from[j - remain]
    BY <2>0, WriteContent
  <2>2. cat[j] = IF j <= remain THEN Stored[j] ELSE from[j - remain]
    BY <2>1, <1>4
  <2>3. j <= remain => Stored[j] = data[Position(read, j)]
    BY <2>1, <1>1, <1>2
  <2>4. Stored'[i] = cat[j]
    BY <2>1, <2>2, <2>3, <1>3
  <2>5. QED
    BY <2>4 DEF j
<1>6. Stored' = Window!Newest(cat)
  <2> HIDE DEF cat
  <2>1. CASE len <= TotalLen
    <3>1. remain' = len /\ drop = 0
      BY <2>1, <1>1
    <3>2. Stored' = cat
      BY <3>1, <1>1, <1>3, <1>4, <1>5, SeqEqual
    <3>3. QED
      BY <3>2, <2>1, <1>4 DEF Window!Newest
  <2>2. CASE ~(len <= TotalLen)
    <3> DEFINE tail == SubSeq(cat, len - TotalLen + 1, len)
    <3>0. len \in Nat
      BY <1>1
    <3> HIDE DEF len
    <3>1. remain' = TotalLen /\ drop = len - TotalLen /\ drop \in Nat
      BY <3>0, <2>2, <1>1
    <3>2. /\ tail \in Seq(Byte) /\ Len(tail) = TotalLen
          /\ \A i \in 1..TotalLen : tail[i] = cat[i + drop]
      <4>1. \A i \in len - TotalLen + 1..len : cat[i] \in Byte
        BY <3>0, <3>1, <1>1, <1>4
      <4>2. /\ tail \in Seq(Byte)
            /\ Len(tail) = IF len - TotalLen + 1 <= len
                             THEN len - (len - TotalLen + 1) + 1 ELSE 0
            /\ \A i \in 1..len - (len - TotalLen + 1) + 1 :
                 tail[i] = cat[len - TotalLen + 1 + i - 1]
        BY <3>0, <4>1, <1>1, SubSeqProperties
      <4> HIDE DEF tail
      <4>3. len - TotalLen + 1 <= len /\ len - (len - TotalLen + 1) + 1 = TotalLen
        BY <3>0, <1>1, TotalLenAssumption
      <4>4. \A i \in 1..TotalLen : len - TotalLen + 1 + i - 1 = i + drop
        BY <3>0, <3>1, <1>1
      <4>5. QED
        BY <4>2, <4>3, <4>4
    <3> HIDE DEF tail
    <3>3. Stored' = tail
      BY <3>1, <3>2, <1>3, <1>5, SeqEqual
    <3>4. QED
      BY <3>3, <2>2, <1>4 DEF Window!Newest, tail
  <2>3. QED
    BY <2>1, <2>2
<1>7. QED
  BY <1>1, <1>6 DEF Window!Put, Window!Passes, Passes, ak_rb_write, AK_SUCCESS

(* A read delivers the front of the queue and keeps the rest. *)
LEMMA ReadRefines ==
  ASSUME IInv, NEW n \in 0..MaxChunk, ak_rb_read(n)
  PROVE  Window!Take(n)
<1> DEFINE got == IF n > remain THEN remain ELSE n
<1>1. /\ got \in Nat /\ got <= remain /\ remain \in Nat /\ ret' = got
      /\ remain' = remain - got /\ TotalLen \in Nat
      /\ read' = IF read + got <= TotalLen THEN read + got
                                           ELSE read + got - TotalLen
      /\ read \in Nat /\ read <= TotalLen /\ remain <= TotalLen
  BY ReadOffsets, Ranges
<1>2. /\ out' \in Seq(Byte) /\ Len(out') = got
      /\ \A i \in 1..got : out'[i] = data[Position(read, i)]
  BY ReadData
<1>3. /\ Stored \in Seq(Byte) /\ Len(Stored) = remain
      /\ \A i \in 1..remain : Stored[i] = data[Position(read, i)]
  BY StoredType
<1>4. /\ Stored' \in Seq(Byte) /\ Len(Stored') = remain'
      /\ \A i \in 1..remain' : Stored'[i] = data'[Position(read', i)]
  BY ReadInv, StoredTypePrime
<1>5. got = IF n > Len(Stored) THEN Len(Stored) ELSE n
  BY <1>3
<1> HIDE DEF got
<1>6. out' = SubSeq(Stored, 1, got)
  <2> DEFINE front == SubSeq(Stored, 1, got)
  <2>1. /\ front \in Seq(Byte) /\ Len(front) = got
        /\ \A i \in 1..got : front[i] = Stored[i]
    BY <1>1, <1>3
  <2>2. \A i \in 1..got : out'[i] = front[i]
    BY <2>1, <1>1, <1>2, <1>3
  <2> HIDE DEF front
  <2>3. out' = front
    BY <2>1, <2>2, <1>2, SeqEqual
  <2>4. QED
    BY <2>3 DEF front
<1>7. Stored' = SubSeq(Stored, got + 1, Len(Stored))
  <2> DEFINE back == SubSeq(Stored, got + 1, remain)
  <2>1. /\ back \in Seq(Byte) /\ Len(back) = remain - got
        /\ \A i \in 1..remain - got : back[i] = Stored[got + i]
    BY <1>1, <1>3
  <2>2. ASSUME NEW i \in 1..remain - got
        PROVE  Stored'[i] = back[i]
    <3>1. got + i \in 1..remain /\ i \in 1..remain' /\ i \in Nat /\ i >= 1
      BY <1>1
    <3>2. Position(read', i) = Position(read, got + i)
      BY <3>1, <1>1 DEF Position
    <3>3. data' = data
      BY DEF ak_rb_read
    <3>4. QED
      BY <3>1, <3>2, <3>3, <2>1, <1>3, <1>4
  <2> HIDE DEF back
  <2>3. Stored' = back
    BY <2>1, <2>2, <1>1, <1>4, SeqEqual
  <2>4. QED
    BY <2>3, <1>3 DEF back
<1>8. QED
  BY <1>1, <1>5, <1>6, <1>7 DEF Window!Take, Window!Passes, Passes, ak_rb_read

(* With nothing stored the queue is empty. *)
LEMMA NothingStored ==
  /\ remain = 0 => Stored = <<>>
  /\ remain' = 0 => Stored' = <<>>
<1>1. \A a, at : Region(a, at, 0) = <<>>
  BY DEF Region
<1>2. QED
  BY <1>1 DEF Stored

LEMMA InitRefines == Init => Window!Init
BY NothingStored DEF Init, Window!Init, AK_SUCCESS

(* A step that touches neither the offsets nor the array keeps the queue.  *)
LEMMA StoredUnchanged ==
  UNCHANGED <<remain, read, write, data>> => Stored' = Stored
BY DEF Stored

LEMMA StepRefines == IInv /\ [Next]_vars => [Window!Next]_(Window!vars)
<1> SUFFICES ASSUME IInv, [Next]_vars
             PROVE  [Window!Next]_(Window!vars)
  OBVIOUS
<1>0. Window!Chunk = Chunk
  BY DEF Window!Chunk, Chunk
<1>1. CASE \E from \in Chunk : ak_rb_write(from)
  BY <1>0, <1>1, WriteRefines DEF Window!Next
<1>2. CASE \E from \in Chunk : ak_rb_write_refused(from)
  <2>1. PICK from \in Chunk : ak_rb_write_refused(from)
    BY <1>2
  <2>2. Window!Refuse(from)
    BY <2>1, StoredUnchanged DEF ak_rb_write_refused, Window!Refuse, Window!Passes, Passes, AK_FAILED
  <2>3. QED
    BY <1>0, <2>2 DEF Window!Next
<1>3. CASE \E n \in 0..MaxChunk : ak_rb_read(n)
  BY <1>3, ReadRefines DEF Window!Next
<1>4. CASE ak_rb_get_data_len
  <2>1. Window!Count
    BY <1>4, StoredUnchanged, StoredType DEF ak_rb_get_data_len, Window!Count, Window!Passes, Passes
  <2>2. QED
    BY <2>1 DEF Window!Next
<1>5. CASE ak_rb_reset
  <2>1. Window!Clear
    BY <1>5, NothingStored DEF ak_rb_reset, Window!Clear, Window!Passes, Passes, AK_SUCCESS
  <2>2. QED
    BY <2>1 DEF Window!Next
<1>6. CASE UNCHANGED vars
  BY <1>6, StoredUnchanged DEF vars, Window!vars
<1>7. QED
  BY <1>1, <1>2, <1>3, <1>4, <1>5, <1>6 DEF Next

(* For every buffer size, alphabet and chunk bound, the array with its two *)
(* wrapping offsets is the queue of the newest TotalLen bytes: nothing is  *)
(* delivered twice, out of order or torn by a wrap, and only the oldest    *)
(* bytes are ever forgotten (ak_ring_buffer.c 107-207).                    *)
THEOREM RingBufferRefinesWindow == Spec => ImplementsWindow
<1>1. Spec => []IInv
  BY InitInv, StepInv, PTL DEF Spec
<1>2. QED
  BY <1>1, InitRefines, StepRefines, PTL DEF Spec, ImplementsWindow, Window!Spec
=============================================================================
