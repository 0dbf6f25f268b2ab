----------------------- MODULE ConnBufferStreamProofs -----------------------
(***************************************************************************)
(* Proofs that the connection buffers implement ByteStream, for any number *)
(* of connections, any capacity of the mbufs and any recycle limit: what   *)
(* the mbufs of a connection hold, and what data_size says about it.       *)
(***************************************************************************)
EXTENDS ConnBufferProofs, BoundedSets

-----------------------------------------------------------------------------
(* What the mbufs of a connection hold.                                    *)

\* The bytes in front of the k-th mbuf when all mbufs before it are full.
Offset(k) == (k - 1) * Cap

\* The number of the byte before the first mbuf's first.
Base(c) == Len(out[c]) - mbuf[queue[c][1]].pos

\* The mbuf's bytes are those of c after the first-th.
Holds(b, c, first) == \A j \in 1 .. b.last : b.data[j] = <<c, first + j>>

\* The k-th mbuf of L.  None that is read out and full stays in the queue.
InPlace(b, k, L) ==
    /\ k < L => b.last = Cap
    /\ k > 1 => b.pos = 0
    /\ b.pos < Cap

\* QueueHoldsStream for one connection.
StreamOf(c) ==
    /\ queue[c] = <<>> => sent[c] = Len(out[c])
    /\ queue[c] # <<>> =>
          /\ \A k \in 1 .. Len(queue[c]) :
                /\ Holds(mbuf[queue[c][k]], c, Base(c) + Offset(k))
                /\ InPlace(mbuf[queue[c][k]], k, Len(queue[c]))
          /\ sent[c] = Base(c) + Offset(Len(queue[c])) + mbuf[queue[c][Len(queue[c])]].last

\* Mbufs lie Cap bytes apart.
LEMMA OffsetFacts ==
    /\ Offset(1) = 0
    /\ \A k \in Nat : Offset(k) \in Int /\ Offset(k + 1) = Offset(k) + Cap
<1>1. Cap \in Nat
  BY ConnBufferAssumption
<1>2. Offset(1) = 0
  BY <1>1 DEF Offset
<1>3. ASSUME NEW k \in Nat PROVE Offset(k) \in Int /\ Offset(k + 1) = Offset(k) + Cap
  <2>1. (k + 1) - 1 = (k - 1) + 1
    OBVIOUS
  <2>2. ((k - 1) + 1) * Cap = (k - 1) * Cap + Cap
    BY <1>1
  <2> QED  BY <1>1, <2>1, <2>2 DEF Offset
<1> QED  BY <1>2, <1>3

\* The elements of a queue are among its mbufs, and their contents are typed.
LEMMA QueueFacts ==
    ASSUME TypeInv, ShareInv, NEW c \in Conn
    PROVE  /\ queue[c] \in Seq(Mbuf) /\ Len(queue[c]) \in Nat
           /\ queue[c] # <<>> => Len(queue[c]) \in Nat \ {0}
           /\ \A k \in 1 .. Len(queue[c]) :
                 /\ queue[c][k] \in Range(queue[c]) /\ queue[c][k] \in Mbuf
                 /\ mbuf[queue[c][k]] \in Buffer
                 /\ mbuf[queue[c][k]].pos \in 0 .. Cap /\ mbuf[queue[c][k]].last \in 0 .. Cap
                 /\ mbuf[queue[c][k]].pos <= mbuf[queue[c][k]].last
           /\ \A k, l \in 1 .. Len(queue[c]) : queue[c][k] = queue[c][l] => k = l
           /\ sent[c] \in Nat /\ out[c] \in Seq(Byte) /\ Len(out[c]) \in Nat
           /\ Cap \in Nat \ {0} /\ IsInjective(queue[c])
<1>1. /\ queue[c] \in Seq(Mbuf) /\ IsInjective(queue[c]) /\ sent[c] \in Nat /\ out[c] \in Seq(Byte)
      /\ mbuf \in [Mbuf -> Buffer]
  BY DEF TypeInv, TypeOK, ShareInv, Buffer
<1>2. /\ Len(queue[c]) \in Nat /\ Len(out[c]) \in Nat
      /\ queue[c] # <<>> => Len(queue[c]) \in Nat \ {0}
  BY <1>1, LenProperties, EmptySeq
<1>3. /\ \A k \in 1 .. Len(queue[c]) : queue[c][k] \in Range(queue[c]) /\ queue[c][k] \in Mbuf
      /\ \A k, l \in 1 .. Len(queue[c]) : queue[c][k] = queue[c][l] => k = l
  BY <1>1, RangeByPosition
<1>4. \A m \in Mbuf : /\ mbuf[m] \in Buffer /\ mbuf[m].pos \in 0 .. Cap /\ mbuf[m].last \in 0 .. Cap
                      /\ mbuf[m].pos <= mbuf[m].last
  BY <1>1 DEF TypeInv, MarkerInv, Buffer
<1> QED  BY <1>1, <1>2, <1>3, <1>4, ConnBufferAssumption

\* A step that touches neither a connection nor its mbufs.
LEMMA StreamFrame ==
    ASSUME TypeInv, ShareInv, NEW c \in Conn, StreamOf(c),
           queue'[c] = queue[c], sent'[c] = sent[c], out'[c] = out[c],
           \A m \in Range(queue[c]) : mbuf'[m] = mbuf[m]
    PROVE  StreamOf(c)'
<1>1. \A k \in 1 .. Len(queue[c]) : mbuf'[queue'[c][k]] = mbuf[queue[c][k]]
  BY QueueFacts
<1>2. CASE queue[c] = <<>>
  BY <1>2 DEF StreamOf
<1>3. CASE queue[c] # <<>>
  <2>1. Len(queue[c]) \in Nat \ {0}
    BY <1>3, QueueFacts
  <2>2. 1 \in 1 .. Len(queue[c]) /\ Len(queue[c]) \in 1 .. Len(queue[c])
    BY <2>1
  <2>3. Base(c)' = Base(c)
    BY <1>1, <2>2 DEF Base
  <2> QED  BY <1>1, <1>3, <2>2, <2>3 DEF StreamOf
<1> QED  BY <1>2, <1>3

\* An empty mbuf goes behind a queue whose last mbuf is full.
LEMMA StreamAppend ==
    ASSUME TypeInv, ShareInv, NEW c \in Conn, StreamOf(c), ~ LastHasRoom(c),
           NEW m \in Mbuf, m \notin Range(queue[c]),
           queue'[c] = Append(queue[c], m), sent'[c] = sent[c], out'[c] = out[c],
           \A l \in Mbuf \ {m} : mbuf'[l] = mbuf[l],
           mbuf'[m].pos = 0, mbuf'[m].last = 0
    PROVE  StreamOf(c)'
<1> DEFINE q == queue[c]
           L == Len(q)
<1>1. /\ q \in Seq(Mbuf) /\ IsInjective(q) /\ L \in Nat /\ Cap \in Nat \ {0}
      /\ Len(out[c]) \in Nat /\ sent[c] \in Nat
  BY QueueFacts
<1>2. /\ queue'[c] # <<>> /\ Len(queue'[c]) = L + 1
      /\ \A k \in 1 .. L : queue'[c][k] = q[k]
      /\ queue'[c][L + 1] = m
  BY <1>1, AppendFacts
<1>3. \A k \in 1 .. L : mbuf'[queue'[c][k]] = mbuf[q[k]]
  BY <1>2, QueueFacts
<1>4. CASE q = <<>>
  <2>1. L = 0
    BY <1>4
  <2>2. queue'[c][1] = m /\ Len(queue'[c]) = 1
    BY <1>2, <2>1
  <2>3. Base(c)' = Len(out[c]) /\ sent[c] = Len(out[c])
    BY <1>1, <1>4, <2>2 DEF Base, StreamOf
  <2>4. Holds(mbuf'[m], c, Base(c)' + Offset(1)) /\ InPlace(mbuf'[m], 1, 1)
    BY <1>1 DEF Holds, InPlace
  <2>5. sent'[c] = Base(c)' + Offset(1) + mbuf'[m].last
    <3>1. Offset(1) = 0
      BY OffsetFacts
    <3> QED  BY <1>1, <2>3, <3>1
  <2> QED  BY <1>2, <2>2, <2>4, <2>5 DEF StreamOf
<1>5. CASE q # <<>>
  <2>1. L \in Nat \ {0} /\ 1 \in 1 .. L /\ L \in 1 .. L /\ 1 .. L + 1 = 1 .. L \cup {L + 1}
    BY <1>1, <1>5, QueueFacts
  <2>2. mbuf[q[L]].last = Cap
    <3>1. Last(q) = q[L]
      BY DEF Last
    <3>2. mbuf_write_size(q[L]) = 0
      BY <1>5, <3>1 DEF LastHasRoom
    <3>3. mbuf[q[L]].last \in 0 .. Cap
      BY <2>1, QueueFacts
    <3> QED  BY <3>2, <3>3, <1>1 DEF mbuf_write_size
  <2>3. Base(c)' = Base(c) /\ Base(c) \in Int
    <3>1. mbuf[q[1]].pos \in 0 .. Cap
      BY <2>1, QueueFacts
    <3> QED  BY <1>1, <1>3, <2>1, <3>1 DEF Base
  <2>4. \A k \in 1 .. L : /\ Holds(mbuf[q[k]], c, Base(c) + Offset(k))
                          /\ InPlace(mbuf[q[k]], k, L + 1)
    <3> SUFFICES ASSUME NEW k \in 1 .. L
                 PROVE  /\ Holds(mbuf[q[k]], c, Base(c) + Offset(k))
                        /\ InPlace(mbuf[q[k]], k, L + 1)
      OBVIOUS
    <3>1. Holds(mbuf[q[k]], c, Base(c) + Offset(k)) /\ InPlace(mbuf[q[k]], k, L)
      BY <1>5 DEF StreamOf
    <3>2. mbuf[q[k]].last = Cap
      BY <2>1, <2>2, <3>1 DEF InPlace
    <3> QED  BY <3>1, <3>2 DEF InPlace
  <2>5. Holds(mbuf'[m], c, Base(c) + Offset(L + 1)) /\ InPlace(mbuf'[m], L + 1, L + 1)
    BY <1>1, <2>1 DEF Holds, InPlace
  <2>6. sent[c] = Base(c) + Offset(L) + Cap
    BY <1>5, <2>2 DEF StreamOf
  <2>7. sent'[c] = Base(c)' + Offset(L + 1) + mbuf'[m].last
    <3>1. Offset(L) \in Int /\ Offset(L + 1) = Offset(L) + Cap
      BY <1>1, OffsetFacts
    <3> QED  BY <1>1, <2>3, <2>6, <3>1
  <2>8. \A k \in 1 .. L + 1 : /\ Holds(mbuf'[queue'[c][k]], c, Base(c)' + Offset(k))
                              /\ InPlace(mbuf'[queue'[c][k]], k, Len(queue'[c]))
    BY <1>2, <1>3, <2>1, <2>3, <2>4, <2>5
  <2> QED  BY <1>2, <2>7, <2>8 DEF StreamOf
<1> QED  BY <1>4, <1>5

\* The next n bytes of the stream go into the last mbuf.
LEMMA StreamFill ==
    ASSUME TypeInv, ShareInv, NEW c \in Conn, pc = "write", cur = c, LastHasRoom(c), StreamOf(c),
           NEW n \in Nat, n <= mbuf_write_size(Last(queue[c])),
           mbuf' = Filled(Last(queue[c]), n),
           queue'[c] = queue[c], sent'[c] = sent[c] + n, out'[c] = out[c]
    PROVE  StreamOf(c)'
<1> DEFINE q == queue[c]
           L == Len(q)
           m == q[L]
<1>1. /\ q # <<>> /\ Last(q) = m
  BY FillSetting, EmptySeq DEF LastHasRoom, Last
<1>2. /\ L \in Nat \ {0} /\ 1 \in 1 .. L /\ L \in 1 .. L /\ m \in Mbuf
      /\ Cap \in Nat \ {0} /\ Len(out[c]) \in Nat /\ sent[c] \in Nat
      /\ mbuf[m].last \in 0 .. Cap /\ mbuf[m].pos \in 0 .. Cap
      /\ mbuf[q[1]].pos \in 0 .. Cap
  BY <1>1, QueueFacts
<1> HIDE DEF m
<1>3. /\ \A l \in Mbuf \ {m} : mbuf'[l] = mbuf[l]
      /\ mbuf'[m].pos = mbuf[m].pos /\ mbuf'[m].last = mbuf[m].last + n
      /\ \A j \in 1 .. Cap :
            mbuf'[m].data[j] = IF j \in mbuf[m].last + 1 .. mbuf[m].last + n
                               THEN <<c, sent[c] + j - mbuf[m].last>>
                               ELSE mbuf[m].data[j]
  <2>1. mbuf' = Filled(m, n) /\ n <= mbuf_write_size(m) /\ TypeOK
    BY <1>1 DEF TypeInv
  <2> QED  BY <1>1, <1>2, <2>1, FilledFacts
<1>4. \A k \in 1 .. L : k # L => mbuf'[q[k]] = mbuf[q[k]]
  BY <1>1, <1>2, <1>3, QueueFacts DEF m
<1>5. Base(c)' = Base(c) /\ Base(c) \in Int
  <2>1. mbuf'[q[1]].pos = mbuf[q[1]].pos
    BY <1>2, <1>3, <1>4 DEF m
  <2> QED  BY <1>2, <2>1 DEF Base
<1>6. Offset(L) \in Int /\ sent[c] = Base(c) + Offset(L) + mbuf[m].last
  BY <1>1, <1>2, OffsetFacts DEF StreamOf, m
<1>7. \A k \in 1 .. L : /\ Holds(mbuf'[q[k]], c, Base(c) + Offset(k))
                        /\ InPlace(mbuf'[q[k]], k, L)
  <2> SUFFICES ASSUME NEW k \in 1 .. L
               PROVE  /\ Holds(mbuf'[q[k]], c, Base(c) + Offset(k))
                      /\ InPlace(mbuf'[q[k]], k, L)
    OBVIOUS
  <2>1. Holds(mbuf[q[k]], c, Base(c) + Offset(k)) /\ InPlace(mbuf[q[k]], k, L)
    BY <1>1 DEF StreamOf
  <2>2. CASE k # L
    BY <1>4, <2>1, <2>2
  <2>3. CASE k = L
    <3>1. \A j \in 1 .. mbuf[m].last : mbuf[m].data[j] = <<c, Base(c) + Offset(L) + j>>
      BY <2>1, <2>3 DEF Holds, m
    <3>2. mbuf[m].last + n <= Cap
      BY <1>1, <1>2 DEF mbuf_write_size
    <3>3. ASSUME NEW j \in 1 .. mbuf[m].last + n
          PROVE  mbuf'[m].data[j] = <<c, Base(c) + Offset(L) + j>>
      <4>1. j \in 1 .. Cap
        BY <1>2, <3>2
      <4>2. CASE j <= mbuf[m].last
        <5>1. j \in 1 .. mbuf[m].last /\ j \notin mbuf[m].last + 1 .. mbuf[m].last + n
          BY <1>2, <4>1, <4>2
        <5>2. mbuf'[m].data[j] = mbuf[m].data[j]
          BY <1>3, <4>1, <5>1
        <5> QED  BY <3>1, <5>1, <5>2
      <4>3. CASE j > mbuf[m].last
        <5>1. j \in mbuf[m].last + 1 .. mbuf[m].last + n
          BY <1>2, <4>1, <4>3
        <5>2. mbuf'[m].data[j] = <<c, sent[c] + j - mbuf[m].last>>
          BY <1>3, <4>1, <5>1
        <5>3. sent[c] + j - mbuf[m].last = Base(c) + Offset(L) + j
          <6> DEFINE s == sent[c]
                     l == mbuf[m].last
                     f == Offset(L)
                     b == Base(c)
          <6>1. s \in Int /\ l \in Int /\ f \in Int /\ b \in Int /\ j \in Int /\ s = b + f + l
            BY <1>2, <1>5, <1>6, <4>1
          <6> HIDE DEF s, l, f, b
          <6>2. s + j - l = b + f + j
            BY <6>1
          <6> QED  BY <6>2 DEF s, l, f, b
        <5> QED  BY <5>2, <5>3
      <4> QED  BY <1>2, <4>1, <4>2, <4>3
    <3>4. Holds(mbuf'[m], c, Base(c) + Offset(L))
      BY <1>3, <3>3 DEF Holds
    <3>5. InPlace(mbuf'[m], L, L)
      BY <1>2, <1>3, <2>1, <2>3 DEF InPlace, m
    <3> QED  BY <2>3, <3>4, <3>5 DEF m
  <2> QED  BY <2>2, <2>3
<1>8. sent'[c] = Base(c)' + Offset(L) + mbuf'[m].last
  BY <1>2, <1>3, <1>5, <1>6
<1> QED  BY <1>1, <1>5, <1>7, <1>8 DEF StreamOf, m

\* What ReadMbuf copies are the next bytes of the stream, and they were
\* written; a short copy from an mbuf with room took all that is left.
LEMMA CopiedNext ==
    ASSUME TypeInv, ShareInv, NEW c \in Conn, StreamOf(c), queue[c] # <<>>,
           NEW m, m = queue[c][1],
           NEW n \in Nat, n <= mbuf_read_size(m)
    PROVE  /\ Copied(m, n) = [i \in 1 .. n |-> <<c, Len(out[c]) + i>>]
           /\ Len(out[c]) + n <= sent[c]
           /\ n = mbuf_read_size(m) /\ mbuf_write_size(m) # 0
                 => Len(out[c]) + n = sent[c]
<1> DEFINE q == queue[c]
           L == Len(q)
<1>1. /\ m = q[1] /\ m \in Mbuf /\ L \in Nat \ {0} /\ 1 \in 1 .. L /\ L \in 1 .. L
      /\ Cap \in Nat \ {0} /\ Len(out[c]) \in Nat /\ sent[c] \in Nat
      /\ mbuf[m].pos \in 0 .. Cap /\ mbuf[m].last \in 0 .. Cap
      /\ mbuf[q[L]].last \in 0 .. Cap
  BY QueueFacts
<1>2. /\ Holds(mbuf[m], c, Base(c) + Offset(1)) /\ InPlace(mbuf[m], 1, L)
      /\ sent[c] = Base(c) + Offset(L) + mbuf[q[L]].last
  BY <1>1 DEF StreamOf
<1> DEFINE p == mbuf[m].pos
           l == mbuf[m].last
           z == mbuf[q[L]].last
           o == Len(out[c])
           s == sent[c]
           f == Offset(L)
<1>3. Base(c) = o - p /\ Offset(1) = 0 /\ f \in Int
  BY <1>1, OffsetFacts DEF Base
<1>4. /\ p \in Nat /\ l \in Nat /\ z \in Nat /\ o \in Nat /\ s \in Nat /\ Cap \in Nat
      /\ n <= l - p
  BY <1>1 DEF mbuf_read_size
<1>5. s = o - p + f + z
  BY <1>2, <1>3
<1>6. \A j \in 1 .. l : mbuf[m].data[j] = <<c, Base(c) + Offset(1) + j>>
  BY <1>2 DEF Holds
<1>7. L \in Nat \ {0} /\ (1 < L => l = Cap) /\ (L = 1 => z = l)
  BY <1>1, <1>2 DEF InPlace
<1>8. /\ L = 1 => z = l /\ f = 0
      /\ L # 1 => l = Cap /\ mbuf_write_size(m) = 0 /\ f >= Cap
  <2>1. f = (L - 1) * Cap /\ mbuf_write_size(m) = Cap - l
    BY DEF Offset, mbuf_write_size
  <2> HIDE DEF L, f, l, z
  <2>2. L = 1 => z = l /\ f = 0
    BY <1>4, <1>7, <2>1
  <2>3. ASSUME L # 1 PROVE l = Cap /\ mbuf_write_size(m) = 0
    <3>1. 1 < L
      BY <1>7, <2>3
    <3> QED  BY <1>4, <1>7, <2>1, <3>1
  <2>4. ASSUME L # 1 PROVE f >= Cap
    <3>1. L - 2 \in Nat
      BY <1>7, <2>4
    <3>2. (L - 2) * Cap >= 0
      BY <1>4, <3>1
    <3>3. (L - 1) * Cap = (L - 2) * Cap + Cap
      BY <1>4, <1>7
    <3> QED  BY <1>4, <1>7, <2>1, <3>1, <3>2, <3>3
  <2> QED  BY <2>2, <2>3, <2>4
<1>9. n = mbuf_read_size(m) <=> n = l - p
  BY DEF mbuf_read_size
<1> HIDE DEF p, l, z, o, s, f, L
<1>10. Copied(m, n) = [i \in 1 .. n |-> <<c, o + i>>]
  <2>1. ASSUME NEW i \in 1 .. n PROVE mbuf[m].data[p + i] = <<c, o + i>>
    <3>1. p + i \in 1 .. l
      BY <1>4
    <3>2. mbuf[m].data[p + i] = <<c, Base(c) + Offset(1) + (p + i)>>
      BY <1>6, <3>1
    <3>3. Base(c) + Offset(1) + (p + i) = o + i
      BY <1>3, <1>4
    <3> QED  BY <3>2, <3>3
  <2> QED  BY <2>1 DEF Copied, p
<1>11. o + n <= s /\ (L = 1 /\ n = l - p => o + n = s)
  <2>1. CASE L = 1
    <3>1. s = o - p + l
      BY <1>3, <1>4, <1>5, <1>8, <2>1
    <3> QED  BY <1>4, <3>1
  <2>2. CASE L # 1
    <3>1. f >= Cap /\ n <= Cap - p
      BY <1>4, <1>8, <2>2
    <3> QED  BY <1>3, <1>4, <1>5, <2>2, <3>1
  <2> QED  BY <2>1, <2>2
<1>12. n = mbuf_read_size(m) /\ mbuf_write_size(m) # 0 => o + n = s
  BY <1>8, <1>9, <1>11
<1> QED  BY <1>10, <1>11, <1>12 DEF o, s

\* n bytes are read from the first mbuf, which stays.
LEMMA StreamReadStay ==
    ASSUME TypeInv, ShareInv, NEW c \in Conn, StreamOf(c), queue[c] # <<>>,
           NEW m, m = queue[c][1],
           NEW n \in Nat, n <= mbuf_read_size(m), ~ CanRecycle(m, n),
           \A l \in Mbuf \ {m} : mbuf'[l] = mbuf[l],
           mbuf'[m].pos = mbuf[m].pos + n, mbuf'[m].last = mbuf[m].last, mbuf'[m].data = mbuf[m].data,
           queue'[c] = queue[c], sent'[c] = sent[c], Len(out'[c]) = Len(out[c]) + n
    PROVE  StreamOf(c)'
<1> DEFINE q == queue[c]
           L == Len(q)
<1>1. /\ m = q[1] /\ m \in Mbuf /\ L \in Nat \ {0} /\ 1 \in 1 .. L /\ L \in 1 .. L
      /\ Cap \in Nat \ {0} /\ Len(out[c]) \in Nat /\ sent[c] \in Nat
      /\ mbuf[m].pos \in 0 .. Cap /\ mbuf[m].last \in 0 .. Cap /\ mbuf[m] \in Buffer
  BY QueueFacts
<1>3. \A k \in 1 .. L : k # 1 => mbuf'[q[k]] = mbuf[q[k]]
  BY <1>1, QueueFacts
<1>4. Base(c)' = Base(c)
  BY <1>1 DEF Base
<1>5. mbuf[m].pos + n < Cap
  <2>1. mbuf[m].pos + n <= mbuf[m].last
    BY <1>1 DEF mbuf_read_size
  <2>2. mbuf[m].pos + n # mbuf[m].last \/ Cap - mbuf[m].last # 0
    BY DEF CanRecycle, mbuf_write_size
  <2>3. \A p, z \in 0 .. Cap : p + n <= z /\ (p + n # z \/ Cap - z # 0) => p + n < Cap
    BY <1>1
  <2> QED  BY <1>1, <2>1, <2>2, <2>3
<1>6. \A k \in 1 .. L : /\ Holds(mbuf'[q[k]], c, Base(c) + Offset(k))
                        /\ InPlace(mbuf'[q[k]], k, L)
  <2> SUFFICES ASSUME NEW k \in 1 .. L
               PROVE  /\ Holds(mbuf'[q[k]], c, Base(c) + Offset(k))
                      /\ InPlace(mbuf'[q[k]], k, L)
    OBVIOUS
  <2>1. Holds(mbuf[q[k]], c, Base(c) + Offset(k)) /\ InPlace(mbuf[q[k]], k, L)
    BY DEF StreamOf
  <2>2. CASE k # 1
    BY <1>3, <2>1, <2>2
  <2>3. CASE k = 1
    <3>1. Holds(mbuf'[m], c, Base(c) + Offset(1))
      BY <2>1, <2>3 DEF Holds
    <3>2. InPlace(mbuf'[m], 1, L)
      BY <1>1, <1>5, <2>1, <2>3 DEF InPlace
    <3> QED  BY <2>3, <3>1, <3>2
  <2> QED  BY <2>2, <2>3
<1>7. mbuf'[q[L]].last = mbuf[q[L]].last
  BY <1>1, <1>3
<1> QED  BY <1>1, <1>4, <1>6, <1>7 DEF StreamOf

\* The rest of the first mbuf, which is full, is read, and it is recycled.
LEMMA StreamReadPop ==
    ASSUME TypeInv, ShareInv, NEW c \in Conn, StreamOf(c), queue[c] # <<>>,
           NEW m, m = queue[c][1],
           NEW n \in Nat, CanRecycle(m, n),
           \A l \in Mbuf \ {m} : mbuf'[l] = mbuf[l],
           queue'[c] = Tail(queue[c]), sent'[c] = sent[c], Len(out'[c]) = Len(out[c]) + n
    PROVE  StreamOf(c)'
<1> DEFINE q == queue[c]
           L == Len(q)
<1>1. /\ m = q[1] /\ m \in Mbuf /\ L \in Nat \ {0} /\ 1 \in 1 .. L /\ L \in 1 .. L
      /\ Cap \in Nat \ {0} /\ Len(out[c]) \in Nat /\ sent[c] \in Nat
      /\ mbuf[m].pos \in 0 .. Cap /\ mbuf[m].last \in 0 .. Cap
      /\ mbuf[q[L]].last \in 0 .. Cap
      /\ q \in Seq(Mbuf) /\ IsInjective(q)
  <2>1. /\ L \in Nat \ {0} /\ Cap \in Nat \ {0} /\ Len(out[c]) \in Nat /\ sent[c] \in Nat
        /\ q \in Seq(Mbuf) /\ IsInjective(q)
        /\ \A k \in 1 .. L : /\ q[k] \in Mbuf
                             /\ mbuf[q[k]].pos \in 0 .. Cap /\ mbuf[q[k]].last \in 0 .. Cap
    BY QueueFacts
  <2>2. 1 \in 1 .. L /\ L \in 1 .. L
    <3> HIDE DEF L
    <3> QED  BY <2>1
  <2> QED  BY <2>1, <2>2
<1>2. mbuf[m].pos + n = Cap /\ mbuf[m].last = Cap
  <2> DEFINE l == mbuf[m].last
  <2>1. l \in Nat /\ Cap \in Nat
    BY <1>1
  <2>2. mbuf[m].pos + n = l /\ Cap - l = 0
    BY DEF CanRecycle, mbuf_write_size
  <2> HIDE DEF l
  <2>3. l = Cap
    BY <2>1, <2>2
  <2> QED  BY <2>2, <2>3 DEF l
<1>3. Base(c) = Len(out[c]) - mbuf[m].pos
  BY DEF Base
<1>4. /\ Len(queue'[c]) = L - 1 /\ \A k \in 1 .. L - 1 : queue'[c][k] = q[k + 1]
  BY <1>1, TailFacts
<1>5. \A k \in 1 .. L - 1 : mbuf'[queue'[c][k]] = mbuf[q[k + 1]]
  <2> SUFFICES ASSUME NEW k \in 1 .. L - 1 PROVE mbuf'[queue'[c][k]] = mbuf[q[k + 1]]
    OBVIOUS
  <2>1. k + 1 \in 1 .. L /\ k + 1 # 1
    BY <1>1
  <2>2. q[k + 1] \in Mbuf /\ q[k + 1] # m
    BY <1>1, <2>1, QueueFacts
  <2> QED  BY <1>1, <1>4, <2>2
<1>6. /\ \A k \in 1 .. L : /\ Holds(mbuf[q[k]], c, Base(c) + Offset(k))
                           /\ InPlace(mbuf[q[k]], k, L)
      /\ sent[c] = Base(c) + Offset(L) + mbuf[q[L]].last
  BY DEF StreamOf
<1> HIDE DEF L
<1>7. CASE L = 1
  <2>1. queue'[c] = <<>>
    <3>1. queue'[c] \in Seq(Mbuf) /\ Len(queue'[c]) = 0
      BY <1>1, <1>4, <1>7, TailFacts
    <3> QED  BY <3>1, EmptySeq
  <2>2. sent[c] = Base(c) + Cap
    <3>1. Offset(1) = 0
      BY OffsetFacts
    <3> QED  BY <1>1, <1>2, <1>3, <1>6, <1>7, <3>1
  <2>3. sent'[c] = Len(out'[c])
    BY <1>1, <1>2, <1>3, <2>2
  <2> QED  BY <2>1, <2>3 DEF StreamOf
<1>8. CASE L # 1
  <2>1. L - 1 \in Nat \ {0} /\ 1 \in 1 .. L - 1 /\ L - 1 \in 1 .. L - 1 /\ 2 \in 1 .. L
        /\ (L - 1) + 1 = L /\ 1 + 1 = 2
    BY <1>1, <1>8
  <2>2. queue'[c] # <<>>
    <3>1. Len(queue'[c]) # 0 /\ queue'[c] \in Seq(Mbuf)
      BY <1>1, <1>4, <2>1, TailFacts
    <3> QED  BY <3>1, EmptySeq
  <2>3. Base(c)' = Base(c) + Cap /\ Base(c) \in Int
    <3>1. mbuf'[queue'[c][1]] = mbuf[q[2]]
      <4>1. mbuf'[queue'[c][1]] = mbuf[q[1 + 1]]
        BY <1>5, <2>1
      <4> QED  BY <4>1, <2>1
    <3>2. mbuf[q[2]].pos = 0
      BY <1>6, <2>1 DEF InPlace
    <3>3. Base(c)' = Len(out'[c]) - mbuf'[queue'[c][1]].pos
      BY DEF Base
    <3>4. Base(c)' = Len(out[c]) + n
      BY <1>1, <3>1, <3>2, <3>3
    <3> QED  BY <1>1, <1>2, <1>3, <3>4
  <2>4. ASSUME NEW k \in Nat PROVE Base(c)' + Offset(k) = Base(c) + Offset(k + 1)
    <3>1. Offset(k) \in Int /\ Offset(k + 1) = Offset(k) + Cap
      BY OffsetFacts
    <3>2. \A x, y, z \in Int : (x + z) + y = x + (y + z)
      OBVIOUS
    <3>3. Cap \in Int
      BY <1>1
    <3> QED  BY <2>3, <3>1, <3>2, <3>3
  <2>5. \A k \in 1 .. L - 1 : /\ Holds(mbuf'[queue'[c][k]], c, Base(c)' + Offset(k))
                              /\ InPlace(mbuf'[queue'[c][k]], k, L - 1)
    <3> SUFFICES ASSUME NEW k \in 1 .. L - 1
                 PROVE  /\ Holds(mbuf'[queue'[c][k]], c, Base(c)' + Offset(k))
                        /\ InPlace(mbuf'[queue'[c][k]], k, L - 1)
      OBVIOUS
    <3>1. k \in Nat /\ k + 1 \in 1 .. L /\ k + 1 > 1
      BY <1>1
    <3>2. /\ Holds(mbuf[q[k + 1]], c, Base(c) + Offset(k + 1))
          /\ InPlace(mbuf[q[k + 1]], k + 1, L)
      BY <1>6, <3>1
    <3>3. InPlace(mbuf[q[k + 1]], k, L - 1)
      BY <1>1, <3>1, <3>2 DEF InPlace
    <3> QED  BY <1>5, <2>4, <3>1, <3>2, <3>3
  <2>6. sent'[c] = Base(c)' + Offset(L - 1) + mbuf'[queue'[c][L - 1]].last
    <3>1. mbuf'[queue'[c][L - 1]] = mbuf[q[L]]
      BY <1>5, <2>1
    <3>2. Base(c)' + Offset(L - 1) = Base(c) + Offset(L)
      BY <2>1, <2>4
    <3> QED  BY <1>6, <3>1, <3>2
  <2> QED  BY <1>4, <2>2, <2>5, <2>6 DEF StreamOf
<1> QED  BY <1>7, <1>8

\* All open connections; what a connection starts with; MaxSent is kept.
StreamInv ==
    /\ \A c \in Conn : Open(c) => StreamOf(c)
    /\ \A c \in Conn : life[c] = "unborn" => sent[c] = 0 /\ out[c] = <<>> /\ size[c] = 0
    /\ \A c \in Conn : sent[c] <= MaxSent

\* A new context has no open connection.
LEMMA StreamInvInit == Init => StreamInv
<1> SUFFICES ASSUME Init PROVE StreamInv
  OBVIOUS
<1>1. \A c \in Conn : ~ Open(c)
  BY DEF Init, Open
<1> QED  BY <1>1, ConnBufferAssumption DEF Init, StreamInv

\* A step that leaves queues, mbufs and streams alone, and opens nothing.
LEMMA StreamsFrame ==
    ASSUME TypeInv, ShareInv, StreamInv, UNCHANGED <<queue, mbuf, sent, out>>,
           \A c \in Conn : Open(c)' => Open(c),
           \A c \in Conn : life'[c] = "unborn" => life[c] = "unborn" /\ size'[c] = size[c]
    PROVE  StreamInv'
<1>1. ASSUME NEW c \in Conn, Open(c)' PROVE StreamOf(c)'
  <2>1. StreamOf(c)
    BY <1>1 DEF StreamInv
  <2> QED  BY <2>1, StreamFrame
<1> QED  BY <1>1 DEF StreamInv

\* Every operation keeps every open connection's mbufs in order: the
\* connection it works on by the lemmas above, the others because none of
\* their mbufs is touched.
LEMMA StreamInvNext == TypeInv /\ ShareInv /\ StreamInv /\ [Next]_vars => StreamInv'
<1> SUFFICES ASSUME TypeInv, ShareInv, StreamInv, [Next]_vars PROVE StreamInv'
  OBVIOUS
<1>0. /\ life \in [Conn -> {"unborn", "open", "cached"}] /\ size \in [Conn -> Int]
      /\ sent \in [Conn -> Nat] /\ out \in [Conn -> Seq(Byte)] /\ queue \in [Conn -> Seq(Mbuf)]
      /\ mbuf \in [Mbuf -> Buffer] /\ todo \in Int /\ MaxSent \in Nat
  BY ConnBufferAssumption DEF TypeInv, TypeOK, Buffer
<1>1. ASSUME NEW c \in Conn, context_connection_new(c) PROVE StreamInv'
  <2>1. /\ pc = "idle" /\ pc' # "recycle" /\ UNCHANGED <<queue, mbuf, sent, out, size>>
    BY <1>1 DEF context_connection_new, pool, history
  <2>2. CASE life' = life
    BY <2>1, <2>2, StreamsFrame DEF Open
  <2>3. CASE life' # life
    <3>1. life[c] = "unborn" /\ life' = [life EXCEPT ![c] = "open"]
      BY <1>1, <2>3 DEF context_connection_new
    <3>2. ASSUME NEW d \in Conn, Open(d)' PROVE StreamOf(d)'
      <4>1. CASE d = c
        <5>1. queue[d] = <<>> /\ sent[d] = 0 /\ Len(out[d]) = 0
          BY <3>1, <4>1 DEF ShareInv, StreamInv
        <5> QED  BY <2>1, <5>1 DEF StreamOf
      <4>2. CASE d # c
        <5>1. StreamOf(d)
          BY <1>0, <2>1, <3>1, <3>2, <4>2 DEF Open, StreamInv
        <5> QED  BY <2>1, <5>1, StreamFrame
      <4> QED  BY <4>1, <4>2
    <3> QED  BY <1>0, <2>1, <3>1, <3>2 DEF StreamInv
  <2> QED  BY <2>2, <2>3
<1>2. ASSUME NEW c \in Conn, NEW n \in Lens, con_buf_write(c, n) PROVE StreamInv'
  BY <1>2, StreamsFrame DEF con_buf_write, pool, history, Open
<1>3. ASSUME AppendMbuf PROVE StreamInv'
  <2>1. /\ pc = "write" /\ cur \in Conn /\ mbuf_get /\ ~ LastHasRoom(cur) /\ TypeOK
        /\ queue' = [queue EXCEPT ![cur] = Append(@, NextMbuf)]
        /\ UNCHANGED <<pc, cur, life, size, sent, out>>
    BY <1>3 DEF AppendMbuf, TypeInv, TypeOK, Calls, call, history
  <2> DEFINE m == NextMbuf
  <2> HIDE DEF m
  <2>2. m \in Mbuf /\ \A c \in Conn : m \notin Range(queue[c])
    BY <2>1, GetShares DEF m
  <2>3. /\ \A l \in Mbuf \ {m} : mbuf'[l] = mbuf[l]
        /\ mbuf'[m].pos = 0 /\ mbuf'[m].last = 0
    BY <2>1, GetTypes DEF m
  <2>4. queue'[cur] = Append(queue[cur], m) /\ \A c \in Conn \ {cur} : queue'[c] = queue[c]
    BY <1>0, <2>1 DEF m
  <2>5. ASSUME NEW c \in Conn, Open(c)' PROVE StreamOf(c)'
    <3>1. StreamOf(c)
      BY <2>1, <2>5 DEF Open, StreamInv
    <3>2. CASE c = cur
      BY <2>1, <2>2, <2>3, <2>4, <3>1, <3>2, StreamAppend
    <3>3. CASE c # cur
      <4>1. \A l \in Range(queue[c]) : mbuf'[l] = mbuf[l]
        <5>1. Range(queue[c]) \subseteq Mbuf
          BY <1>0, RangeByPosition
        <5> QED  BY <2>2, <2>3, <5>1
      <4> QED  BY <2>1, <2>4, <3>1, <3>3, <4>1, StreamFrame
    <3> QED  BY <3>2, <3>3
  <2> QED  BY <2>1, <2>5 DEF StreamInv
<1>4. ASSUME FillMbuf PROVE StreamInv'
  <2> DEFINE m == Last(queue[cur])
             n == Lesser(mbuf_write_size(m), todo)
  <2>1. /\ cur \in Conn /\ m \in Mbuf /\ n \in Nat \ {0} /\ n <= todo /\ n <= mbuf_write_size(m)
        /\ m = queue[cur][Len(queue[cur])] /\ Len(queue[cur]) \in Nat \ {0}
    BY <1>4, FillSetting DEF FillMbuf
  <2>2. /\ pc = "write" /\ LastHasRoom(cur) /\ mbuf' = Filled(m, n)
        /\ sent' = [sent EXCEPT ![cur] = @ + n]
        /\ pc' \in {"write", "idle"}
        /\ UNCHANGED <<life, queue, out>>
        /\ size' = size \/ size' = [size EXCEPT ![cur] = @ + arg]
    BY <1>4 DEF FillMbuf, Return
  <2> HIDE DEF n
  <2>3. sent[cur] + todo <= MaxSent /\ life[cur] = "open"
    BY <2>2 DEF TypeInv, CallInv, Calls
  <2>4. sent'[cur] = sent[cur] + n /\ \A c \in Conn \ {cur} : sent'[c] = sent[c] /\ size'[c] = size[c]
    BY <1>0, <2>1, <2>2
  <2>5. \A c \in Conn : sent'[c] <= MaxSent
    <3>1. sent'[cur] <= MaxSent
      BY <1>0, <2>1, <2>3, <2>4
    <3> QED  BY <2>4, <3>1 DEF StreamInv
  <2>6. ASSUME NEW c \in Conn, Open(c)' PROVE StreamOf(c)'
    <3>1. StreamOf(c)
      BY <2>2, <2>6 DEF Open, StreamInv
    <3>2. CASE c = cur
      <4>1. /\ pc = "write" /\ cur = c /\ LastHasRoom(c) /\ n <= mbuf_write_size(Last(queue[c]))
            /\ mbuf' = Filled(Last(queue[c]), n)
        BY <2>1, <2>2, <3>2
      <4>2. queue'[c] = queue[c] /\ sent'[c] = sent[c] + n /\ out'[c] = out[c] /\ n \in Nat
        BY <2>1, <2>2, <2>4, <3>2
      <4> QED  BY <3>1, <4>1, <4>2, StreamFill
    <3>3. CASE c # cur
      <4>1. m \notin Range(queue[c])
        <5>1. m \in Range(queue[cur])
          <6>1. /\ Len(queue[cur]) \in Nat \ {0} /\ m = queue[cur][Len(queue[cur])]
                /\ \A k \in 1 .. Len(queue[cur]) : queue[cur][k] \in Range(queue[cur])
            BY <2>1, QueueFacts DEF Last
          <6> QED  BY <6>1
        <5> QED  BY <2>1, <3>3, <5>1 DEF ShareInv
      <4> HIDE DEF m
      <4>2. \A l \in Mbuf \ {m} : mbuf'[l] = mbuf[l]
        BY <2>1, <2>2, FilledFacts DEF TypeInv
      <4>3. \A l \in Range(queue[c]) : mbuf'[l] = mbuf[l]
        <5>1. Range(queue[c]) \subseteq Mbuf
          BY <1>0, RangeByPosition
        <5> QED  BY <4>1, <4>2, <5>1
      <4> QED  BY <2>2, <2>4, <3>1, <3>3, <4>3, StreamFrame
    <3> QED  BY <3>2, <3>3
  <2>7. \A c \in Conn : life'[c] = "unborn" => sent'[c] = 0 /\ out'[c] = <<>> /\ size'[c] = 0
    BY <2>2, <2>3, <2>4 DEF StreamInv
  <2> QED  BY <2>5, <2>6, <2>7 DEF StreamInv
<1>5. ASSUME NEW c \in Conn, NEW n \in Lens, con_buf_read(c, n) PROVE StreamInv'
  <2>1. /\ pc = "idle" /\ pc' # "recycle" /\ UNCHANGED <<life, size, queue, mbuf, sent, out>>
    BY <1>5 DEF con_buf_read, pool, history
  <2> QED  BY <2>1, StreamsFrame DEF Open
<1>6. ASSUME ReadMbuf PROVE StreamInv'
  <2> DEFINE m == Head(queue[cur])
             n == Lesser(mbuf_read_size(m), arg)
  <2>1. /\ cur \in Conn /\ queue[cur] \in Seq(Mbuf) /\ queue[cur] # <<>>
        /\ m \in Mbuf /\ n \in Nat /\ n <= mbuf_read_size(m)
        /\ Copied(m, n) \in Seq(Byte) /\ Len(Copied(m, n)) = n
    BY <1>6, ReadSetting DEF ReadMbuf
  <2>2. /\ pc = "read" /\ pc' \in {"read", "idle"}
        /\ mbuf' = [mbuf EXCEPT ![m].pos = @ + n]
        /\ out' = [out EXCEPT ![cur] = @ \o Copied(m, n)]
        /\ IF CanRecycle(m, n)
           THEN queue' = [queue EXCEPT ![cur] = Tail(@)] /\ size' = size
           ELSE queue' = queue /\ size' = [size EXCEPT ![cur] = @ - got']
        /\ UNCHANGED <<life, sent>>
    BY <1>6 DEF ReadMbuf, Return
  <2>3. m = queue[cur][1]
    BY <2>1
  <2> HIDE DEF n, m
  <2>4. life[cur] = "open"
    BY <2>2 DEF TypeInv, CallInv, Calls
  <2>5. Len(out'[cur]) = Len(out[cur]) + n /\ \A c \in Conn \ {cur} : out'[c] = out[c]
    <3>1. out'[cur] = out[cur] \o Copied(m, n) /\ \A c \in Conn \ {cur} : out'[c] = out[c]
      <4> DEFINE t == out[cur] \o Copied(m, n)
      <4>1. out \in [Conn -> Seq(Byte)] /\ cur \in Conn /\ out' = [out EXCEPT ![cur] = t]
        BY <1>0, <2>1, <2>2
      <4> HIDE DEF t
      <4>2. out'[cur] = t /\ \A c \in Conn \ {cur} : out'[c] = out[c]
        BY <4>1
      <4> QED  BY <4>2 DEF t
    <3>2. Len(out[cur] \o Copied(m, n)) = Len(out[cur]) + Len(Copied(m, n))
      <4>1. out[cur] \in Seq(Byte) /\ Copied(m, n) \in Seq(Byte)
        BY <1>0, <2>1
      <4> QED  BY <4>1, ConcatProperties
    <3> QED  BY <2>1, <3>1, <3>2
  <2>6. /\ \A l \in Mbuf \ {m} : mbuf'[l] = mbuf[l]
        /\ mbuf'[m].pos = mbuf[m].pos + n /\ mbuf'[m].last = mbuf[m].last /\ mbuf'[m].data = mbuf[m].data
    BY <1>0, <2>1, <2>2 DEF Buffer
  <2>7. \A c \in Conn \ {cur} : queue'[c] = queue[c] /\ size'[c] = size[c]
    BY <1>0, <2>1, <2>2
  <2>8. ASSUME NEW c \in Conn, Open(c)' PROVE StreamOf(c)'
    <3>1. StreamOf(c)
      BY <2>2, <2>8 DEF Open, StreamInv
    <3>2. CASE c = cur
      <4>1. CASE CanRecycle(m, n)
        <5>1. queue'[c] = Tail(queue[c]) /\ sent'[c] = sent[c]
          BY <1>0, <2>1, <2>2, <3>2, <4>1
        <5>2. Head(queue[c]) = m
          BY <3>2 DEF m
        <5> QED  BY <2>1, <2>3, <2>5, <2>6, <3>1, <3>2, <4>1, <5>1, <5>2, StreamReadPop
      <4>2. CASE ~ CanRecycle(m, n)
        <5>1. queue'[c] = queue[c] /\ sent'[c] = sent[c]
          BY <2>2, <4>2
        <5> QED  BY <2>1, <2>3, <2>5, <2>6, <3>1, <3>2, <4>2, <5>1, StreamReadStay
      <4> QED  BY <4>1, <4>2
    <3>3. CASE c # cur
      <4>1. m \notin Range(queue[c])
        <5>1. m \in Range(queue[cur])
          BY <2>1, <2>3, QueueFacts
        <5> QED  BY <2>1, <3>3, <5>1 DEF ShareInv
      <4>2. \A l \in Range(queue[c]) : mbuf'[l] = mbuf[l]
        <5>1. Range(queue[c]) \subseteq Mbuf
          BY <1>0, RangeByPosition
        <5> QED  BY <2>6, <4>1, <5>1
      <4> QED  BY <2>2, <2>5, <2>7, <3>1, <3>3, <4>2, StreamFrame
    <3> QED  BY <3>2, <3>3
  <2>9. \A c \in Conn : life'[c] = "unborn" => sent'[c] = 0 /\ out'[c] = <<>> /\ size'[c] = 0
    BY <2>2, <2>4, <2>5, <2>7 DEF StreamInv
  <2> QED  BY <2>2, <2>8, <2>9 DEF StreamInv
<1>7. ASSUME ReadReturns PROVE StreamInv'
  <2>1. /\ pc = "read" /\ pc' = "idle" /\ UNCHANGED <<life, queue, mbuf, sent, out>>
        /\ cur \in Conn /\ life[cur] = "open" /\ size' = [size EXCEPT ![cur] = @ - got]
    BY <1>7 DEF ReadReturns, Return, pool, history, TypeInv, TypeOK, CallInv, Calls
  <2> QED  BY <1>0, <2>1, StreamsFrame DEF Open
<1>8. ASSUME NEW c \in Conn, context_conn_recyle(c) PROVE StreamInv'
  <2>1. /\ pc = "idle" /\ UNCHANGED <<life, size, queue, mbuf, sent, out>>
    BY <1>8 DEF context_conn_recyle, pool, history
  <2> QED  BY <2>1, StreamsFrame DEF Open
<1>9. ASSUME FreeMbuf PROVE StreamInv'
  <2>1. /\ pc = "recycle" /\ cur \in Conn /\ queue' = [queue EXCEPT ![cur] = Tail(@)]
        /\ UNCHANGED <<pc, cur, life, size, mbuf, sent, out>>
    BY <1>9 DEF FreeMbuf, TypeInv, TypeOK, Calls, call, history
  <2>2. ASSUME NEW c \in Conn, Open(c)' PROVE StreamOf(c)'
    <3>1. c # cur /\ StreamOf(c)
      BY <2>1, <2>2 DEF Open, StreamInv
    <3>2. queue'[c] = queue[c]
      BY <1>0, <2>1, <3>1
    <3> QED  BY <2>1, <3>1, <3>2, StreamFrame
  <2> QED  BY <2>1, <2>2 DEF StreamInv
<1>10. ASSUME CacheConnection PROVE StreamInv'
  <2>1. /\ pc = "recycle" /\ cur \in Conn /\ life' = [life EXCEPT ![cur] = "cached"]
        /\ UNCHANGED <<size, queue, mbuf, sent, out>>
    BY <1>10 DEF CacheConnection, TypeInv, TypeOK, Calls, pool, history
  <2>2. \A c \in Conn : Open(c)' => Open(c)
    BY <1>0, <2>1 DEF Open
  <2>3. \A c \in Conn : life'[c] = "unborn" => life[c] = "unborn" /\ size'[c] = size[c]
    BY <1>0, <2>1
  <2> QED  BY <2>1, <2>2, <2>3, StreamsFrame
<1>11. ASSUME context_destroy PROVE StreamInv'
  <2>1. /\ pc = "idle" /\ pc' = "destroyed" /\ UNCHANGED <<life, size, queue, mbuf, sent, out>>
    BY <1>11 DEF context_destroy, history
  <2> QED  BY <2>1, StreamsFrame DEF Open
<1>12. CASE UNCHANGED vars
  <2>1. UNCHANGED <<pc, cur, life, size, queue, mbuf, sent, out>>
    BY <1>12 DEF vars
  <2> QED  BY <2>1, StreamsFrame DEF Open
<1> QED  BY <1>1, <1>2, <1>3, <1>4, <1>5, <1>6, <1>7, <1>8, <1>9, <1>10, <1>11, <1>12 DEF Next

AllInv == TypeInv /\ ShareInv /\ StreamInv

\* The three invariants together are inductive.
LEMMA AllInvInductive == (Init => AllInv) /\ (AllInv /\ [Next]_vars => AllInv')
BY TypeInvInit, TypeInvNext, ShareInvInit, ShareInvNext, StreamInvInit, StreamInvNext DEF AllInv

\* The mbufs of an open connection always hold what was written and not yet
\* read, whole and in order.
THEOREM QueueCorrect == Spec => []QueueHoldsStream
<1>1. AllInv => QueueHoldsStream
  <2> SUFFICES ASSUME AllInv, NEW c \in Conn, Open(c)
               PROVE  IF queue[c] = <<>> THEN Unread(c) = 0
                      ELSE LET L == Len(queue[c])
                               base == Len(out[c]) - mbuf[queue[c][1]].pos
                           IN  /\ \A k \in 1 .. L : LET b == mbuf[queue[c][k]] IN
                                     /\ \A j \in 1 .. b.last : b.data[j] = <<c, base + (k - 1) * Cap + j>>
                                     /\ k < L => b.last = Cap
                                     /\ k > 1 => b.pos = 0
                                     /\ b.pos <= b.last
                               /\ sent[c] = base + (L - 1) * Cap + mbuf[queue[c][L]].last
    BY DEF QueueHoldsStream
  <2>1. StreamOf(c) /\ TypeInv /\ ShareInv
    BY DEF AllInv, StreamInv
  <2>2. CASE queue[c] = <<>>
    <3>1. sent[c] = Len(out[c]) /\ sent[c] \in Nat
      BY <2>1, <2>2, QueueFacts DEF StreamOf
    <3> QED  BY <2>2, <3>1 DEF Unread
  <2>3. CASE queue[c] # <<>>
    <3>1. /\ \A k \in 1 .. Len(queue[c]) :
                /\ Holds(mbuf[queue[c][k]], c, Base(c) + Offset(k))
                /\ InPlace(mbuf[queue[c][k]], k, Len(queue[c]))
          /\ sent[c] = Base(c) + Offset(Len(queue[c])) + mbuf[queue[c][Len(queue[c])]].last
      BY <2>1, <2>3 DEF StreamOf
    <3>2. \A k \in 1 .. Len(queue[c]) : mbuf[queue[c][k]].pos <= mbuf[queue[c][k]].last
      BY <2>1, QueueFacts
    <3>3. \A k \in 1 .. Len(queue[c]) :
             \A j \in 1 .. mbuf[queue[c][k]].last :
                mbuf[queue[c][k]].data[j] = <<c, Base(c) + Offset(k) + j>>
      BY <3>1 DEF Holds
    <3> QED  BY <2>3, <3>1, <3>2, <3>3 DEF InPlace, Base, Offset
  <2> QED  BY <2>2, <2>3
<1> QED  BY <1>1, AllInvInductive, PTL DEF Spec

\* mhdr_readable, which looks at the first mbuf, answers for the whole queue.
LEMMA Readable == AllInv => UnreadIsReadable
<1> SUFFICES ASSUME AllInv, NEW c \in Conn, Open(c), Unread(c) > 0
             PROVE  mhdr_readable(queue[c])
  BY DEF UnreadIsReadable
<1> DEFINE L == Len(queue[c])
           m == queue[c][1]
<1>1. StreamOf(c) /\ TypeInv /\ ShareInv
  BY DEF AllInv, StreamInv
<1>2. sent[c] \in Nat /\ Len(out[c]) \in Nat
  BY <1>1, QueueFacts
<1>3. queue[c] # <<>>
  BY <1>1, <1>2 DEF StreamOf, Unread
<1>4. /\ Head(queue[c]) = m /\ L \in Nat \ {0} /\ 1 \in 1 .. L
      /\ mbuf[m].pos \in 0 .. Cap /\ mbuf[m].last \in 0 .. Cap /\ Cap \in Nat
  BY <1>1, <1>3, QueueFacts
<1>5. InPlace(mbuf[m], 1, L) /\ sent[c] = Base(c) + Offset(L) + mbuf[queue[c][L]].last
  BY <1>1, <1>3, <1>4 DEF StreamOf
<1> HIDE DEF L
<1>6. mbuf_read_size(m) > 0
  <2>1. CASE L = 1
    <3> DEFINE p == mbuf[m].pos
               l == mbuf[m].last
               o == Len(out[c])
    <3>1. sent[c] = o - p + 0 + l
      BY <1>5, <2>1, OffsetFacts DEF Base
    <3>2. p \in Nat /\ l \in Nat /\ o \in Nat /\ sent[c] \in Nat /\ sent[c] - o > 0
      BY <1>2, <1>4 DEF Unread
    <3> HIDE DEF p, l, o
    <3>3. l - p > 0
      BY <3>1, <3>2
    <3> QED  BY <3>3 DEF mbuf_read_size, p, l
  <2>2. CASE L > 1
    BY <1>4, <1>5, <2>2 DEF InPlace, mbuf_read_size
  <2> QED  BY <1>4, <2>1, <2>2
<1> QED  BY <1>3, <1>4, <1>6 DEF mhdr_readable

\* No read leaves an exhausted mbuf in front of bytes that wait.
THEOREM ReadableCorrect == Spec => []UnreadIsReadable
BY Readable, AllInvInductive, PTL DEF Spec

\* FillMbuf is a write to the stream, ReadMbuf a read of its next bytes;
\* nothing else touches it.
LEMMA StreamStep == AllInv /\ [Next]_vars => [Streams!Next]_<<sent, out>>
<1> SUFFICES ASSUME AllInv, [Next]_vars PROVE [Streams!Next]_<<sent, out>>
  OBVIOUS
<1>0. /\ sent \in [Conn -> Nat] /\ out \in [Conn -> Seq(Byte)] /\ MaxSent \in Nat /\ todo \in Int
      /\ TypeInv /\ ShareInv /\ StreamInv
  BY ConnBufferAssumption DEF AllInv, TypeInv, TypeOK
<1>1. ASSUME FillMbuf PROVE Streams!Next
  <2> DEFINE n == Lesser(mbuf_write_size(Last(queue[cur])), todo)
  <2>1. cur \in Conn /\ n \in Nat \ {0} /\ n <= todo
    BY <1>0, <1>1, FillSetting DEF FillMbuf
  <2>2. sent' = [sent EXCEPT ![cur] = @ + n] /\ out' = out
    BY <1>1 DEF FillMbuf
  <2> HIDE DEF n
  <2>3. sent[cur] + todo <= MaxSent
    BY <1>0, <1>1 DEF FillMbuf, TypeInv, CallInv
  <2>4. sent[cur] + n <= MaxSent /\ n \in 1 .. MaxSent
    BY <1>0, <2>1, <2>3
  <2>5. Streams!Write(cur, n)
    BY <2>2, <2>4 DEF Streams!Write
  <2> QED  BY <2>1, <2>4, <2>5 DEF Streams!Next
<1>2. ASSUME ReadMbuf PROVE Streams!Next \/ UNCHANGED <<sent, out>>
  <2> DEFINE m == Head(queue[cur])
             n == Lesser(mbuf_read_size(m), arg)
  <2>1. /\ cur \in Conn /\ queue[cur] # <<>> /\ n \in Nat /\ n <= mbuf_read_size(m)
        /\ Copied(m, n) \in Seq(Byte) /\ Len(Copied(m, n)) = n
    BY <1>0, <1>2, ReadSetting DEF ReadMbuf
  <2>2. /\ out' = [out EXCEPT ![cur] = @ \o Copied(m, n)] /\ sent' = sent /\ pc = "read"
    BY <1>2 DEF ReadMbuf
  <2>3. m = queue[cur][1]
    BY <1>0, <2>1
  <2> HIDE DEF m, n
  <2>4. StreamOf(cur)
    <3>1. Open(cur)
      BY <1>0, <2>2 DEF TypeInv, CallInv, Calls, Open
    <3> QED  BY <1>0, <2>1, <3>1 DEF StreamInv
  <2>5. /\ Copied(m, n) = [i \in 1 .. n |-> <<cur, Len(out[cur]) + i>>]
        /\ Len(out[cur]) + n <= sent[cur]
    BY <1>0, <2>1, <2>3, <2>4, CopiedNext
  <2>6. CASE n = 0
    <3>1. Copied(m, n) = <<>>
      BY <2>1, <2>6, EmptySeq
    <3>2. out[cur] \o <<>> = out[cur]
      BY <1>0, <2>1, ConcatEmptySeq
    <3> QED  BY <1>0, <2>1, <2>2, <3>1, <3>2
  <2>7. CASE n # 0
    <3>1. n \in 1 .. MaxSent
      <4>1. sent[cur] <= MaxSent /\ sent[cur] \in Nat /\ Len(out[cur]) \in Nat
        BY <1>0, <2>1, LenProperties DEF StreamInv
      <4> QED  BY <1>0, <2>1, <2>5, <2>7, <4>1
    <3>2. out' = [out EXCEPT ![cur] = @ \o [i \in 1 .. n |-> <<cur, Len(@) + i>>]]
      BY <2>2, <2>5
    <3>3. Streams!Read(cur, n)
      BY <2>2, <2>5, <3>2 DEF Streams!Read
    <3> QED  BY <2>1, <3>1, <3>3 DEF Streams!Next
  <2> QED  BY <2>6, <2>7
<1>3. ASSUME ~ FillMbuf, ~ ReadMbuf PROVE UNCHANGED <<sent, out>>
  BY <1>3 DEF Next, vars, history, context_connection_new, context_conn_recyle, con_buf_write,
     con_buf_read, AppendMbuf, ReadReturns, FreeMbuf, CacheConnection, context_destroy
<1> QED  BY <1>1, <1>2, <1>3

\* The connection buffers implement ByteStream: what a connection delivers is
\* what was written to it, in order and once, for any size of the mbufs and
\* any number of connections that share the pool.
THEOREM StreamsRefined == Spec => DeliversStreams
<1>1. Init => Streams!Init
  BY DEF Init, Streams!Init
<1> QED  BY <1>1, AllInvInductive, StreamStep, PTL DEF Spec, DeliversStreams, Streams!Spec

-----------------------------------------------------------------------------
(* data_size, which is updated at the end of a call.                       *)

\* What the call under way has written to c, and read from it, so far.
Written(c) == IF pc = "write" /\ cur = c THEN arg - todo ELSE 0
Taken(c) == IF pc = "read" /\ cur = c THEN got ELSE 0

\* data_size is at most what waits, once the call under way is added.
CountInv == \A c \in Conn : Open(c) => size[c] + Written(c) - Taken(c) <= Unread(c)

\* The counts are numbers.
LEMMA CountTypes ==
    ASSUME TypeInv, NEW c \in Conn
    PROVE  /\ size[c] \in Int /\ Written(c) \in Int /\ Taken(c) \in Nat
           /\ sent[c] \in Nat /\ Len(out[c]) \in Nat /\ out[c] \in Seq(Byte) /\ Unread(c) \in Int
<1>1. /\ size[c] \in Int /\ sent[c] \in Nat /\ out[c] \in Seq(Byte)
      /\ arg \in Nat /\ todo \in Int /\ got \in Nat
  BY DEF TypeInv, TypeOK
<1>2. Len(out[c]) \in Nat
  BY <1>1, LenProperties
<1> QED  BY <1>1, <1>2 DEF Written, Taken, Unread

\* A new context has no open connection.
LEMMA CountInvInit == Init => CountInv
BY DEF Init, CountInv, Open

\* What a connection's count depends on is left alone.
LEMMA CountFrame ==
    ASSUME CountInv, NEW c \in Conn, Open(c),
           size'[c] = size[c], sent'[c] = sent[c], out'[c] = out[c],
           Written(c)' = Written(c), Taken(c)' = Taken(c)
    PROVE  size'[c] + Written(c)' - Taken(c)' <= Unread(c)'
BY DEF CountInv, Unread

\* Every operation keeps the count; the calls that move bytes adjust it when
\* they return.
LEMMA CountInvNext == AllInv /\ CountInv /\ [Next]_vars => CountInv'
<1> SUFFICES ASSUME AllInv, CountInv, [Next]_vars, NEW c \in Conn, Open(c)'
             PROVE  size'[c] + Written(c)' - Taken(c)' <= Unread(c)'
  BY DEF CountInv
<1>0. /\ size \in [Conn -> Int] /\ sent \in [Conn -> Nat] /\ out \in [Conn -> Seq(Byte)]
      /\ life \in [Conn -> {"unborn", "open", "cached"}]
      /\ arg \in Nat /\ todo \in Int /\ got \in Nat
      /\ TypeInv /\ ShareInv /\ StreamInv
  BY DEF AllInv, TypeInv, TypeOK
<1>1. ASSUME NEW d \in Conn, context_connection_new(d)
      PROVE  size'[c] + Written(c)' - Taken(c)' <= Unread(c)'
  <2>1. /\ pc = "idle" /\ pc' \in {"idle", "crashed"} /\ UNCHANGED <<cur, size, sent, out>>
        /\ life[d] = "unborn" /\ (life' = life \/ life' = [life EXCEPT ![d] = "open"])
    BY <1>1 DEF context_connection_new, history
  <2>2. Written(c)' = 0 /\ Taken(c)' = 0 /\ Written(c) = 0 /\ Taken(c) = 0
    BY <2>1 DEF Written, Taken
  <2>3. CASE Open(c)
    BY <2>1, <2>2, <2>3, CountFrame
  <2>4. CASE ~ Open(c)
    <3>1. c = d
      BY <1>0, <2>1, <2>4 DEF Open
    <3>2. size'[c] = 0 /\ Unread(c)' = 0
      BY <2>1, <3>1, <1>0 DEF StreamInv, Unread
    <3> QED  BY <2>2, <3>2
  <2> QED  BY <2>3, <2>4
<1>2. ASSUME NEW d \in Conn, NEW n \in Lens, con_buf_write(d, n)
      PROVE  size'[c] + Written(c)' - Taken(c)' <= Unread(c)'
  <2>1. /\ pc = "idle" /\ pc' = "write" /\ arg' = n /\ todo' = n /\ UNCHANGED <<life, size, sent, out>>
        /\ n \in Nat
    BY <1>2, ConnBufferAssumption DEF con_buf_write, history
  <2>2. Written(c)' = 0 /\ Taken(c)' = 0 /\ Written(c) = 0 /\ Taken(c) = 0 /\ Open(c)
    BY <2>1 DEF Written, Taken, Open
  <2> QED  BY <2>1, <2>2, CountFrame
<1>3. ASSUME AppendMbuf PROVE size'[c] + Written(c)' - Taken(c)' <= Unread(c)'
  <2>1. UNCHANGED <<pc, cur, arg, todo, got, life, size, sent, out>>
    BY <1>3 DEF AppendMbuf, call, history
  <2>2. Written(c)' = Written(c) /\ Taken(c)' = Taken(c) /\ Open(c)
    BY <2>1 DEF Written, Taken, Open
  <2> QED  BY <2>1, <2>2, CountFrame
<1>4. ASSUME FillMbuf PROVE size'[c] + Written(c)' - Taken(c)' <= Unread(c)'
  <2> DEFINE w == mbuf_write_size(Last(queue[cur]))
             n == Lesser(w, todo)
  <2>1. /\ cur \in Conn /\ n \in Nat \ {0} /\ n <= todo /\ n <= w /\ w \in Nat /\ pc = "write"
        /\ n # todo => n = w
    BY <1>0, <1>4, FillSetting DEF FillMbuf
  <2>2. /\ sent' = [sent EXCEPT ![cur] = @ + n]
        /\ IF n = todo THEN Return ELSE todo' = todo - n /\ UNCHANGED <<pc, cur, arg>>
        /\ size' = IF w > todo THEN [size EXCEPT ![cur] = @ + arg] ELSE size
        /\ UNCHANGED <<life, out, got>>
    BY <1>4 DEF FillMbuf
  <2> HIDE DEF n, w
  <2>3. Open(c)
    BY <2>1, <2>2 DEF Open, Return
  <2>4. CASE c # cur
    <3>1. size'[c] = size[c] /\ sent'[c] = sent[c] /\ out'[c] = out[c]
      BY <1>0, <2>1, <2>2, <2>4
    <3>2. Written(c)' = 0 /\ Taken(c)' = 0 /\ Written(c) = 0 /\ Taken(c) = 0
      BY <2>1, <2>2, <2>4 DEF Written, Taken, Return
    <3> QED  BY <2>3, <3>1, <3>2, CountFrame
  <2>5. CASE c = cur
    <3>1. /\ size[c] + (arg - todo) <= sent[c] - Len(out[c])
          /\ size[c] \in Int /\ sent[c] \in Nat /\ Len(out[c]) \in Nat
      <4>1. Written(c) = arg - todo /\ Taken(c) = 0
        BY <2>1, <2>5 DEF Written, Taken
      <4>2. size[c] + Written(c) - Taken(c) <= Unread(c)
        BY <2>3 DEF CountInv
      <4>3. size[c] \in Int /\ sent[c] \in Nat /\ Len(out[c]) \in Nat
        BY <1>0, CountTypes
      <4> QED  BY <1>0, <4>1, <4>2, <4>3 DEF Unread
    <3>2. sent'[c] = sent[c] + n /\ Unread(c)' = sent[c] + n - Len(out[c])
      BY <1>0, <2>1, <2>2, <2>5 DEF Unread
    <3>3. CASE n = todo
      <4>1. Written(c)' = 0 /\ Taken(c)' = 0
        BY <2>2, <3>3 DEF Return, Written, Taken
      <4>2. size'[c] = size[c] + arg \/ size'[c] = size[c]
        BY <1>0, <2>1, <2>2, <2>5
      <4>3. size'[c] \in Int
        BY <1>0, <3>1, <4>2
      <4> QED  BY <1>0, <2>1, <3>1, <3>2, <3>3, <4>1, <4>2, <4>3
    <3>4. CASE n # todo
      <4>1. size'[c] = size[c]
        BY <1>0, <2>1, <2>2, <3>4
      <4>2. Written(c)' = arg - (todo - n) /\ Taken(c)' = 0
        BY <2>1, <2>2, <2>5, <3>4 DEF Written, Taken
      <4> QED  BY <1>0, <2>1, <3>1, <3>2, <4>1, <4>2
    <3> QED  BY <3>3, <3>4
  <2> QED  BY <2>4, <2>5
<1>5. ASSUME NEW d \in Conn, NEW n \in Lens, con_buf_read(d, n)
      PROVE  size'[c] + Written(c)' - Taken(c)' <= Unread(c)'
  <2>1. /\ pc = "idle" /\ pc' \in {"read", "crashed"} /\ got' = 0 /\ UNCHANGED <<life, size, sent, out>>
    BY <1>5 DEF con_buf_read, history
  <2>2. Written(c)' = 0 /\ Taken(c)' = 0 /\ Written(c) = 0 /\ Taken(c) = 0 /\ Open(c)
    BY <2>1 DEF Written, Taken, Open
  <2> QED  BY <2>1, <2>2, CountFrame
<1>6. ASSUME ReadMbuf PROVE size'[c] + Written(c)' - Taken(c)' <= Unread(c)'
  <2> DEFINE m == Head(queue[cur])
             n == Lesser(mbuf_read_size(m), arg)
  <2>1. /\ cur \in Conn /\ n \in Nat /\ Copied(m, n) \in Seq(Byte) /\ Len(Copied(m, n)) = n
    BY <1>0, <1>6, ReadSetting DEF ReadMbuf
  <2>2. /\ pc = "read" /\ got' = got + n
        /\ out' = [out EXCEPT ![cur] = @ \o Copied(m, n)]
        /\ \/ UNCHANGED <<pc, cur, size>>
           \/ Return /\ size' = [size EXCEPT ![cur] = @ - got']
        /\ UNCHANGED <<life, sent>>
    BY <1>6 DEF ReadMbuf
  <2> HIDE DEF m, n
  <2>3. Open(c)
    BY <2>1, <2>2 DEF Open, Return
  <2>4. CASE c # cur
    <3>1. size'[c] = size[c] /\ sent'[c] = sent[c] /\ out'[c] = out[c]
      BY <1>0, <2>1, <2>2, <2>4
    <3>2. Written(c)' = 0 /\ Taken(c)' = 0 /\ Written(c) = 0 /\ Taken(c) = 0
      BY <2>1, <2>2, <2>4 DEF Written, Taken, Return
    <3> QED  BY <2>3, <3>1, <3>2, CountFrame
  <2>5. CASE c = cur
    <3>1. /\ size[c] - got <= sent[c] - Len(out[c])
          /\ size[c] \in Int /\ sent[c] \in Nat /\ Len(out[c]) \in Nat
      <4>1. Written(c) = 0 /\ Taken(c) = got
        BY <2>2, <2>5 DEF Written, Taken
      <4>2. size[c] + Written(c) - Taken(c) <= Unread(c)
        BY <2>3 DEF CountInv
      <4>3. size[c] \in Int /\ sent[c] \in Nat /\ Len(out[c]) \in Nat
        BY <1>0, CountTypes
      <4> QED  BY <1>0, <4>1, <4>2, <4>3 DEF Unread
    <3>2. Unread(c)' = sent[c] - (Len(out[c]) + n)
      <4>1. out'[c] = out[c] \o Copied(m, n) /\ sent'[c] = sent[c]
        BY <1>0, <2>1, <2>2, <2>5
      <4>2. Len(out'[c]) = Len(out[c]) + n
        BY <1>0, <2>1, <4>1, ConcatProperties
      <4> QED  BY <4>1, <4>2 DEF Unread
    <3>3. CASE UNCHANGED <<pc, cur, size>>
      <4>1. Written(c)' = 0 /\ Taken(c)' = got + n /\ size'[c] = size[c]
        BY <2>2, <2>5, <3>3 DEF Written, Taken
      <4> QED  BY <1>0, <2>1, <3>1, <3>2, <4>1
    <3>4. CASE Return /\ size' = [size EXCEPT ![cur] = @ - got']
      <4>1. Written(c)' = 0 /\ Taken(c)' = 0 /\ size'[c] = size[c] - (got + n)
        BY <1>0, <2>1, <2>2, <2>5, <3>4 DEF Written, Taken, Return
      <4> QED  BY <1>0, <2>1, <3>1, <3>2, <4>1
    <3> QED  BY <2>2, <3>3, <3>4
  <2> QED  BY <2>4, <2>5
<1>7. ASSUME ReadReturns PROVE size'[c] + Written(c)' - Taken(c)' <= Unread(c)'
  <2>1. /\ pc = "read" /\ pc' = "idle" /\ UNCHANGED <<life, sent, out>>
        /\ cur \in Conn /\ size' = [size EXCEPT ![cur] = @ - got]
    BY <1>0, <1>7 DEF ReadReturns, Return, history, TypeInv, TypeOK, Calls
  <2>2. Open(c) /\ Written(c)' = 0 /\ Taken(c)' = 0 /\ Written(c) = 0
    BY <2>1 DEF Open, Written, Taken
  <2>3. size'[c] = size[c] - Taken(c)
    BY <1>0, <2>1 DEF Taken
  <2>4. size[c] + Written(c) - Taken(c) <= Unread(c) /\ Unread(c)' = Unread(c)
    BY <2>1, <2>2 DEF CountInv, Unread
  <2>5. size[c] \in Int /\ Taken(c) \in Nat /\ Unread(c) \in Int
    BY <1>0, CountTypes
  <2> QED  BY <2>2, <2>3, <2>4, <2>5
<1>8. ASSUME NEW d \in Conn, context_conn_recyle(d)
      PROVE  size'[c] + Written(c)' - Taken(c)' <= Unread(c)'
  <2>1. /\ pc = "idle" /\ pc' = "recycle" /\ UNCHANGED <<life, size, sent, out>>
    BY <1>8 DEF context_conn_recyle, history
  <2>2. Written(c)' = 0 /\ Taken(c)' = 0 /\ Written(c) = 0 /\ Taken(c) = 0 /\ Open(c)
    BY <2>1 DEF Written, Taken, Open
  <2> QED  BY <2>1, <2>2, CountFrame
<1>9. ASSUME FreeMbuf PROVE size'[c] + Written(c)' - Taken(c)' <= Unread(c)'
  <2>1. pc = "recycle" /\ UNCHANGED <<pc, cur, life, size, sent, out>>
    BY <1>9 DEF FreeMbuf, call, history
  <2>2. Written(c)' = 0 /\ Taken(c)' = 0 /\ Written(c) = 0 /\ Taken(c) = 0 /\ Open(c)
    BY <2>1 DEF Written, Taken, Open
  <2> QED  BY <2>1, <2>2, CountFrame
<1>10. ASSUME CacheConnection PROVE size'[c] + Written(c)' - Taken(c)' <= Unread(c)'
  <2>1. /\ pc = "recycle" /\ pc' = "idle" /\ life' = [life EXCEPT ![cur] = "cached"]
        /\ cur \in Conn /\ UNCHANGED <<size, sent, out>>
    BY <1>0, <1>10 DEF CacheConnection, Return, history, TypeInv, TypeOK, Calls
  <2>2. Written(c)' = 0 /\ Taken(c)' = 0 /\ Written(c) = 0 /\ Taken(c) = 0 /\ Open(c)
    BY <1>0, <2>1 DEF Written, Taken, Open
  <2> QED  BY <2>1, <2>2, CountFrame
<1>11. ASSUME context_destroy PROVE size'[c] + Written(c)' - Taken(c)' <= Unread(c)'
  <2>1. /\ pc = "idle" /\ pc' = "destroyed" /\ UNCHANGED <<life, size, sent, out>>
    BY <1>11 DEF context_destroy, history
  <2>2. Written(c)' = 0 /\ Taken(c)' = 0 /\ Written(c) = 0 /\ Taken(c) = 0 /\ Open(c)
    BY <2>1 DEF Written, Taken, Open
  <2> QED  BY <2>1, <2>2, CountFrame
<1>12. CASE UNCHANGED vars
  <2>1. UNCHANGED <<pc, cur, arg, todo, got, life, size, sent, out>>
    BY <1>12 DEF vars
  <2>2. Written(c)' = Written(c) /\ Taken(c)' = Taken(c) /\ Open(c)
    BY <2>1 DEF Written, Taken, Open
  <2> QED  BY <2>1, <2>2, CountFrame
<1> QED  BY <1>1, <1>2, <1>3, <1>4, <1>5, <1>6, <1>7, <1>8, <1>9, <1>10, <1>11, <1>12 DEF Next

\* Between calls data_size is at most what waits, although writes that fill
\* an mbuf are not counted and reads may take more than it says.
THEOREM DataSizeCorrect == Spec => []DataSizeNeverAhead
<1>1. AllInv /\ CountInv => DataSizeNeverAhead
  <2> SUFFICES ASSUME AllInv, CountInv, NEW c \in Conn, pc = "idle", Open(c)
               PROVE  size[c] <= Unread(c)
    BY DEF DataSizeNeverAhead
  <2>1. size[c] + 0 - 0 <= Unread(c)
    BY DEF CountInv, Written, Taken
  <2>2. size[c] \in Int
    BY CountTypes DEF AllInv
  <2> QED  BY <2>1, <2>2
<1> QED  BY <1>1, AllInvInductive, CountInvInit, CountInvNext, PTL DEF Spec

\* con_buf_read returns because allow_read is zero, because nothing waits, or
\* from an mbuf that it cannot recycle: then len is served, or the mbuf has
\* room and is the last.
LEMMA ReadDeliversStep ==
    AllInv /\ CountInv /\ [Next]_vars => [ReadsBack => got' >= Lesser(size[cur], arg)]_vars
<1> SUFFICES ASSUME AllInv, CountInv, [Next]_vars, ReadsBack
             PROVE  got' >= Lesser(size[cur], arg)
  OBVIOUS
<1>0. pc = "read" /\ pc' = "idle" /\ cur \in Conn /\ Open(cur) /\ arg \in Nat /\ todo \in Int /\ got \in Nat
      /\ TypeInv /\ ShareInv /\ StreamInv
  BY DEF AllInv, TypeInv, TypeOK, CallInv, Calls, ReadsBack, Open
<1>1. /\ size[cur] \in Int /\ sent[cur] \in Nat /\ out[cur] \in Seq(Byte) /\ Len(out[cur]) \in Nat
      /\ size[cur] - got <= sent[cur] - Len(out[cur])
  <2>1. Written(cur) = 0 /\ Taken(cur) = got
    BY <1>0 DEF Written, Taken
  <2>2. size[cur] + Written(cur) - Taken(cur) <= Unread(cur)
    BY <1>0 DEF CountInv
  <2>3. size[cur] \in Int /\ sent[cur] \in Nat /\ out[cur] \in Seq(Byte) /\ Len(out[cur]) \in Nat
    BY <1>0, CountTypes
  <2> QED  BY <1>0, <2>1, <2>2, <2>3 DEF Unread
<1>2. /\ Lesser(size[cur], arg) \in Int /\ Lesser(size[cur], arg) <= size[cur] /\ Lesser(size[cur], arg) <= arg
  <2>1. arg \in Int /\ size[cur] \in Int
    BY <1>0, <1>1
  <2> QED  BY <2>1, LesserFacts
<1>3. StreamOf(cur)
  BY <1>0 DEF StreamInv
<1>4. ReadMbuf \/ ReadReturns
  BY <1>0 DEF Next, vars, call, context_connection_new, context_conn_recyle, con_buf_write, con_buf_read,
     AppendMbuf, FillMbuf, FreeMbuf, CacheConnection, context_destroy
<1>5. CASE ReadReturns
  <2>1. ~ MayRead /\ got' = got /\ todo = Lesser(size[cur], arg) - got
    BY <1>0, <1>5 DEF ReadReturns, TypeInv, CallInv
  <2>2. CASE todo = 0
    BY <1>0, <1>2, <2>1, <2>2
  <2>3. CASE ~ mhdr_readable(queue[cur])
    <3>1. ~ (Unread(cur) > 0)
      BY <1>0, <2>3, Readable DEF UnreadIsReadable
    <3>2. sent[cur] - Len(out[cur]) <= 0
      BY <1>1, <3>1 DEF Unread
    <3> QED  BY <1>0, <1>1, <1>2, <2>1, <3>2
  <2> QED  BY <2>1, <2>2, <2>3 DEF MayRead
<1>6. CASE ReadMbuf
  <2> DEFINE m == Head(queue[cur])
             n == Lesser(mbuf_read_size(m), arg)
  <2>1. /\ queue[cur] # <<>> /\ n \in Nat /\ n <= mbuf_read_size(m)
        /\ n # arg => n = mbuf_read_size(m)
    BY <1>0, <1>6, ReadSetting DEF ReadMbuf
  <2>2. got' = got + n /\ ~ CanRecycle(m, n)
    BY <1>0, <1>6 DEF ReadMbuf
  <2>3. m = queue[cur][1]
    BY <1>0, <2>1
  <2> HIDE DEF n
  <2>4. CASE n = arg
    BY <1>0, <1>2, <2>2, <2>4
  <2>5. CASE n # arg
    <3>1. n = mbuf_read_size(m) /\ mbuf_write_size(m) # 0
      <4>1. mbuf[m].pos \in 0 .. Cap /\ mbuf[m].last \in 0 .. Cap /\ Cap \in Nat
        BY <1>0, <2>1, <2>3, QueueFacts
      <4>2. n = mbuf_read_size(m)
        BY <2>1, <2>5
      <4>3. mbuf[m].pos + n = mbuf[m].last
        BY <4>1, <4>2 DEF mbuf_read_size
      <4> QED  BY <2>2, <4>2, <4>3 DEF CanRecycle
    <3>2. Len(out[cur]) + n = sent[cur]
      BY <1>0, <1>3, <2>1, <2>3, <3>1, CopiedNext
    <3> QED  BY <1>0, <1>1, <1>2, <2>1, <2>2, <3>2
  <2> QED  BY <2>4, <2>5
<1> QED  BY <1>4, <1>5, <1>6

\* con_buf_read gives up at the first mbuf it cannot recycle, and is right to:
\* it has returned no less than data_size and len allow.
THEOREM ReadsDeliver == Spec => ReadDelivers
BY AllInvInductive, CountInvInit, CountInvNext, ReadDeliversStep, PTL DEF Spec, ReadDelivers

-----------------------------------------------------------------------------
(* What con_buf_peek copies.                                               *)

\* What one more mbuf adds to what was copied from those before it.
Added(c, n, k, before) ==
    Copied(queue[c][k], Lesser(mbuf_read_size(queue[c][k]), n - Len(before)))

\* The loop of con_buf_peek computes whatever starts empty and grows, mbuf by
\* mbuf, by what that mbuf adds.
LEMMA PeekIs ==
    ASSUME NEW c, NEW n, Len(queue[c]) \in Nat, NEW G,
           G = [k \in 0 .. Len(queue[c]) |->
                  IF k = 0 THEN <<>> ELSE G[k - 1] \o Added(c, n, k, G[k - 1])]
    PROVE  con_buf_peek(c, n) = G[Len(queue[c])]
<1> DEFINE L == Len(queue[c])
           Body(f) == [k \in 0 .. L |-> IF k = 0 THEN <<>> ELSE f[k - 1] \o Added(c, n, k, f[k - 1])]
           dst == CHOOSE f : f = Body(f)
<1>0. L \in Nat
  OBVIOUS
<1>1. con_buf_peek(c, n) = dst[L]
  BY DEF con_buf_peek, Added
<1>2. dst = Body(dst)
  <2>1. \E f : f = Body(f)
    OBVIOUS
  <2> HIDE DEF Body
  <2> QED  BY <2>1, Zenon
<1> HIDE DEF dst
<1>3. /\ dst[0] = <<>> /\ G[0] = <<>>
      /\ \A k \in 1 .. L : /\ k - 1 \in 0 .. L
                           /\ dst[k] = dst[k - 1] \o Added(c, n, k, dst[k - 1])
                           /\ G[k] = G[k - 1] \o Added(c, n, k, G[k - 1])
  <2>1. \A k \in 1 .. L : k \in 0 .. L /\ k # 0 /\ k - 1 \in 0 .. L
    OBVIOUS
  <2> HIDE DEF L
  <2>2. 0 \in 0 .. L
    BY DEF L
  <2> QED  BY <1>2, <2>1, <2>2 DEF L
<1> HIDE DEF L, Body
<1>4. \A k \in 0 .. L : dst[k] = G[k]
  <2> DEFINE S == {k \in 0 .. L : dst[k] # G[k]}
  <2> SUFFICES ASSUME S # {} PROVE FALSE
    OBVIOUS
  <2>1. PICK k \in S : \A j \in S : k <= j
    <3>1. S \subseteq Nat
      OBVIOUS
    <3> HIDE DEF S
    <3> QED  BY <3>1, LeastNat
  <2>2. k \in 1 .. L
    BY <1>3
  <2>3. k - 1 \in 0 .. L /\ ~ (k <= k - 1)
    BY <1>0, <2>2
  <2>4. dst[k - 1] = G[k - 1]
    BY <2>1, <2>3
  <2>5. dst[k] = G[k]
    BY <1>3, <2>2, <2>4
  <2> QED  BY <2>5
<1> QED  BY <1>1, <1>4 DEF L

\* The next m bytes of the stream of c.
Upcoming(c, m) == [i \in 1 .. m |-> <<c, Len(out[c]) + i>>]

\* The unread bytes in the first k mbufs.
Avail(c, k) ==
    IF k = 0 THEN 0 ELSE Offset(k) + mbuf[queue[c][k]].last - mbuf[queue[c][1]].pos

\* The k-th mbuf adds its unread bytes, which follow those of the mbufs before.
LEMMA AvailFacts ==
    ASSUME TypeInv, ShareInv, NEW c \in Conn, StreamOf(c), NEW k \in 1 .. Len(queue[c])
    PROVE  LET b == mbuf[queue[c][k]] IN
           /\ Avail(c, k - 1) \in Int /\ mbuf_read_size(queue[c][k]) \in Nat
           /\ Avail(c, k) = Avail(c, k - 1) + mbuf_read_size(queue[c][k])
           /\ b.pos \in Nat /\ b.last = b.pos + mbuf_read_size(queue[c][k])
           /\ \A j \in 1 .. b.last : b.data[j] = <<c, Len(out[c]) + Avail(c, k - 1) + (j - b.pos)>>
<1> DEFINE q == queue[c]
           L == Len(q)
           b == mbuf[q[k]]
           a == mbuf[q[1]]
           r == mbuf_read_size(q[k])
           o == Len(out[c])
<1>1. /\ L \in Nat \ {0} /\ 1 \in 1 .. L /\ k \in Nat \ {0} /\ o \in Nat /\ Cap \in Nat \ {0}
      /\ b.pos \in 0 .. Cap /\ b.last \in 0 .. Cap /\ b.pos <= b.last /\ a.pos \in 0 .. Cap
  <2>1. L \in Nat /\ o \in Nat /\ Cap \in Nat \ {0}
    BY QueueFacts
  <2>2. k \in Nat \ {0} /\ L \in Nat \ {0} /\ 1 \in 1 .. L
    BY <2>1
  <2> QED  BY <2>1, <2>2, QueueFacts
<1>2. q # <<>>
  BY <1>1
<1>3. Holds(b, c, Base(c) + Offset(k)) /\ InPlace(b, k, L) /\ Base(c) = o - a.pos
  BY <1>2 DEF StreamOf, Base
<1>4. r = b.last - b.pos
  BY DEF mbuf_read_size
<1>5. Avail(c, k) = Offset(k) + b.last - a.pos /\ Offset(k) \in Int
  BY <1>1, OffsetFacts DEF Avail
<1>6. Avail(c, k - 1) = Offset(k) + b.pos - a.pos
  <2>1. CASE k = 1
    <3>1. Offset(k) = 0 /\ b.pos = a.pos /\ Avail(c, k - 1) = 0
      BY <2>1, OffsetFacts DEF Avail
    <3> QED  BY <1>1, <3>1
  <2>2. CASE k # 1
    <3>1. k - 1 \in 1 .. L /\ k - 1 < L /\ k > 1 /\ k - 1 \in Nat /\ (k - 1) + 1 = k /\ k - 1 # 0
      BY <1>1, <2>2
    <3>2. b.pos = 0
      BY <1>3, <3>1 DEF InPlace
    <3>3. mbuf[q[k - 1]].last = Cap
      BY <1>2, <3>1 DEF StreamOf, InPlace
    <3>4. Offset(k) = Offset(k - 1) + Cap /\ Offset(k - 1) \in Int
      BY <3>1, OffsetFacts
    <3>5. Avail(c, k - 1) = Offset(k - 1) + Cap - a.pos
      BY <3>1, <3>3 DEF Avail
    <3> QED  BY <1>1, <3>2, <3>4, <3>5
  <2> QED  BY <2>1, <2>2
<1> DEFINE p == b.pos
           l == b.last
           z == a.pos
           f == Offset(k)
           v == Avail(c, k - 1)
<1>7. /\ p \in Nat /\ l \in Nat /\ z \in Nat /\ f \in Int /\ p <= l /\ v = f + p - z /\ r = l - p
      /\ Avail(c, k) = f + l - z /\ o \in Nat
  BY <1>1, <1>4, <1>5, <1>6
<1>8. \A j \in 1 .. l : b.data[j] = <<c, o - z + f + j>>
  BY <1>3 DEF Holds
<1> HIDE DEF b, p, l, z, f, v, r, o
<1>9. v \in Int /\ r \in Nat /\ Avail(c, k) = v + r /\ l = p + r
  BY <1>7
<1>10. \A j \in 1 .. l : b.data[j] = <<c, o + v + (j - p)>>
  <2> SUFFICES ASSUME NEW j \in 1 .. l PROVE b.data[j] = <<c, o + v + (j - p)>>
    OBVIOUS
  <2>1. o - z + f + j = o + v + (j - p)
    BY <1>7
  <2> QED  BY <1>8, <2>1
<1> QED  BY <1>7, <1>9, <1>10 DEF b, p, l, z, f, v, r, o

\* A function on 1 .. len is a sequence of that length.
LEMMA FunctionIsSeq ==
    ASSUME NEW T, NEW len \in Nat, NEW f \in [1 .. len -> T]
    PROVE  f \in Seq(T) /\ Len(f) = len
<1>1. f \in Seq(T)
  OBVIOUS
<1>2. Len(f) \in Nat /\ 1 .. Len(f) = 1 .. len
  BY <1>1, LenProperties
<1>3. Len(f) = len
  BY <1>2
<1> QED  BY <1>1, <1>3

\* Consecutive bytes of a connection, numbered from an offset, form a sequence.
LEMMA NumberedBytes ==
    ASSUME NEW c, NEW base \in Int, NEW len \in Nat, NEW q,
           q = [i \in 1 .. len |-> <<c, base + i>>]
    PROVE  /\ Len(q) = len /\ q \in Seq({c} \X Int)
           /\ \A i \in 1 .. len : q[i] = <<c, base + i>>
<1>1. \A i \in 1 .. len : <<c, base + i>> \in {c} \X Int
  OBVIOUS
<1> DEFINE T == {c} \X Int
<1>2. q \in [1 .. len -> T] /\ DOMAIN q = 1 .. len /\ \A i \in 1 .. len : q[i] = <<c, base + i>>
  BY <1>1
<1> HIDE DEF T
<1>3. q \in Seq(T) /\ Len(q) = len
  BY <1>2, FunctionIsSeq
<1> QED  BY <1>2, <1>3 DEF T

\* One turn of the loop.
LEMMA PeekStep ==
    ASSUME TypeInv, ShareInv, NEW c \in Conn, StreamOf(c), NEW k \in 1 .. Len(queue[c]),
           NEW n \in Nat, Avail(c, k - 1) \in Nat
    PROVE  LET before == Upcoming(c, Lesser(n, Avail(c, k - 1))) IN
           Upcoming(c, Lesser(n, Avail(c, k))) = before \o Added(c, n, k, before)
<1> DEFINE m == queue[c][k]
           b == mbuf[m]
           v == Avail(c, k - 1)
           r == mbuf_read_size(m)
           x == Lesser(n, v)
           y == Lesser(r, n - x)
           before == Upcoming(c, x)
           o == Len(out[c])
<1>1. /\ v \in Nat /\ r \in Nat /\ Avail(c, k) = v + r /\ b.pos \in Nat /\ b.last = b.pos + r
      /\ \A j \in 1 .. b.last : b.data[j] = <<c, o + v + (j - b.pos)>>
  BY AvailFacts
<1>2. o \in Nat
  BY QueueFacts
<1>3. /\ x \in Nat /\ y \in Nat /\ y <= r /\ x + y = Lesser(n, v + r) /\ (y > 0 => x = v)
  <2> HIDE DEF v, r
  <2> QED  BY <1>1 DEF Lesser
<1>4. Len(before) = x /\ before \in Seq({c} \X Int) /\ \A i \in 1 .. x : before[i] = <<c, o + i>>
  <2> HIDE DEF x
  <2>1. before = [i \in 1 .. x |-> <<c, o + i>>]
    BY DEF Upcoming
  <2>2. o \in Int /\ x \in Nat
    BY <1>2, <1>3
  <2> HIDE DEF before, o
  <2> QED  BY <2>1, <2>2, NumberedBytes
<1>5. Added(c, n, k, before) = Copied(m, y)
  BY <1>4 DEF Added
<1>6. /\ Copied(m, y) \in Seq({c} \X Int) /\ Len(Copied(m, y)) = y
      /\ \A i \in 1 .. y : Copied(m, y)[i] = <<c, o + x + i>>
  <2> DEFINE p == b.pos
  <2>1. p \in Nat /\ b.last = p + r /\ \A j \in 1 .. b.last : b.data[j] = <<c, o + v + (j - p)>>
    BY <1>1
  <2>2. Copied(m, y) = [i \in 1 .. y |-> b.data[p + i]]
    BY DEF Copied
  <2> HIDE DEF b, p, m, x, y, v, r, o
  <2>3. ASSUME NEW i \in 1 .. y PROVE b.data[p + i] = <<c, o + x + i>>
    <3>1. p + i \in 1 .. b.last /\ y > 0
      BY <2>1, <1>1, <1>3
    <3>2. b.data[p + i] = <<c, o + v + (p + i - p)>>
      BY <2>1, <3>1
    <3>3. o + v + (p + i - p) = o + x + i
      BY <1>1, <1>2, <1>3, <2>1, <3>1
    <3> QED  BY <3>2, <3>3
  <2>4. o + x \in Int /\ y \in Nat
    BY <1>2, <1>3
  <2>5. Copied(m, y) = [i \in 1 .. y |-> <<c, (o + x) + i>>]
    BY <2>2, <2>3
  <2> QED  BY <2>4, <2>5, NumberedBytes
<1>7. Lesser(n, Avail(c, k)) = x + y
  BY <1>1, <1>3
<1>8. Upcoming(c, x + y) = before \o Copied(m, y)
  <2> DEFINE w == Copied(m, y)
             s == before \o w
             u == Upcoming(c, x + y)
  <2> HIDE DEF x, y, before, w, o
  <2>0. /\ before \in Seq({c} \X Int) /\ Len(before) = x /\ x \in Nat
        /\ w \in Seq({c} \X Int) /\ Len(w) = y /\ y \in Nat
        /\ \A i \in 1 .. x : before[i] = <<c, o + i>>
        /\ \A i \in 1 .. y : w[i] = <<c, o + x + i>>
    BY <1>3, <1>4, <1>6 DEF w
  <2>1. /\ s \in Seq({c} \X Int) /\ Len(s) = x + y
        /\ \A i \in 1 .. x + y : s[i] = IF i <= x THEN before[i] ELSE w[i - x]
    <3>1. /\ s \in Seq({c} \X Int) /\ Len(s) = Len(before) + Len(w)
          /\ \A i \in 1 .. Len(before) + Len(w) :
                s[i] = IF i <= Len(before) THEN before[i] ELSE w[i - Len(before)]
      BY <2>0, ConcatProperties
    <3> QED  BY <2>0, <3>1
  <2> HIDE DEF s
  <2>2. ASSUME NEW i \in 1 .. x + y PROVE s[i] = <<c, o + i>>
    <3>1. CASE i <= x
      <4>1. i \in 1 .. x /\ s[i] = before[i]
        BY <3>1, <2>0, <2>1
      <4> QED  BY <4>1, <2>0
    <3>2. CASE ~ (i <= x)
      <4>1. i - x \in 1 .. y /\ o + x + (i - x) = o + i
        BY <3>2, <1>2, <2>0
      <4>2. s[i] = w[i - x]
        BY <3>2, <2>1
      <4> QED  BY <4>1, <4>2, <2>0
    <3> QED  BY <3>1, <3>2
  <2>3. u = [i \in 1 .. x + y |-> <<c, o + i>>]
    BY DEF Upcoming, o
  <2>4. s = [i \in 1 .. Len(s) |-> s[i]]
    BY <2>1
  <2> HIDE DEF u
  <2>5. u = s
    BY <2>1, <2>2, <2>3, <2>4
  <2> QED  BY <2>5 DEF s, u, w
<1> QED  BY <1>5, <1>7, <1>8

\* Upcoming satisfies the recursion of con_buf_peek, and at the end of the queue
\* all unread bytes are available.
LEMMA Peeks == AllInv => PeekSeesNext
<1> SUFFICES ASSUME AllInv, NEW c \in Conn, NEW n \in Lens, pc = "idle", Open(c)
             PROVE  con_buf_peek(c, n) = Upcoming(c, Lesser(n, Unread(c)))
  BY DEF PeekSeesNext, Upcoming
<1> DEFINE L == Len(queue[c])
           G == [k \in 0 .. L |-> Upcoming(c, Lesser(n, Avail(c, k)))]
<1>1. TypeInv /\ ShareInv /\ StreamOf(c) /\ n \in Nat /\ L \in Nat
  BY QueueFacts, ConnBufferAssumption DEF AllInv, StreamInv
<1>2. \A k \in 0 .. L : Avail(c, k) \in Nat
  <2> DEFINE S == {k \in 0 .. L : Avail(c, k) \notin Nat}
  <2> SUFFICES ASSUME S # {} PROVE FALSE
    OBVIOUS
  <2>1. PICK k \in S : \A j \in S : k <= j
    <3>1. S \subseteq Nat
      OBVIOUS
    <3> HIDE DEF S
    <3> QED  BY <3>1, LeastNat
  <2>2. k \in 0 .. L /\ Avail(c, k) \notin Nat /\ k # 0
    BY DEF Avail
  <2>3. k \in 1 .. L /\ k - 1 \in 0 .. L /\ ~ (k <= k - 1)
    BY <1>1, <2>2
  <2>4. Avail(c, k - 1) \in Nat
    BY <2>1, <2>3
  <2>5. Avail(c, k) = Avail(c, k - 1) + mbuf_read_size(queue[c][k])
        /\ mbuf_read_size(queue[c][k]) \in Nat
    BY <1>1, <2>3, AvailFacts
  <2> QED  BY <2>2, <2>4, <2>5
<1>3. Avail(c, L) = Unread(c)
  <2>1. CASE L = 0
    <3>1. queue[c] = <<>> /\ sent[c] = Len(out[c]) /\ Len(out[c]) \in Nat
      BY <1>1, <2>1, QueueFacts, EmptySeq DEF StreamOf
    <3> QED  BY <2>1, <3>1 DEF Avail, Unread
  <2>2. CASE L # 0
    <3>1. queue[c] # <<>> /\ 1 \in 1 .. L /\ L \in 1 .. L
      BY <1>1, <2>2
    <3>2. sent[c] = Base(c) + Offset(L) + mbuf[queue[c][L]].last
      BY <1>1, <3>1 DEF StreamOf
    <3> DEFINE f == Offset(L)
               l == mbuf[queue[c][L]].last
               z == mbuf[queue[c][1]].pos
               o == Len(out[c])
    <3>3. f \in Int /\ l \in 0 .. Cap /\ z \in 0 .. Cap /\ o \in Nat /\ Cap \in Nat
      BY <1>1, <3>1, OffsetFacts, QueueFacts
    <3>4. sent[c] = o - z + f + l /\ Avail(c, L) = f + l - z
      BY <2>2, <3>2 DEF Base, Avail
    <3> HIDE DEF f, l, z, o
    <3>5. sent[c] - o = Avail(c, L)
      BY <3>3, <3>4
    <3> QED  BY <3>5 DEF Unread, o
  <2> QED  BY <2>1, <2>2
<1>4. G = [k \in 0 .. L |-> IF k = 0 THEN <<>> ELSE G[k - 1] \o Added(c, n, k, G[k - 1])]
  <2>1. Upcoming(c, Lesser(n, Avail(c, 0))) = <<>>
    <3>1. Lesser(n, Avail(c, 0)) = 0
      BY <1>1 DEF Avail, Lesser
    <3>2. Upcoming(c, 0) = <<>>
      BY DEF Upcoming
    <3> QED  BY <3>1, <3>2
  <2>2. ASSUME NEW k \in 0 .. L, k # 0
        PROVE  G[k] = G[k - 1] \o Added(c, n, k, G[k - 1])
    <3>1. k \in 1 .. L /\ k - 1 \in 0 .. L
      BY <1>1, <2>2
    <3>2. Avail(c, k - 1) \in Nat
      BY <1>2, <3>1
    <3> QED  BY <1>1, <3>1, <3>2, PeekStep
  <2>3. G[0] = <<>> /\ DOMAIN G = 0 .. L /\ G = [k \in 0 .. L |-> G[k]]
    BY <1>1, <2>1
  <2> HIDE DEF G
  <2> QED  BY <2>2, <2>3
<1>5. G[L] = Upcoming(c, Lesser(n, Unread(c)))
  BY <1>1, <1>3
<1> HIDE DEF G
<1> QED  BY <1>1, <1>4, <1>5, PeekIs

\* con_buf_peek, which goes on while the mbuf at hand does not fill dst, copies
\* the next bytes of the stream, as many as asked for or all there are,
\* whatever the length of the queue and the state of its first mbuf.
THEOREM PeekCorrect == Spec => []PeekSeesNext
BY Peeks, AllInvInductive, PTL DEF Spec
=============================================================================
