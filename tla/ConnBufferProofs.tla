-------------------------- MODULE ConnBufferProofs --------------------------
(***************************************************************************)
(* Proofs about ConnBuffer, for any number of connections, any capacity of *)
(* the mbufs and any recycle limit.                                        *)
(***************************************************************************)
EXTENDS ConnBuffer, SequenceTheorems, FiniteSetTheorems, TLAPS

-----------------------------------------------------------------------------
(* Lists without repetition, which the TAILQs of the code are: what        *)
(* appending an element and removing the first one do to their elements.   *)

\* The elements of a list, by position.
LEMMA RangeByPosition ==
    ASSUME NEW S, NEW q \in Seq(S)
    PROVE  /\ Len(q) \in Nat /\ DOMAIN q = 1 .. Len(q)
           /\ Range(q) = {q[i] : i \in 1 .. Len(q)} /\ Range(q) \subseteq S
           /\ IsInjective(q) <=> \A i, j \in 1 .. Len(q) : q[i] = q[j] => i = j
<1>1. Len(q) \in Nat /\ DOMAIN q = 1 .. Len(q) /\ q \in [1 .. Len(q) -> S]
  BY LenProperties
<1>2. Range(q) = {q[i] : i \in 1 .. Len(q)}
  BY <1>1 DEF Range
<1>3. Range(q) \subseteq S
  BY <1>1, <1>2
<1>4. IsInjective(q) <=> \A i, j \in 1 .. Len(q) : q[i] = q[j] => i = j
  BY <1>1 DEF IsInjective
<1> QED  BY <1>1, <1>2, <1>3, <1>4

\* TAILQ_INSERT_TAIL of an element that is not in the list.
LEMMA AppendFacts ==
    ASSUME NEW S, NEW q \in Seq(S), NEW m \in S, m \notin Range(q), IsInjective(q)
    PROVE  /\ Append(q, m) \in Seq(S) /\ Append(q, m) # <<>>
           /\ Len(Append(q, m)) = Len(q) + 1
           /\ \A i \in 1 .. Len(q) : Append(q, m)[i] = q[i]
           /\ Append(q, m)[Len(q) + 1] = m
           /\ Range(Append(q, m)) = Range(q) \cup {m}
           /\ IsInjective(Append(q, m))
<1> DEFINE a == Append(q, m)
<1>1. /\ a \in Seq(S) /\ Len(a) = Len(q) + 1 /\ Len(q) \in Nat
      /\ \A i \in 1 .. Len(q) : a[i] = q[i]
      /\ a[Len(q) + 1] = m
  BY AppendProperties, LenProperties
<1>2. a # <<>>
  BY <1>1
<1> HIDE DEF a
<1>3. 1 .. Len(a) = 1 .. Len(q) \cup {Len(q) + 1}
  BY <1>1
<1>4. Range(a) = Range(q) \cup {m}
  <2>1. Range(a) = {a[i] : i \in 1 .. Len(a)} /\ Range(q) = {q[i] : i \in 1 .. Len(q)}
    BY <1>1, RangeByPosition
  <2> QED  BY <2>1, <1>1, <1>3
<1>5. IsInjective(a)
  <2>1. \A i \in 1 .. Len(q) : q[i] # m
    BY RangeByPosition
  <2>2. \A i, j \in 1 .. Len(q) : q[i] = q[j] => i = j
    BY RangeByPosition
  <2>3. \A i, j \in 1 .. Len(a) : a[i] = a[j] => i = j
    BY <2>1, <2>2, <1>1, <1>3
  <2> QED  BY <2>3, <1>1, RangeByPosition
<1> QED  BY <1>1, <1>2, <1>4, <1>5 DEF a

\* TAILQ_REMOVE of the first element.
LEMMA TailFacts ==
    ASSUME NEW S, NEW q \in Seq(S), q # <<>>, IsInjective(q)
    PROVE  /\ Tail(q) \in Seq(S) /\ Len(q) \in Nat \ {0}
           /\ Len(Tail(q)) = Len(q) - 1
           /\ \A i \in 1 .. Len(q) - 1 : Tail(q)[i] = q[i + 1]
           /\ Head(q) = q[1] /\ Head(q) \in Range(q) /\ Head(q) \in S
           /\ Range(Tail(q)) = Range(q) \ {Head(q)}
           /\ IsInjective(Tail(q))
<1> DEFINE t == Tail(q)
<1>1. /\ t \in Seq(S) /\ Len(q) \in Nat \ {0} /\ Len(t) = Len(q) - 1
      /\ \A i \in 1 .. Len(q) - 1 : t[i] = q[i + 1]
      /\ Head(q) \in S
  BY HeadTailProperties, EmptySeq
<1>2. Head(q) = q[1]
  BY <1>1
<1> HIDE DEF t
<1>3. /\ Range(q) = {q[i] : i \in 1 .. Len(q)} /\ Range(t) = {t[i] : i \in 1 .. Len(t)}
      /\ \A i, j \in 1 .. Len(q) : q[i] = q[j] => i = j
  BY <1>1, RangeByPosition
<1>4. Range(t) = Range(q) \ {Head(q)}
  <2>1. ASSUME NEW x \in Range(t) PROVE x \in Range(q) /\ x # Head(q)
    BY <1>1, <1>2, <1>3
  <2>2. ASSUME NEW x \in Range(q), x # Head(q) PROVE x \in Range(t)
    <3>1. PICK i \in 1 .. Len(q) : x = q[i]
      BY <1>3
    <3>2. i - 1 \in 1 .. Len(t) /\ t[i - 1] = q[i]
      BY <3>1, <2>2, <1>1, <1>2
    <3> QED  BY <3>1, <3>2, <1>3
  <2> QED  BY <2>1, <2>2
<1>5. IsInjective(t)
  <2>1. \A i, j \in 1 .. Len(t) : t[i] = t[j] => i = j
    BY <1>1, <1>3
  <2> QED  BY <2>1, <1>1, RangeByPosition
<1> QED  BY <1>1, <1>2, <1>3, <1>4, <1>5 DEF t

\* TAILQ_INSERT_HEAD of an element that is not in the list.
LEMMA ConsFacts ==
    ASSUME NEW S, NEW q \in Seq(S), NEW m \in S, m \notin Range(q), IsInjective(q)
    PROVE  /\ <<m>> \o q \in Seq(S)
           /\ Len(<<m>> \o q) = Len(q) + 1
           /\ Range(<<m>> \o q) = Range(q) \cup {m}
           /\ IsInjective(<<m>> \o q)
<1> DEFINE a == <<m>> \o q
<1>1. /\ <<m>> \in Seq(S) /\ Len(<<m>>) = 1 /\ <<m>>[1] = m /\ Len(q) \in Nat
  BY LenProperties
<1>2. /\ a \in Seq(S) /\ Len(a) = Len(q) + 1
      /\ \A i \in 1 .. 1 + Len(q) : a[i] = IF i <= 1 THEN <<m>>[i] ELSE q[i - 1]
  BY <1>1, ConcatProperties
<1> HIDE DEF a
<1>3. a[1] = m /\ \A i \in 1 .. Len(q) : a[i + 1] = q[i]
  BY <1>1, <1>2
<1>4. /\ Range(q) = {q[i] : i \in 1 .. Len(q)} /\ Range(a) = {a[i] : i \in 1 .. Len(a)}
      /\ \A i, j \in 1 .. Len(q) : q[i] = q[j] => i = j
  BY <1>2, RangeByPosition
<1>5. Range(a) = Range(q) \cup {m}
  <2>1. ASSUME NEW x \in Range(a) PROVE x \in Range(q) \cup {m}
    BY <1>1, <1>2, <1>4
  <2>2. ASSUME NEW x \in Range(q) PROVE x \in Range(a)
    <3>1. PICK i \in 1 .. Len(q) : x = q[i]
      BY <1>4
    <3> QED  BY <3>1, <1>1, <1>2, <1>3, <1>4
  <2>3. m \in Range(a)
    BY <1>1, <1>2, <1>3, <1>4
  <2> QED  BY <2>1, <2>2, <2>3
<1>6. IsInjective(a)
  <2>1. \A i \in 1 .. Len(q) : q[i] # m
    BY <1>4
  <2>2. \A i \in 1 .. Len(a) : i = 1 \/ (i - 1 \in 1 .. Len(q) /\ a[i] = q[i - 1])
    BY <1>1, <1>2
  <2>3. ASSUME NEW i \in 1 .. Len(a), NEW j \in 1 .. Len(a), a[i] = a[j] PROVE i = j
    <3>1. CASE i = 1 \/ j = 1
      BY <3>1, <2>1, <2>2, <2>3, <1>3
    <3>2. CASE i # 1 /\ j # 1
      <4>1. i - 1 = j - 1
        BY <3>2, <2>2, <2>3, <1>4
      <4> QED  BY <4>1, <1>1, <1>2
    <3> QED  BY <3>1, <3>2
  <2> QED  BY <2>3, <1>2, RangeByPosition
<1> QED  BY <1>2, <1>5, <1>6 DEF a

-----------------------------------------------------------------------------
(* Types, and what holds of a call that is under way.                      *)

CallInv ==
    /\ pc \in Calls => life[cur] = "open"
    /\ pc = "write" => todo > 0 /\ sent[cur] + todo <= MaxSent
    /\ pc = "read" => todo = Lesser(size[cur], arg) - got

MarkerInv == \A m \in Mbuf : mbuf[m].pos <= mbuf[m].last

TypeInv == TypeOK /\ CallInv /\ MarkerInv

Buffer == [data : [1 .. Cap -> Byte], pos : 0 .. Cap, last : 0 .. Cap]

\* The smaller of two numbers, as con_buf_read and mbuf_write compute it.
LEMMA LesserFacts ==
    ASSUME NEW a \in Int, NEW b \in Int
    PROVE  /\ Lesser(a, b) \in {a, b} /\ Lesser(a, b) \in Int
           /\ Lesser(a, b) <= a /\ Lesser(a, b) <= b
BY DEF Lesser

\* A new mbuf is well formed.
LEMMA EmptyMbufFacts ==
    EmptyMbuf \in Buffer /\ EmptyMbuf.pos = 0 /\ EmptyMbuf.last = 0
BY ConnBufferAssumption DEF EmptyMbuf, Buffer, Byte, NoByte

\* mbuf_create returns an address: one of the free list or one that is unused.
LEMMA NextMbufFacts ==
    ASSUME TypeOK, freeq # <<>> \/ Mbuf \ allocated # {}
    PROVE  /\ NextMbuf \in Mbuf
           /\ freeq # <<>> => NextMbuf = Head(freeq)
           /\ freeq = <<>> => NextMbuf \notin allocated
<1>1. CASE freeq # <<>>
  BY <1>1, HeadTailProperties DEF TypeOK, NextMbuf
<1>2. CASE freeq = <<>>
  <2>1. PICK m \in Mbuf : m \notin allocated
    BY <1>2
  <2> QED  BY <1>2, <2>1 DEF NextMbuf
<1> QED  BY <1>1, <1>2

\* mbuf_write appends n bytes and leaves every other mbuf alone.
LEMMA FilledFacts ==
    ASSUME TypeOK, cur \in Conn, NEW m \in Mbuf, NEW n \in Nat, n <= mbuf_write_size(m)
    PROVE  /\ Filled(m, n) \in [Mbuf -> Buffer]
           /\ \A l \in Mbuf \ {m} : Filled(m, n)[l] = mbuf[l]
           /\ Filled(m, n)[m].pos = mbuf[m].pos
           /\ Filled(m, n)[m].last = mbuf[m].last + n
           /\ \A j \in 1 .. Cap :
                 Filled(m, n)[m].data[j] = IF j \in mbuf[m].last + 1 .. mbuf[m].last + n
                                           THEN <<cur, sent[cur] + j - mbuf[m].last>>
                                           ELSE mbuf[m].data[j]
<1> DEFINE start == mbuf[m].last
           data == [j \in 1 .. Cap |-> IF j \in start + 1 .. start + n
                                       THEN <<cur, sent[cur] + j - start>>
                                       ELSE mbuf[m].data[j]]
<1>1. mbuf \in [Mbuf -> Buffer] /\ mbuf[m] \in Buffer /\ sent[cur] \in Nat
  BY DEF TypeOK, Buffer
<1>2. start \in 0 .. Cap /\ start + n \in 0 .. Cap /\ Cap \in Nat
  BY <1>1, ConnBufferAssumption DEF mbuf_write_size, Buffer
<1>3. data \in [1 .. Cap -> Byte]
  <2> SUFFICES ASSUME NEW j \in 1 .. Cap
               PROVE  (IF j \in start + 1 .. start + n
                       THEN <<cur, sent[cur] + j - start>> ELSE mbuf[m].data[j]) \in Byte
    OBVIOUS
  <2>1. CASE j \in start + 1 .. start + n
    <3>1. sent[cur] + j - start \in Nat
      BY <2>1, <1>1, <1>2
    <3> QED  BY <2>1, <3>1 DEF Byte
  <2>2. CASE j \notin start + 1 .. start + n
    BY <2>2, <1>1 DEF Buffer
  <2> QED  BY <2>1, <2>2
<1>4. Filled(m, n) = [mbuf EXCEPT ![m] = [data |-> data, pos |-> mbuf[m].pos, last |-> start + n]]
  BY DEF Filled
<1>5. [data |-> data, pos |-> mbuf[m].pos, last |-> start + n] \in Buffer
  BY <1>1, <1>2, <1>3 DEF Buffer
<1> HIDE DEF data
<1>6. /\ Filled(m, n) \in [Mbuf -> Buffer]
      /\ \A l \in Mbuf \ {m} : Filled(m, n)[l] = mbuf[l]
      /\ Filled(m, n)[m] = [data |-> data, pos |-> mbuf[m].pos, last |-> start + n]
  BY <1>1, <1>4, <1>5
<1> QED  BY <1>6 DEF data

Statistics == [total_buffers : Int, buffers : Int, free_buffers : Int, conns : Int,
               free_conns : Int, conn_info : Int, free_conn_info : Int]

\* mbuf_get hands out an empty mbuf and keeps the types.
LEMMA GetTypes ==
    ASSUME TypeOK, mbuf_get
    PROVE  /\ NextMbuf \in Mbuf
           /\ freeq' \in Seq(Mbuf) /\ allocated' \subseteq Mbuf
           /\ mstats' \in Statistics
           /\ mbuf' \in [Mbuf -> Buffer]
           /\ \A l \in Mbuf \ {NextMbuf} : mbuf'[l] = mbuf[l]
           /\ mbuf'[NextMbuf].pos = 0 /\ mbuf'[NextMbuf].last = 0
<1>1. NextMbuf \in Mbuf
  BY NextMbufFacts DEF mbuf_get
<1>2. freeq' \in Seq(Mbuf)
  BY HeadTailProperties DEF mbuf_get, TypeOK
<1>3. allocated' \subseteq Mbuf
  BY <1>1 DEF mbuf_get, TypeOK
<1>4. mstats' \in Statistics
  <2>1. mstats \in Statistics
    BY DEF TypeOK, Statistics
  <2>2. mstats.buffers + 1 \in Int /\ mstats.free_buffers - 1 \in Int
        /\ mstats.total_buffers + 1 \in Int
    BY <2>1 DEF Statistics
  <2>3. CASE freeq # <<>>
    <3>1. mstats' = [mstats EXCEPT !.buffers = @ + 1, !.free_buffers = @ - 1, !.total_buffers = @]
      BY <2>3 DEF mbuf_get
    <3> QED  BY <2>1, <2>2, <3>1 DEF Statistics
  <2>4. CASE freeq = <<>>
    <3>1. mstats' = [mstats EXCEPT !.buffers = @ + 1, !.free_buffers = @, !.total_buffers = @ + 1]
      BY <2>4 DEF mbuf_get
    <3> QED  BY <2>1, <2>2, <3>1 DEF Statistics
  <2> QED  BY <2>3, <2>4
<1>5. /\ mbuf' \in [Mbuf -> Buffer]
      /\ \A l \in Mbuf \ {NextMbuf} : mbuf'[l] = mbuf[l]
      /\ mbuf'[NextMbuf] = EmptyMbuf
  BY <1>1, EmptyMbufFacts DEF mbuf_get, TypeOK, Buffer
<1> QED  BY <1>1, <1>2, <1>3, <1>4, <1>5, EmptyMbufFacts

\* mbuf_recycle keeps the types.
LEMMA RecycleTypes ==
    ASSUME TypeOK, NEW m \in Mbuf, mbuf_recycle(m)
    PROVE  freeq' \in Seq(Mbuf) /\ allocated' \subseteq Mbuf /\ mstats' \in Statistics
<1>1. freeq' \in Seq(Mbuf)
  <2>1. <<m>> \in Seq(Mbuf) /\ freeq \in Seq(Mbuf)
    BY DEF TypeOK
  <2>2. <<m>> \o freeq \in Seq(Mbuf)
    BY <2>1, ConcatProperties
  <2> QED  BY <2>1, <2>2 DEF mbuf_recycle
<1>2. allocated' \subseteq Mbuf
  BY DEF mbuf_recycle, TypeOK
<1>3. mstats' \in Statistics
  <2>1. mstats \in Statistics
    BY DEF TypeOK, Statistics
  <2>2. \/ mstats' = [mstats EXCEPT !.buffers = @ - 1, !.total_buffers = @ - 1]
        \/ mstats' = [mstats EXCEPT !.buffers = @ - 1, !.free_buffers = @ + 1]
    BY DEF mbuf_recycle
  <2>3. mstats.buffers - 1 \in Int /\ mstats.total_buffers - 1 \in Int /\ mstats.free_buffers + 1 \in Int
    BY <2>1 DEF Statistics
  <2>4. CASE mstats' = [mstats EXCEPT !.buffers = @ - 1, !.total_buffers = @ - 1]
    BY <2>1, <2>3, <2>4 DEF Statistics
  <2>5. CASE mstats' = [mstats EXCEPT !.buffers = @ - 1, !.free_buffers = @ + 1]
    BY <2>1, <2>3, <2>5 DEF Statistics
  <2> QED  BY <2>2, <2>4, <2>5
<1> QED  BY <1>1, <1>2, <1>3

\* The last mbuf of the connection that is written, and how much goes in.
LEMMA FillSetting ==
    ASSUME TypeInv, pc = "write", LastHasRoom(cur)
    PROVE  LET q == queue[cur]
               m == Last(q)
               n == Lesser(mbuf_write_size(m), todo)
           IN  /\ cur \in Conn /\ q \in Seq(Mbuf) /\ Len(q) \in Nat \ {0}
               /\ m = q[Len(q)] /\ m \in Mbuf
               /\ mbuf_write_size(m) \in Nat \ {0}
               /\ n \in Nat \ {0} /\ n <= mbuf_write_size(m) /\ n <= todo
               /\ mbuf_write_size(m) > todo <=> n < mbuf_write_size(m)
               /\ n # todo => n = mbuf_write_size(m)
<1> DEFINE q == queue[cur]
           m == Last(q)
<1>1. cur \in Conn /\ q \in Seq(Mbuf) /\ q # <<>> /\ todo \in Nat \ {0}
  BY DEF TypeInv, TypeOK, CallInv, Calls, LastHasRoom
<1>2. Len(q) \in Nat \ {0} /\ m = q[Len(q)]
  BY <1>1, EmptySeq DEF Last
<1>3. m \in Mbuf
  BY <1>1, <1>2, ElementOfSeq
<1>4. mbuf_write_size(m) \in Nat \ {0}
  <2>1. mbuf[m].last \in 0 .. Cap /\ Cap \in Nat
    BY <1>3, ConnBufferAssumption DEF TypeInv, TypeOK
  <2>2. mbuf_write_size(m) # 0
    BY DEF LastHasRoom
  <2> QED  BY <2>1, <2>2 DEF mbuf_write_size
<1> HIDE DEF m
<1> QED  BY <1>1, <1>2, <1>3, <1>4 DEF Lesser, m

\* The first mbuf of the connection that is read, and how much comes out.
LEMMA ReadSetting ==
    ASSUME TypeInv, pc = "read", MayRead
    PROVE  LET q == queue[cur]
               m == Head(q)
               n == Lesser(mbuf_read_size(m), arg)
           IN  /\ cur \in Conn /\ q \in Seq(Mbuf) /\ q # <<>>
               /\ m \in Mbuf
               /\ mbuf[m] \in Buffer
               /\ mbuf_read_size(m) \in Nat \ {0}
               /\ n \in Nat /\ n <= mbuf_read_size(m) /\ n <= arg
               /\ n # arg => n = mbuf_read_size(m)
               /\ Copied(m, n) \in Seq(Byte) /\ Len(Copied(m, n)) = n
               /\ \A i \in 1 .. n : Copied(m, n)[i] = mbuf[m].data[mbuf[m].pos + i]
<1> DEFINE q == queue[cur]
           m == Head(q)
           n == Lesser(mbuf_read_size(m), arg)
<1>1. cur \in Conn /\ q \in Seq(Mbuf) /\ q # <<>> /\ arg \in Nat
  BY DEF TypeInv, TypeOK, Calls, MayRead, mhdr_readable
<1>2. m \in Mbuf
  BY <1>1, HeadTailProperties
<1>3. mbuf[m] \in Buffer /\ mbuf[m].pos <= mbuf[m].last
  BY <1>2 DEF TypeInv, TypeOK, MarkerInv, Buffer
<1>4. mbuf[m].pos \in 0 .. Cap /\ mbuf[m].last \in 0 .. Cap /\ Cap \in Nat
  BY <1>3, ConnBufferAssumption DEF Buffer
<1>5. mbuf_read_size(m) \in Nat \ {0} /\ mbuf[m].pos + mbuf_read_size(m) <= Cap
  <2>1. mbuf_read_size(m) > 0
    BY DEF MayRead, mhdr_readable
  <2> QED  BY <2>1, <1>4 DEF mbuf_read_size
<1>6. /\ n \in Nat /\ n <= mbuf_read_size(m) /\ n <= arg
      /\ n # arg => n = mbuf_read_size(m)
  BY <1>1, <1>5 DEF Lesser
<1> HIDE DEF n
<1>7. \A i \in 1 .. n : mbuf[m].data[mbuf[m].pos + i] \in Byte
  <2> SUFFICES ASSUME NEW i \in 1 .. n PROVE mbuf[m].data[mbuf[m].pos + i] \in Byte
    OBVIOUS
  <2>1. mbuf[m].pos + i \in 1 .. Cap
    BY <1>4, <1>5, <1>6
  <2> QED  BY <2>1, <1>3 DEF Buffer
<1>8. Copied(m, n) \in [1 .. n -> Byte]
  BY <1>7 DEF Copied
<1>9. Copied(m, n) \in Seq(Byte) /\ Len(Copied(m, n)) = n
  BY <1>6, <1>8
<1>10. \A i \in 1 .. n : Copied(m, n)[i] = mbuf[m].data[mbuf[m].pos + i]
  BY DEF Copied
<1> HIDE DEF m
<1> QED  BY <1>1, <1>2, <1>3, <1>5, <1>6, <1>9, <1>10 DEF n, m

\* Changing statistics by integers leaves statistics.
LEMMA StatisticsUpdates ==
    ASSUME NEW s \in Statistics, NEW a \in Int, NEW b \in Int, NEW c \in Int
    PROVE  /\ [s EXCEPT !.conn_info = a, !.free_conn_info = b] \in Statistics
           /\ [s EXCEPT !.free_conn_info = a, !.conns = b, !.free_conns = c] \in Statistics
BY DEF Statistics

\* A new context is well formed.
LEMMA TypeInvInit == Init => TypeInv
<1> SUFFICES ASSUME Init PROVE TypeInv
  OBVIOUS
<1>1. mbuf \in [Mbuf -> Buffer] /\ MarkerInv
  BY EmptyMbufFacts DEF Init, MarkerInv
<1>2. TypeOK
  BY <1>1 DEF Init, TypeOK, Calls, Buffer
<1>3. CallInv
  BY DEF Init, CallInv, Calls
<1> QED  BY <1>1, <1>2, <1>3 DEF TypeInv

\* A call returned: nothing is under way.
LEMMA ReturnFacts ==
    ASSUME Return
    PROVE  /\ pc' = "idle" /\ cur' \in Conn \cup {NoConn} /\ arg' = 0 /\ todo' = 0
           /\ pc' \notin Calls /\ CallInv'
BY DEF Return, Calls, CallInv

\* Every operation keeps types, markers and the call's bookkeeping.
LEMMA TypeInvNext == TypeInv /\ [Next]_vars => TypeInv'
<1> SUFFICES ASSUME TypeInv, [Next]_vars PROVE TypeInv'
  OBVIOUS
<1> USE DEF TypeInv
<1>0. /\ size \in [Conn -> Int] /\ sent \in [Conn -> Nat] /\ out \in [Conn -> Seq(Byte)]
      /\ arg \in Nat /\ todo \in Int /\ got \in Nat
      /\ hasInfo \in [Conn -> BOOLEAN] /\ freeInfos \in Nat /\ life \in [Conn -> {"unborn", "open", "cached"}]
      /\ freeq \in Seq(Mbuf) /\ allocated \subseteq Mbuf
      /\ mstats \in Statistics /\ queue \in [Conn -> Seq(Mbuf)] /\ mbuf \in [Mbuf -> Buffer]
  BY DEF TypeOK, Statistics, Buffer
<1>1. ASSUME NEW c \in Conn, context_connection_new(c) PROVE TypeInv'
  <2>1. pc \notin Calls /\ pc' \notin Calls /\ pc' \in {"idle", "crashed"}
    BY <1>1 DEF context_connection_new, Calls
  <2>2. life' \in [Conn -> {"unborn", "open", "cached"}]
    BY <1>1 DEF context_connection_new, TypeOK
  <2>3. mstats' \in Statistics
    <3>1. mstats \in Statistics
      BY DEF TypeOK, Statistics
    <3>2. mstats' = mstats \/ mstats' = [mstats EXCEPT !.conns = @ + 1]
      BY <1>1 DEF context_connection_new
    <3>3. CASE mstats' = mstats
      BY <3>1, <3>3
    <3>4. CASE mstats' = [mstats EXCEPT !.conns = @ + 1]
      BY <3>1, <3>4 DEF Statistics
    <3> QED  BY <3>2, <3>3, <3>4
  <2>4. TypeOK'
    BY <1>1, <2>1, <2>2, <2>3 DEF context_connection_new, TypeOK, Statistics, pool, history
  <2>5. CallInv'
    BY <2>1 DEF CallInv, Calls
  <2>6. MarkerInv'
    BY <1>1 DEF context_connection_new, MarkerInv, pool
  <2> QED  BY <2>4, <2>5, <2>6
<1>2. ASSUME NEW c \in Conn, NEW n \in Lens, con_buf_write(c, n) PROVE TypeInv'
  <2>1. n \in Nat
    BY ConnBufferAssumption
  <2>2. /\ hasInfo' \in [Conn -> BOOLEAN] /\ freeInfos' \in Nat
    <3>1. CASE hasInfo[c]
      BY <1>0, <1>2, <3>1 DEF con_buf_write
    <3>2. CASE ~ hasInfo[c]
      <4>1. /\ hasInfo' = [hasInfo EXCEPT ![c] = TRUE]
            /\ freeInfos' = IF freeInfos > 0 THEN freeInfos - 1 ELSE 0
        BY <1>2, <3>2 DEF con_buf_write, con_info_new
      <4> QED  BY <1>0, <4>1
    <3> QED  BY <3>1, <3>2
  <2>3. mstats' \in Statistics
    <3>1. mstats \in Statistics
      BY DEF TypeOK, Statistics
    <3>2. \/ mstats' = mstats
          \/ mstats' = [mstats EXCEPT !.conn_info = @ + 1, !.free_conn_info = @ - 1]
          \/ mstats' = [mstats EXCEPT !.conn_info = @ + 1, !.free_conn_info = @]
      <4>1. CASE freeInfos > 0
        BY <1>2, <4>1 DEF con_buf_write, con_info_new
      <4>2. CASE ~ (freeInfos > 0)
        BY <1>2, <4>2 DEF con_buf_write, con_info_new
      <4> QED  BY <4>1, <4>2
    <3>3. CASE mstats' = mstats
      BY <3>1, <3>3
    <3>6. mstats.conn_info + 1 \in Int /\ mstats.free_conn_info - 1 \in Int /\ mstats.free_conn_info \in Int
      BY <3>1 DEF Statistics
    <3>4. CASE mstats' = [mstats EXCEPT !.conn_info = @ + 1, !.free_conn_info = @ - 1]
      BY <3>1, <3>4, <3>6, StatisticsUpdates
    <3>5. CASE mstats' = [mstats EXCEPT !.conn_info = @ + 1, !.free_conn_info = @]
      BY <3>1, <3>5, <3>6, StatisticsUpdates
    <3> QED  BY <3>2, <3>3, <3>4, <3>5
  <2>7. /\ pc' = "write" /\ cur' = c /\ arg' = n /\ todo' = n /\ got' = 0
        /\ UNCHANGED <<life, size, queue, pool, history>>
    BY <1>2 DEF con_buf_write
  <2>4. TypeOK'
    <3>1. /\ pc' \in Calls /\ cur' \in Conn /\ arg' \in Nat /\ todo' \in Int /\ got' \in Nat
          /\ UNCHANGED <<life, size, queue, mbuf, freeq, allocated, sent, out>>
      BY <2>1, <2>7 DEF Calls, pool, history
    <3> QED  BY <1>0, <2>2, <2>3, <3>1 DEF TypeOK, Statistics, Buffer
  <2>5. CallInv'
    BY <1>2, <2>1 DEF con_buf_write, CallInv, Calls, history
  <2>6. MarkerInv'
    BY <1>2 DEF con_buf_write, MarkerInv, pool
  <2> QED  BY <2>4, <2>5, <2>6
<1>3. ASSUME AppendMbuf PROVE TypeInv'
  <2>1. mbuf_get /\ TypeOK
    BY <1>3 DEF AppendMbuf
  <2>2. cur \in Conn
    BY <1>3 DEF AppendMbuf, TypeOK, Calls
  <2>3. queue' \in [Conn -> Seq(Mbuf)]
    <3>1. Append(queue[cur], NextMbuf) \in Seq(Mbuf)
      BY <2>1, <2>2, GetTypes, AppendProperties DEF TypeOK
    <3> QED  BY <1>3, <3>1 DEF AppendMbuf, TypeOK
  <2>4. TypeOK'
    BY <1>3, <2>1, <2>3, GetTypes DEF AppendMbuf, TypeOK, Statistics, Buffer, call, history
  <2>5. CallInv'
    BY <1>3 DEF AppendMbuf, CallInv, call, history
  <2>6. MarkerInv'
    BY <2>1, GetTypes DEF MarkerInv
  <2> QED  BY <2>4, <2>5, <2>6
<1>4. ASSUME FillMbuf PROVE TypeInv'
  <2> DEFINE m == Last(queue[cur])
             n == Lesser(mbuf_write_size(m), todo)
  <2>1. /\ cur \in Conn /\ m \in Mbuf /\ n \in Nat \ {0} /\ n <= todo
        /\ n <= mbuf_write_size(m)
    BY <1>4, FillSetting DEF FillMbuf
  <2>2. /\ mbuf' = Filled(m, n) /\ sent' = [sent EXCEPT ![cur] = @ + n]
        /\ IF n = todo THEN Return ELSE todo' = todo - n /\ UNCHANGED <<pc, cur, arg>>
        /\ size' = size \/ size' = [size EXCEPT ![cur] = @ + arg]
        /\ pc = "write"
        /\ UNCHANGED <<got, life, hasInfo, queue, freeq, freeInfos, allocated, mstats, out>>
    BY <1>4 DEF FillMbuf
  <2> HIDE DEF m, n
  <2>3. /\ mbuf' \in [Mbuf -> Buffer]
        /\ \A l \in Mbuf \ {m} : mbuf'[l] = mbuf[l]
        /\ mbuf'[m].pos = mbuf[m].pos /\ mbuf'[m].last = mbuf[m].last + n
    BY <2>1, <2>2, FilledFacts
  <2>4. sent' \in [Conn -> Nat] /\ size' \in [Conn -> Int]
    <3>1. sent[cur] + n \in Nat /\ size[cur] + arg \in Int
      BY <1>0, <2>1
    <3> QED  BY <1>0, <2>1, <2>2, <3>1
  <2>5. /\ pc' \in Calls \cup {"idle", "crashed", "destroyed"}
        /\ cur' \in Conn \cup {NoConn} /\ (pc' \in Calls => cur' \in Conn)
        /\ arg' \in Nat /\ todo' \in Int
    <3>1. todo - n \in Int
      BY <1>0, <2>1
    <3> QED  BY <1>0, <2>1, <2>2, <3>1, ReturnFacts DEF Calls
  <2>6. TypeOK'
    BY <2>2, <2>3, <2>4, <2>5 DEF TypeOK, Buffer
  <2>7. CallInv'
    <3>1. CASE n = todo
      BY <2>2, <3>1, ReturnFacts
    <3>2. CASE n # todo
      <4>1. sent'[cur] = sent[cur] + n /\ todo' = todo - n
        BY <2>1, <2>2, <3>2 DEF TypeOK
      <4> QED  BY <2>1, <2>2, <3>2, <4>1 DEF CallInv, TypeOK, Calls
    <3> QED  BY <3>1, <3>2
  <2>8. MarkerInv'
    <3>1. mbuf[m].pos \in 0 .. Cap /\ mbuf[m].last \in 0 .. Cap /\ mbuf[m].pos <= mbuf[m].last
      BY <1>0, <2>1 DEF MarkerInv, Buffer
    <3>2. mbuf'[m].pos <= mbuf'[m].last
      BY <2>1, <2>3, <3>1, ConnBufferAssumption
    <3> QED  BY <2>3, <3>2 DEF MarkerInv
  <2> QED  BY <2>6, <2>7, <2>8
<1>5. ASSUME NEW c \in Conn, NEW n \in Lens, con_buf_read(c, n) PROVE TypeInv'
  <2>1. n \in Nat /\ size[c] \in Int /\ Lesser(size[c], n) \in Int
    BY ConnBufferAssumption, LesserFacts DEF TypeOK
  <2>2. TypeOK'
    BY <1>5, <2>1 DEF con_buf_read, TypeOK, Calls, pool, history
  <2>3. CallInv'
    BY <1>5, <2>1 DEF con_buf_read, CallInv, Calls, history
  <2>4. MarkerInv'
    BY <1>5 DEF con_buf_read, MarkerInv, pool
  <2> QED  BY <2>2, <2>3, <2>4
<1>6. ASSUME ReadMbuf PROVE TypeInv'
  <2> DEFINE m == Head(queue[cur])
             n == Lesser(mbuf_read_size(m), arg)
  <2>1. /\ cur \in Conn /\ queue[cur] \in Seq(Mbuf) /\ queue[cur] # <<>>
        /\ m \in Mbuf /\ mbuf[m] \in Buffer /\ n \in Nat /\ n <= mbuf_read_size(m)
        /\ Copied(m, n) \in Seq(Byte)
    BY <1>6, ReadSetting DEF ReadMbuf
  <2>2. /\ mbuf' = [mbuf EXCEPT ![m].pos = @ + n]
        /\ out' = [out EXCEPT ![cur] = @ \o Copied(m, n)]
        /\ got' = got + n
        /\ IF CanRecycle(m, n)
           THEN /\ todo' = todo - n
                /\ queue' = [queue EXCEPT ![cur] = Tail(@)]
                /\ mbuf_recycle(m)
                /\ UNCHANGED <<pc, cur, arg, size>>
           ELSE /\ Return
                /\ size' = [size EXCEPT ![cur] = @ - got']
                /\ UNCHANGED <<queue, freeq, allocated, mstats>>
        /\ UNCHANGED <<life, hasInfo, freeInfos, sent>>
        /\ pc = "read"
    BY <1>6 DEF ReadMbuf
  <2> HIDE DEF m, n
  <2>3. /\ mbuf' \in [Mbuf -> Buffer] /\ MarkerInv'
    <3>1. mbuf[m].pos + n \in 0 .. Cap /\ mbuf[m].pos + n <= mbuf[m].last
      BY <2>1, ConnBufferAssumption DEF mbuf_read_size, Buffer
    <3>2. [mbuf[m] EXCEPT !.pos = @ + n] \in Buffer
      BY <2>1, <3>1 DEF Buffer
    <3>3. mbuf \in [Mbuf -> Buffer]
      BY DEF TypeOK, Buffer
    <3>4. mbuf' = [mbuf EXCEPT ![m] = [mbuf[m] EXCEPT !.pos = @ + n]]
      BY <2>2
    <3>5. /\ mbuf' \in [Mbuf -> Buffer] /\ \A l \in Mbuf \ {m} : mbuf'[l] = mbuf[l]
          /\ mbuf'[m].pos = mbuf[m].pos + n /\ mbuf'[m].last = mbuf[m].last
      BY <2>1, <3>2, <3>3, <3>4 DEF Buffer
    <3> QED  BY <3>1, <3>5 DEF MarkerInv
  <2>4. out' \in [Conn -> Seq(Byte)]
    <3>1. out[cur] \o Copied(m, n) \in Seq(Byte)
      BY <2>1, ConcatProperties DEF TypeOK
    <3> QED  BY <2>2, <3>1 DEF TypeOK
  <2>5. got' \in Nat
    BY <1>0, <2>1, <2>2
  <2>6. CASE CanRecycle(m, n)
    <3>1. queue' \in [Conn -> Seq(Mbuf)]
      <4>1. Tail(queue[cur]) \in Seq(Mbuf)
        BY <2>1, HeadTailProperties
      <4> QED  BY <2>2, <2>6, <4>1 DEF TypeOK
    <3>2. freeq' \in Seq(Mbuf) /\ allocated' \subseteq Mbuf /\ mstats' \in Statistics
      BY <2>1, <2>2, <2>6, RecycleTypes
    <3>5. todo' \in Int
      BY <1>0, <2>1, <2>2, <2>6
    <3>3. TypeOK'
      <4>1. UNCHANGED <<pc, cur, arg, size, life, hasInfo, freeInfos, sent>>
        BY <2>2, <2>6
      <4> QED  BY <2>1, <2>2, <2>3, <2>4, <2>5, <3>1, <3>2, <3>5, <4>1 DEF TypeOK, Statistics, Buffer
    <3>4. CallInv'
      <4>1. todo' = Lesser(size[cur], arg) - got'
        <5>1. todo = Lesser(size[cur], arg) - got /\ Lesser(size[cur], arg) \in Int
          BY <1>0, <2>1, <2>2, LesserFacts DEF CallInv
        <5> QED  BY <1>0, <2>1, <2>2, <2>6, <5>1
      <4> QED  BY <2>2, <2>6, <4>1 DEF CallInv, Lesser
    <3> QED  BY <2>3, <3>3, <3>4
  <2>7. CASE ~ CanRecycle(m, n)
    <3>1. size' \in [Conn -> Int]
      <4>1. size[cur] - got' \in Int
        BY <1>0, <2>1, <2>5
      <4> QED  BY <1>0, <2>1, <2>2, <2>7, <4>1
    <3>2. Return /\ UNCHANGED <<queue, freeq, allocated, mstats, life, hasInfo, freeInfos, sent>>
      BY <2>2, <2>7
    <3>3. TypeOK'
      <4>1. pc' = "idle" /\ cur' \in Conn \cup {NoConn} /\ pc' \notin Calls /\ arg' \in Nat /\ todo' \in Int
        BY <3>2, ReturnFacts
      <4>2. /\ life' \in [Conn -> {"unborn", "open", "cached"}] /\ hasInfo' \in [Conn -> BOOLEAN]
            /\ queue' \in [Conn -> Seq(Mbuf)] /\ freeq' \in Seq(Mbuf) /\ freeInfos' \in Nat
            /\ allocated' \subseteq Mbuf /\ mstats' \in Statistics /\ sent' \in [Conn -> Nat]
        BY <1>0, <3>2
      <4> QED  BY <2>3, <2>4, <2>5, <3>1, <4>1, <4>2 DEF TypeOK, Statistics, Buffer
    <3> QED  BY <2>3, <3>2, <3>3, ReturnFacts
  <2> QED  BY <2>6, <2>7
<1>7. ASSUME ReadReturns PROVE TypeInv'
  <2>1. Return /\ cur \in Conn
    BY <1>7 DEF ReadReturns, TypeOK, Calls
  <2>2. size' \in [Conn -> Int]
    BY <1>7, <2>1 DEF ReadReturns, TypeOK
  <2>3. UNCHANGED <<got, life, hasInfo, queue, mbuf, freeq, freeInfos, allocated, mstats, sent, out>>
    BY <1>7 DEF ReadReturns, pool, history
  <2>4. /\ pc' = "idle" /\ cur' \in Conn \cup {NoConn} /\ pc' \notin Calls
        /\ arg' \in Nat /\ todo' \in Int
    BY <2>1, ReturnFacts
  <2>5. TypeOK'
    <3>1. /\ life' \in [Conn -> {"unborn", "open", "cached"}] /\ hasInfo' \in [Conn -> BOOLEAN]
          /\ queue' \in [Conn -> Seq(Mbuf)] /\ freeq' \in Seq(Mbuf) /\ freeInfos' \in Nat
          /\ allocated' \subseteq Mbuf /\ mstats' \in Statistics /\ sent' \in [Conn -> Nat]
      BY <1>0, <2>3
    <3>2. got' \in Nat /\ mbuf' \in [Mbuf -> Buffer] /\ out' \in [Conn -> Seq(Byte)]
      BY <1>0, <2>3 DEF TypeOK, Buffer
    <3> QED  BY <2>2, <2>4, <3>1, <3>2 DEF TypeOK, Statistics, Buffer
  <2>6. MarkerInv'
    BY <2>3 DEF MarkerInv
  <2> QED  BY <2>1, <2>5, <2>6, ReturnFacts
<1>8. ASSUME NEW c \in Conn, context_conn_recyle(c) PROVE TypeInv'
  <2>1. mstats' \in Statistics
    <3>1. mstats \in Statistics
      BY DEF TypeOK, Statistics
    <3>2. mstats' = mstats \/ mstats' = [mstats EXCEPT !.conn_info = @ - 1]
      BY <1>8 DEF context_conn_recyle
    <3>3. CASE mstats' = mstats
      BY <3>1, <3>3
    <3>4. CASE mstats' = [mstats EXCEPT !.conn_info = @ - 1]
      BY <3>1, <3>4 DEF Statistics
    <3> QED  BY <3>2, <3>3, <3>4
  <2>2. TypeOK'
    BY <1>8, <2>1 DEF context_conn_recyle, TypeOK, Calls, Statistics, pool, history
  <2>3. CallInv'
    BY <1>8 DEF context_conn_recyle, CallInv
  <2>4. MarkerInv'
    BY <1>8 DEF context_conn_recyle, MarkerInv, pool
  <2> QED  BY <2>2, <2>3, <2>4
<1>9. ASSUME FreeMbuf PROVE TypeInv'
  <2> DEFINE m == Head(queue[cur])
  <2>1. /\ cur \in Conn /\ m \in Mbuf /\ mbuf_recycle(m)
        /\ Tail(queue[cur]) \in Seq(Mbuf)
    BY <1>9, HeadTailProperties DEF FreeMbuf, TypeOK, Calls
  <2>2. queue' \in [Conn -> Seq(Mbuf)]
    BY <1>9, <2>1 DEF FreeMbuf, TypeOK
  <2>3. freeq' \in Seq(Mbuf) /\ allocated' \subseteq Mbuf /\ mstats' \in Statistics
    BY <2>1, RecycleTypes
  <2>4. TypeOK'
    BY <1>9, <2>2, <2>3 DEF FreeMbuf, TypeOK, Statistics, call, history
  <2>5. CallInv'
    BY <1>9 DEF FreeMbuf, CallInv, call, history
  <2>6. MarkerInv'
    BY <1>9 DEF FreeMbuf, MarkerInv
  <2> QED  BY <2>4, <2>5, <2>6
<1>10. ASSUME CacheConnection PROVE TypeInv'
  <2>1. Return /\ cur \in Conn
    BY <1>10 DEF CacheConnection, TypeOK, Calls
  <2>2. /\ life' \in [Conn -> {"unborn", "open", "cached"}]
        /\ hasInfo' \in [Conn -> BOOLEAN] /\ freeInfos' \in Nat
    BY <1>10, <2>1 DEF CacheConnection, TypeOK
  <2>3. mstats' \in Statistics
    <3>1. mstats \in Statistics
      BY DEF TypeOK, Statistics
    <3>2. \/ mstats' = [mstats EXCEPT !.free_conn_info = @ + 1, !.conns = @ - 1, !.free_conns = @ + 1]
          \/ mstats' = [mstats EXCEPT !.free_conn_info = @, !.conns = @ - 1, !.free_conns = @ + 1]
      <4>1. CASE hasInfo[cur]
        BY <1>10, <4>1 DEF CacheConnection
      <4>2. CASE ~ hasInfo[cur]
        BY <1>10, <4>2 DEF CacheConnection
      <4> QED  BY <4>1, <4>2
    <3>5. /\ mstats.free_conn_info + 1 \in Int /\ mstats.free_conn_info \in Int
          /\ mstats.conns - 1 \in Int /\ mstats.free_conns + 1 \in Int
      BY <3>1 DEF Statistics
    <3>3. CASE mstats' = [mstats EXCEPT !.free_conn_info = @ + 1, !.conns = @ - 1, !.free_conns = @ + 1]
      BY <3>1, <3>3, <3>5, StatisticsUpdates
    <3>4. CASE mstats' = [mstats EXCEPT !.free_conn_info = @, !.conns = @ - 1, !.free_conns = @ + 1]
      BY <3>1, <3>4, <3>5, StatisticsUpdates
    <3> QED  BY <3>2, <3>3, <3>4
  <2>6. UNCHANGED <<got, size, queue, pool, history>>
    BY <1>10 DEF CacheConnection
  <2>4. TypeOK'
    <3>1. UNCHANGED <<got, size, queue, mbuf, freeq, allocated, sent, out>>
      BY <2>6 DEF pool, history
    <3>2. pc' = "idle" /\ cur' \in Conn \cup {NoConn} /\ pc' \notin Calls /\ arg' \in Nat /\ todo' \in Int
      BY <2>1, ReturnFacts
    <3>3. /\ got' \in Nat /\ size' \in [Conn -> Int] /\ queue' \in [Conn -> Seq(Mbuf)]
          /\ mbuf' \in [Mbuf -> Buffer] /\ freeq' \in Seq(Mbuf) /\ allocated' \subseteq Mbuf
          /\ sent' \in [Conn -> Nat] /\ out' \in [Conn -> Seq(Byte)]
      BY <1>0, <3>1
    <3> QED  BY <2>2, <2>3, <3>2, <3>3 DEF TypeOK, Statistics, Buffer
  <2>5. MarkerInv'
    BY <1>10 DEF CacheConnection, MarkerInv, pool
  <2> QED  BY <2>1, <2>4, <2>5, ReturnFacts
<1>11. ASSUME context_destroy PROVE TypeInv'
  <2>1. /\ pc' = "destroyed" /\ pc = "idle"
        /\ freeq' \in Seq(Mbuf) /\ allocated' \subseteq Mbuf /\ freeInfos' \in Nat
    <3>1. pc' = "destroyed" /\ pc = "idle"
      BY <1>11 DEF context_destroy
    <3>2. \/ UNCHANGED <<freeq, allocated, freeInfos>>
          \/ freeq' = <<>> /\ allocated' = allocated \ Range(freeq) /\ freeInfos' = 0
      BY <1>11 DEF context_destroy, mbuf_destroy
    <3>3. CASE UNCHANGED <<freeq, allocated, freeInfos>>
      BY <1>0, <3>1, <3>3
    <3>4. CASE freeq' = <<>> /\ allocated' = allocated \ Range(freeq) /\ freeInfos' = 0
      <4>1. <<>> \in Seq(Mbuf)
        OBVIOUS
      <4> QED  BY <1>0, <3>1, <3>4, <4>1
    <3> QED  BY <3>2, <3>3, <3>4
  <2>2. mstats' \in Statistics
    <3>1. mstats \in Statistics
      BY DEF TypeOK, Statistics
    <3>2. mstats' = mstats \/ mstats' = [mstats EXCEPT !.free_buffers = 0]
      BY <1>11 DEF context_destroy, mbuf_destroy
    <3>3. CASE mstats' = mstats
      BY <3>1, <3>3
    <3>4. CASE mstats' = [mstats EXCEPT !.free_buffers = 0]
      BY <3>1, <3>4 DEF Statistics
    <3> QED  BY <3>2, <3>3, <3>4
  <2>3. TypeOK'
    BY <1>11, <2>1, <2>2 DEF context_destroy, TypeOK, Calls, Statistics, history
  <2>4. CallInv'
    BY <2>1 DEF CallInv, Calls
  <2>5. MarkerInv'
    BY <1>11 DEF context_destroy, MarkerInv
  <2> QED  BY <2>3, <2>4, <2>5
<1>12. CASE UNCHANGED vars
  BY <1>12 DEF vars, TypeOK, CallInv, MarkerInv
<1> QED  BY <1>1, <1>2, <1>3, <1>4, <1>5, <1>6, <1>7, <1>8, <1>9, <1>10, <1>11, <1>12 DEF Next

\* Markers stay inside their mbuf and in order, lists hold mbufs, numbers are
\* numbers, in every state of every sequence of calls.
THEOREM TypeCorrect == Spec => []TypeOK
<1>1. TypeInv => TypeOK
  BY DEF TypeInv
<1> QED  BY <1>1, TypeInvInit, TypeInvNext, PTL DEF Spec

-----------------------------------------------------------------------------
(* Who holds an mbuf.                                                      *)

OpenConns == {c \in Conn : life[c] = "open"}

Queued == UNION {Range(queue[c]) : c \in Conn}

\* NoMbufShared, with what it rests on: only open connections hold mbufs, and
\* context_destroy, which goes by mstats.conns, is right about there being
\* open connections.
ShareInv ==
    /\ IsInjective(freeq)
    /\ \A c \in Conn : IsInjective(queue[c]) /\ Range(queue[c]) \cap Range(freeq) = {}
    /\ \A c, d \in Conn : c # d => Range(queue[c]) \cap Range(queue[d]) = {}
    /\ pc # "destroyed" => allocated = Range(freeq) \cup Queued
    /\ pc = "destroyed" => (OpenConns = {} => allocated = {})
    /\ \A c \in Conn : life[c] # "open" => queue[c] = <<>>
    /\ IsFiniteSet(OpenConns) /\ mstats.conns = Cardinality(OpenConns)

\* TAILQ_INSERT_TAIL puts an mbuf of nobody's into one list.
LEMMA QueuedGrows ==
    ASSUME TypeInv, ShareInv, cur \in Conn, NEW m \in Mbuf, \A c \in Conn : m \notin Range(queue[c]),
           queue' = [queue EXCEPT ![cur] = Append(@, m)]
    PROVE  Queued' = Queued \cup {m} /\ m \notin Queued
<1>1. queue \in [Conn -> Seq(Mbuf)]
  BY DEF TypeInv, TypeOK
<1>2. /\ queue'[cur] = Append(queue[cur], m) /\ \A c \in Conn \ {cur} : queue'[c] = queue[c]
  BY <1>1
<1>3. Range(queue'[cur]) = Range(queue[cur]) \cup {m}
  BY <1>1, <1>2, AppendFacts DEF ShareInv
<1>4. Queued' = UNION {Range(queue'[c]) : c \in Conn}
  BY DEF Queued
<1>5. ASSUME NEW x \in Queued \cup {m} PROVE x \in Queued'
  <2>1. CASE x = m
    BY <2>1, <1>3, <1>4
  <2>2. CASE x # m
    <3>1. PICK c \in Conn : x \in Range(queue[c])
      BY <2>2 DEF Queued
    <3>2. x \in Range(queue'[c])
      BY <3>1, <1>2, <1>3
    <3> QED  BY <3>2, <1>4
  <2> QED  BY <2>1, <2>2
<1>6. ASSUME NEW x \in Queued' PROVE x \in Queued \cup {m}
  <2>1. PICK c \in Conn : x \in Range(queue'[c])
    BY <1>4
  <2> QED  BY <2>1, <1>2, <1>3 DEF Queued
<1> QED  BY <1>5, <1>6 DEF Queued

\* TAILQ_REMOVE takes the first mbuf of one list, and it is in no other.
LEMMA QueuedPops ==
    ASSUME TypeInv, ShareInv, cur \in Conn, queue[cur] # <<>>,
           queue' = [queue EXCEPT ![cur] = Tail(@)]
    PROVE  Queued' = Queued \ {Head(queue[cur])} /\ Head(queue[cur]) \in Queued
<1> DEFINE m == Head(queue[cur])
<1>1. queue \in [Conn -> Seq(Mbuf)] /\ queue[cur] \in Seq(Mbuf)
  BY DEF TypeInv, TypeOK
<1>2. /\ queue'[cur] = Tail(queue[cur]) /\ \A c \in Conn \ {cur} : queue'[c] = queue[c]
  BY <1>1
<1>3. m \in Range(queue[cur]) /\ Range(Tail(queue[cur])) = Range(queue[cur]) \ {m}
  BY <1>1, TailFacts DEF ShareInv
<1>4. \A c \in Conn \ {cur} : m \notin Range(queue[c])
  BY <1>3 DEF ShareInv
<1> HIDE DEF m
<1>5. Queued' = UNION {Range(queue'[c]) : c \in Conn}
  BY DEF Queued
<1>6. ASSUME NEW x \in Queued \ {m} PROVE x \in Queued'
  <2>1. PICK c \in Conn : x \in Range(queue[c])
    BY DEF Queued
  <2>2. x \in Range(queue'[c])
    BY <2>1, <1>2, <1>3, <1>6
  <2> QED  BY <2>2, <1>5
<1>7. ASSUME NEW x \in Queued' PROVE x \in Queued \ {m}
  <2>1. PICK c \in Conn : x \in Range(queue'[c])
    BY <1>5
  <2>2. x \in Range(queue[c]) /\ x # m
    BY <2>1, <1>2, <1>3, <1>4
  <2> QED  BY <2>1, <2>2 DEF Queued
<1>8. m \in Queued
  BY <1>3 DEF Queued
<1> QED  BY <1>6, <1>7, <1>8 DEF m

\* The mbuf that mbuf_get returns is in no list any more.
LEMMA GetShares ==
    ASSUME TypeInv, ShareInv, mbuf_get, pc # "destroyed"
    PROVE  /\ NextMbuf \in Mbuf
           /\ \A c \in Conn : NextMbuf \notin Range(queue[c])
           /\ NextMbuf \notin Range(freeq') /\ IsInjective(freeq')
           /\ Range(freeq') \cup {NextMbuf} = Range(freeq) \cup {NextMbuf}
           /\ allocated' = allocated \cup {NextMbuf}
           /\ mstats'.conns = mstats.conns
<1>1. NextMbuf \in Mbuf /\ freeq \in Seq(Mbuf) /\ mstats \in Statistics
  BY NextMbufFacts DEF mbuf_get, TypeInv, TypeOK, Statistics
<1>2. allocated' = allocated \cup {NextMbuf} /\ mstats'.conns = mstats.conns
  BY <1>1 DEF mbuf_get, Statistics
<1>3. CASE freeq # <<>>
  <2>1. NextMbuf = Head(freeq) /\ freeq' = Tail(freeq)
    BY <1>3 DEF NextMbuf, mbuf_get
  <2>2. /\ NextMbuf \in Range(freeq) /\ Range(freeq') = Range(freeq) \ {NextMbuf}
        /\ IsInjective(freeq')
    BY <1>1, <1>3, <2>1, TailFacts DEF ShareInv
  <2>3. \A c \in Conn : NextMbuf \notin Range(queue[c])
    BY <2>2 DEF ShareInv
  <2> QED  BY <1>1, <1>2, <2>2, <2>3
<1>4. CASE freeq = <<>>
  <2>1. NextMbuf \notin allocated /\ freeq' = freeq
    BY <1>4, NextMbufFacts DEF mbuf_get, TypeInv
  <2>2. \A c \in Conn : Range(queue[c]) \subseteq allocated
    BY DEF ShareInv, Queued
  <2>3. Range(freeq) \subseteq allocated
    BY DEF ShareInv
  <2> QED  BY <1>1, <1>2, <2>1, <2>2, <2>3 DEF ShareInv
<1> QED  BY <1>3, <1>4

\* An mbuf that is given back is in the free list or freed.
LEMMA RecycleShares ==
    ASSUME TypeInv, ShareInv, NEW m \in Mbuf, m \notin Range(freeq), mbuf_recycle(m)
    PROVE  /\ IsInjective(freeq') /\ mstats'.conns = mstats.conns
           /\ \/ Range(freeq') = Range(freeq) /\ allocated' = allocated \ {m}
              \/ Range(freeq') = Range(freeq) \cup {m} /\ allocated' = allocated
<1>1. freeq \in Seq(Mbuf) /\ IsInjective(freeq) /\ mstats \in Statistics
  BY DEF TypeInv, TypeOK, ShareInv, Statistics
<1>2. Range(<<m>> \o freeq) = Range(freeq) \cup {m} /\ IsInjective(<<m>> \o freeq)
  BY <1>1, ConsFacts
<1>3. mstats'.conns = mstats.conns
  BY <1>1 DEF mbuf_recycle, Statistics
<1> QED  BY <1>1, <1>2, <1>3 DEF mbuf_recycle

\* The queue of one connection loses its first mbuf to the pool.
LEMMA PopShares ==
    ASSUME TypeInv, ShareInv, cur \in Conn, life[cur] = "open", pc # "destroyed", pc' # "destroyed",
           queue[cur] # <<>>, queue' = [queue EXCEPT ![cur] = Tail(@)],
           mbuf_recycle(Head(queue[cur])), life' = life
    PROVE  ShareInv'
<1> DEFINE m == Head(queue[cur])
<1>1. queue \in [Conn -> Seq(Mbuf)] /\ queue[cur] \in Seq(Mbuf) /\ freeq \in Seq(Mbuf)
  BY DEF TypeInv, TypeOK
<1>2. m \in Mbuf /\ m \in Range(queue[cur]) /\ Range(Tail(queue[cur])) = Range(queue[cur]) \ {m}
      /\ IsInjective(Tail(queue[cur]))
  BY <1>1, TailFacts DEF ShareInv
<1>3. /\ queue'[cur] = Tail(queue[cur]) /\ \A c \in Conn \ {cur} : queue'[c] = queue[c]
  BY <1>1
<1>4. m \notin Range(freeq) /\ \A c \in Conn \ {cur} : m \notin Range(queue[c])
  BY <1>2 DEF ShareInv
<1> HIDE DEF m
<1>5. /\ IsInjective(freeq') /\ mstats'.conns = mstats.conns
      /\ \/ Range(freeq') = Range(freeq) /\ allocated' = allocated \ {m}
         \/ Range(freeq') = Range(freeq) \cup {m} /\ allocated' = allocated
  BY <1>2, <1>4, RecycleShares DEF m
<1>6. /\ Range(queue'[cur]) = Range(queue[cur]) \ {m} /\ IsInjective(queue'[cur])
      /\ \A c \in Conn \ {cur} : Range(queue'[c]) = Range(queue[c]) /\ IsInjective(queue'[c])
  BY <1>2, <1>3 DEF ShareInv
<1>7. \A c \in Conn : m \notin Range(queue'[c]) /\ Range(queue'[c]) \subseteq Range(queue[c])
  BY <1>4, <1>6
<1>8. \A c \in Conn : Range(queue'[c]) \cap Range(freeq') = {}
  BY <1>5, <1>7 DEF ShareInv
<1>9. \A c, d \in Conn : c # d => Range(queue'[c]) \cap Range(queue'[d]) = {}
  BY <1>7 DEF ShareInv
<1>10. Queued' = Queued \ {m}
  BY QueuedPops DEF m
<1>11. allocated' = Range(freeq') \cup Queued'
  <2>1. allocated = Range(freeq) \cup Queued /\ m \in Queued
    BY <1>2 DEF ShareInv, Queued
  <2> QED  BY <2>1, <1>4, <1>5, <1>10
<1>12. \A c \in Conn : life'[c] # "open" => queue'[c] = <<>>
  BY <1>3 DEF ShareInv
<1>13. OpenConns' = OpenConns
  BY DEF OpenConns
<1> QED  BY <1>5, <1>6, <1>8, <1>9, <1>11, <1>12, <1>13 DEF ShareInv

\* A step that leaves the lists and the connections alone.
LEMMA ShareFrame ==
    ASSUME ShareInv, UNCHANGED <<queue, freeq, allocated, life>>, mstats'.conns = mstats.conns,
           pc # "destroyed", pc' # "destroyed"
    PROVE  ShareInv'
BY DEF ShareInv, Queued, OpenConns

\* A new context holds no mbuf.
LEMMA ShareInvInit == Init => ShareInv
<1> SUFFICES ASSUME Init PROVE ShareInv
  OBVIOUS
<1>1. IsInjective(<<>>) /\ Range(<<>>) = {}
  BY DEF IsInjective, Range
<1>2. OpenConns = {}
  BY DEF Init, OpenConns
<1>3. IsFiniteSet({}) /\ Cardinality({}) = 0
  BY FS_EmptySet
<1>4. Queued = {}
  BY <1>1 DEF Init, Queued
<1> QED  BY <1>1, <1>2, <1>3, <1>4 DEF Init, ShareInv

\* Every operation moves an mbuf from one list to one other.
LEMMA ShareInvNext == TypeInv /\ ShareInv /\ [Next]_vars => ShareInv'
<1> SUFFICES ASSUME TypeInv, ShareInv, [Next]_vars PROVE ShareInv'
  OBVIOUS
<1>0. mstats \in Statistics /\ queue \in [Conn -> Seq(Mbuf)] /\ life \in [Conn -> {"unborn", "open", "cached"}]
  BY DEF TypeInv, TypeOK, Statistics
<1>1. ASSUME NEW c \in Conn, context_connection_new(c) PROVE ShareInv'
  <2>1. CASE \E d \in Conn : life[d] = "cached"
    BY <1>1, <2>1, ShareFrame DEF context_connection_new, pool
  <2>2. CASE ~ \E d \in Conn : life[d] = "cached"
    <3>1. /\ life[c] = "unborn" /\ life' = [life EXCEPT ![c] = "open"]
          /\ mstats' = [mstats EXCEPT !.conns = @ + 1]
          /\ UNCHANGED <<pc, queue, freeq, allocated>> /\ pc = "idle"
      BY <1>1, <2>2 DEF context_connection_new, pool
    <3>2. OpenConns' = OpenConns \cup {c} /\ c \notin OpenConns
      BY <1>0, <3>1 DEF OpenConns
    <3>3. IsFiniteSet(OpenConns') /\ Cardinality(OpenConns') = Cardinality(OpenConns) + 1
      BY <3>2, FS_AddElement DEF ShareInv
    <3>4. mstats'.conns = mstats.conns + 1
      BY <1>0, <3>1 DEF Statistics
    <3>5. \A d \in Conn : life'[d] # "open" => queue'[d] = <<>>
      BY <1>0, <3>1 DEF ShareInv
    <3> QED  BY <3>1, <3>3, <3>4, <3>5 DEF ShareInv, Queued
  <2> QED  BY <2>1, <2>2
<1>2. ASSUME NEW c \in Conn, NEW n \in Lens, con_buf_write(c, n) PROVE ShareInv'
  <2>1. mstats'.conns = mstats.conns
    BY <1>0, <1>2 DEF con_buf_write, con_info_new, Statistics
  <2> QED  BY <1>2, <2>1, ShareFrame DEF con_buf_write, pool
<1>3. ASSUME AppendMbuf PROVE ShareInv'
  <2>1. /\ mbuf_get /\ pc = "write" /\ cur \in Conn /\ life[cur] = "open"
        /\ queue' = [queue EXCEPT ![cur] = Append(@, NextMbuf)]
        /\ UNCHANGED <<pc, life>>
    BY <1>3 DEF AppendMbuf, TypeInv, TypeOK, CallInv, Calls, call
  <2> DEFINE m == NextMbuf
  <2> HIDE DEF m
  <2>2. /\ m \in Mbuf /\ \A c \in Conn : m \notin Range(queue[c])
        /\ m \notin Range(freeq') /\ IsInjective(freeq')
        /\ Range(freeq') \cup {m} = Range(freeq) \cup {m}
        /\ allocated' = allocated \cup {m}
        /\ mstats'.conns = mstats.conns
    BY <2>1, GetShares DEF m
  <2>3. /\ queue'[cur] = Append(queue[cur], m) /\ \A c \in Conn \ {cur} : queue'[c] = queue[c]
    BY <1>0, <2>1 DEF m
  <2>4. Range(queue'[cur]) = Range(queue[cur]) \cup {m} /\ IsInjective(queue'[cur])
    BY <1>0, <2>1, <2>2, <2>3, AppendFacts DEF ShareInv
  <2>5. \A c \in Conn : IsInjective(queue'[c]) /\ Range(queue'[c]) \cap Range(freeq') = {}
    BY <2>2, <2>3, <2>4 DEF ShareInv
  <2>6. \A c, d \in Conn : c # d => Range(queue'[c]) \cap Range(queue'[d]) = {}
    <3> SUFFICES ASSUME NEW c \in Conn, NEW d \in Conn, c # d
                 PROVE  Range(queue'[c]) \cap Range(queue'[d]) = {}
      OBVIOUS
    <3>1. Range(queue[c]) \cap Range(queue[d]) = {}
      BY DEF ShareInv
    <3>2. \A e \in Conn \ {cur} : Range(queue'[e]) = Range(queue[e])
      BY <2>3
    <3>3. m \notin Range(queue[c]) /\ m \notin Range(queue[d])
      BY <2>2
    <3>4. CASE c = cur
      BY <3>1, <3>2, <3>3, <3>4, <2>4
    <3>5. CASE d = cur
      BY <3>1, <3>2, <3>3, <3>5, <2>4
    <3>6. CASE c # cur /\ d # cur
      BY <3>1, <3>2, <3>6
    <3> QED  BY <3>4, <3>5, <3>6
  <2>7. Queued' = Queued \cup {m}
    BY <2>1, <2>2, QueuedGrows DEF m
  <2>8. allocated' = Range(freeq') \cup Queued'
    BY <2>1, <2>2, <2>7 DEF ShareInv
  <2>9. OpenConns' = OpenConns /\ \A c \in Conn : life'[c] # "open" => queue'[c] = <<>>
    BY <2>1, <2>3 DEF ShareInv, OpenConns
  <2> QED  BY <2>1, <2>2, <2>5, <2>6, <2>8, <2>9 DEF ShareInv
<1>4. ASSUME FillMbuf PROVE ShareInv'
  <2>1. pc = "write" /\ pc' # "destroyed" /\ UNCHANGED <<queue, freeq, allocated, life, mstats>>
    BY <1>4 DEF FillMbuf, Return
  <2> QED  BY <2>1, ShareFrame
<1>5. ASSUME NEW c \in Conn, NEW n \in Lens, con_buf_read(c, n) PROVE ShareInv'
  BY <1>5, ShareFrame DEF con_buf_read, pool
<1>6. ASSUME ReadMbuf PROVE ShareInv'
  <2>1. cur \in Conn /\ queue[cur] # <<>> /\ life[cur] = "open" /\ pc = "read"
    BY <1>6 DEF ReadMbuf, MayRead, mhdr_readable, TypeInv, TypeOK, CallInv, Calls
  <2>2. \/ /\ UNCHANGED <<pc, life>> /\ queue' = [queue EXCEPT ![cur] = Tail(@)]
           /\ mbuf_recycle(Head(queue[cur]))
        \/ Return /\ UNCHANGED <<queue, freeq, allocated, mstats, life>>
    BY <1>6 DEF ReadMbuf
  <2> QED  BY <2>1, <2>2, PopShares, ShareFrame DEF Return
<1>7. ASSUME ReadReturns PROVE ShareInv'
  BY <1>7, ShareFrame DEF ReadReturns, Return, pool
<1>8. ASSUME NEW c \in Conn, context_conn_recyle(c) PROVE ShareInv'
  <2>1. mstats'.conns = mstats.conns
    BY <1>0, <1>8 DEF context_conn_recyle, Statistics
  <2> QED  BY <1>8, <2>1, ShareFrame DEF context_conn_recyle, pool
<1>9. ASSUME FreeMbuf PROVE ShareInv'
  <2>1. /\ cur \in Conn /\ life[cur] = "open" /\ pc = "recycle" /\ UNCHANGED <<pc, life>>
    BY <1>9 DEF FreeMbuf, TypeInv, TypeOK, CallInv, Calls, call
  <2> QED  BY <1>9, <2>1, PopShares DEF FreeMbuf
<1>10. ASSUME CacheConnection PROVE ShareInv'
  <2>1. /\ cur \in Conn /\ life[cur] = "open" /\ pc = "recycle" /\ pc' = "idle"
        /\ queue[cur] = <<>> /\ life' = [life EXCEPT ![cur] = "cached"]
        /\ UNCHANGED <<queue, freeq, allocated>>
    BY <1>10 DEF CacheConnection, TypeInv, TypeOK, CallInv, Calls, pool, Return
  <2>2. OpenConns' = OpenConns \ {cur} /\ cur \in OpenConns
    BY <1>0, <2>1 DEF OpenConns
  <2>3. IsFiniteSet(OpenConns') /\ Cardinality(OpenConns') = Cardinality(OpenConns) - 1
    BY <2>2, FS_RemoveElement DEF ShareInv
  <2>4. mstats'.conns = mstats.conns - 1
    BY <1>0, <1>10 DEF CacheConnection, Statistics
  <2>5. \A c \in Conn : life'[c] # "open" => queue'[c] = <<>>
    BY <1>0, <2>1 DEF ShareInv
  <2> QED  BY <2>1, <2>3, <2>4, <2>5 DEF ShareInv, Queued
<1>11. ASSUME context_destroy PROVE ShareInv'
  <2>1. pc = "idle" /\ pc' = "destroyed" /\ UNCHANGED <<life, queue>>
    BY <1>11 DEF context_destroy
  <2>2. OpenConns' = OpenConns
    BY <2>1 DEF OpenConns
  <2>3. CASE mstats.conns # 0
    <3>1. UNCHANGED <<freeq, allocated, mstats>>
      BY <1>11, <2>3 DEF context_destroy
    <3>2. OpenConns # {}
      BY <2>3, FS_EmptySet DEF ShareInv
    <3> QED  BY <2>1, <2>2, <3>1, <3>2 DEF ShareInv
  <2>4. CASE mstats.conns = 0
    <3>1. /\ freeq' = <<>> /\ allocated' = allocated \ Range(freeq)
          /\ mstats' = [mstats EXCEPT !.free_buffers = 0]
      BY <1>11, <2>4 DEF context_destroy, mbuf_destroy
    <3>2. OpenConns = {}
      BY <2>4, FS_EmptySet DEF ShareInv
    <3>3. IsInjective(<<>>) /\ Range(<<>>) = {}
      BY DEF IsInjective, Range
    <3>4. Queued = {}
      BY <3>2, <3>3 DEF ShareInv, Queued, OpenConns
    <3>5. allocated' = {}
      BY <2>1, <3>1, <3>4 DEF ShareInv
    <3>6. mstats'.conns = mstats.conns
      BY <1>0, <3>1 DEF Statistics
    <3> QED  BY <2>1, <2>2, <3>1, <3>3, <3>5, <3>6 DEF ShareInv
  <2> QED  BY <2>3, <2>4
<1>12. CASE UNCHANGED vars
  BY <1>12 DEF vars, ShareInv, Queued, OpenConns
<1> QED  BY <1>1, <1>2, <1>3, <1>4, <1>5, <1>6, <1>7, <1>8, <1>9, <1>10, <1>11, <1>12 DEF Next

\* Whatever connections do and whatever is recycled, an mbuf is in one place
\* of one list and none is lost.
THEOREM MbufsNotShared == Spec => []NoMbufShared
<1>1. TypeInv /\ ShareInv => NoMbufShared
  <2> SUFFICES ASSUME ShareInv PROVE NoMbufShared
    OBVIOUS
  <2>1. (\A c \in Conn : life[c] # "open") <=> OpenConns = {}
    BY DEF OpenConns
  <2> QED  BY <2>1 DEF ShareInv, NoMbufShared, Queued
<1> QED  BY <1>1, TypeInvInit, TypeInvNext, ShareInvInit, ShareInvNext, PTL DEF Spec

-----------------------------------------------------------------------------
(* What print_stats reports.                                               *)

CachedConns == {c \in Conn : life[c] = "cached"}
Informed == {c \in Conn : hasInfo[c]}

\* Every counter is kept apart from the list it counts.  While a connection is
\* recycled its conn_info is counted off already and still attached.
PoolCounts ==
    /\ IsFiniteSet(Queued) /\ mstats.buffers = Cardinality(Queued)
    /\ mstats.free_buffers = Len(freeq)
    /\ mstats.total_buffers = mstats.buffers + mstats.free_buffers

ConnCounts ==
    /\ IsFiniteSet(CachedConns) /\ mstats.free_conns = Cardinality(CachedConns)
    /\ IsFiniteSet(Informed) /\ mstats.free_conn_info = freeInfos
    /\ mstats.conn_info = Cardinality(Informed) - (IF pc = "recycle" /\ hasInfo[cur] THEN 1 ELSE 0)

StatsInv == pc # "destroyed" => PoolCounts /\ ConnCounts

\* A list without repetition has as many elements as its length.
LEMMA RangeCount ==
    ASSUME NEW S, NEW q \in Seq(S), IsInjective(q)
    PROVE  IsFiniteSet(Range(q)) /\ Cardinality(Range(q)) = Len(q)
<1>1. Len(q) \in Nat /\ DOMAIN q = 1 .. Len(q) /\ Range(q) = {q[i] : i \in 1 .. Len(q)}
      /\ q \in [1 .. Len(q) -> S]
  BY RangeByPosition, LenProperties
<1>2. q \in Surjection(1 .. Len(q), Range(q)) /\ q \in Injection(1 .. Len(q), Range(q))
  <2>1. q \in [1 .. Len(q) -> Range(q)]
    BY <1>1
  <2> QED  BY <1>1, <2>1 DEF Surjection, Injection
<1>3. IsFiniteSet(1 .. Len(q)) /\ Cardinality(1 .. Len(q)) = Len(q)
  BY <1>1, FS_Interval
<1> QED  BY <1>2, <1>3, FS_Surjection

\* mbuf_get counts one more mbuf in use, and one less free or one more in all.
LEMMA GetCounts ==
    ASSUME TypeInv, ShareInv, PoolCounts, mbuf_get, pc # "destroyed", cur \in Conn,
           queue' = [queue EXCEPT ![cur] = Append(@, NextMbuf)]
    PROVE  /\ PoolCounts'
           /\ mstats'.free_conns = mstats.free_conns
           /\ mstats'.conn_info = mstats.conn_info
           /\ mstats'.free_conn_info = mstats.free_conn_info
<1>1. mstats \in Statistics /\ freeq \in Seq(Mbuf) /\ Len(freeq) \in Nat
  BY LenProperties DEF TypeInv, TypeOK, Statistics
<1>2. /\ mstats'.buffers = mstats.buffers + 1
      /\ freeq # <<>> => /\ mstats'.free_buffers = mstats.free_buffers - 1
                         /\ mstats'.total_buffers = mstats.total_buffers
      /\ freeq = <<>> => /\ mstats'.free_buffers = mstats.free_buffers
                         /\ mstats'.total_buffers = mstats.total_buffers + 1
      /\ mstats'.free_conns = mstats.free_conns
      /\ mstats'.conn_info = mstats.conn_info
      /\ mstats'.free_conn_info = mstats.free_conn_info
  BY <1>1 DEF mbuf_get, Statistics
<1>3. Queued' = Queued \cup {NextMbuf} /\ NextMbuf \notin Queued
  BY GetShares, QueuedGrows
<1>4. IsFiniteSet(Queued') /\ Cardinality(Queued') = Cardinality(Queued) + 1
  BY <1>3, FS_AddElement DEF PoolCounts
<1>5. Len(freeq') = IF freeq # <<>> THEN Len(freeq) - 1 ELSE Len(freeq)
  BY <1>1, HeadTailProperties DEF mbuf_get
<1>6. mstats'.free_buffers = Len(freeq')
  BY <1>1, <1>2, <1>5 DEF PoolCounts
<1>7. mstats'.total_buffers = mstats'.buffers + mstats'.free_buffers
  <2>1. mstats.buffers \in Int /\ mstats.free_buffers \in Int /\ mstats.total_buffers \in Int
    BY <1>1 DEF Statistics
  <2>2. mstats.total_buffers = mstats.buffers + mstats.free_buffers
    BY DEF PoolCounts
  <2> QED  BY <1>2, <2>1, <2>2
<1>8. mstats'.buffers = Cardinality(Queued')
  BY <1>2, <1>4 DEF PoolCounts
<1>9. PoolCounts'
  BY <1>4, <1>6, <1>7, <1>8 DEF PoolCounts
<1> QED  BY <1>2, <1>9

\* mbuf_recycle counts one mbuf less in use, and one more free or one less in
\* all.
LEMMA PopCounts ==
    ASSUME TypeInv, ShareInv, PoolCounts, cur \in Conn, queue[cur] # <<>>,
           queue' = [queue EXCEPT ![cur] = Tail(@)], mbuf_recycle(Head(queue[cur]))
    PROVE  /\ PoolCounts'
           /\ mstats'.free_conns = mstats.free_conns
           /\ mstats'.conn_info = mstats.conn_info
           /\ mstats'.free_conn_info = mstats.free_conn_info
<1> DEFINE m == Head(queue[cur])
<1>1. mstats \in Statistics /\ freeq \in Seq(Mbuf) /\ Len(freeq) \in Nat /\ m \in Mbuf
  BY LenProperties, TailFacts DEF TypeInv, TypeOK, Statistics, ShareInv
<1>2. Queued' = Queued \ {m} /\ m \in Queued
  BY QueuedPops
<1>3. mbuf_recycle(m)
  OBVIOUS
<1> HIDE DEF m
<1>4. /\ mstats'.buffers = mstats.buffers - 1
      /\ mstats'.free_conns = mstats.free_conns
      /\ mstats'.conn_info = mstats.conn_info
      /\ mstats'.free_conn_info = mstats.free_conn_info
      /\ \/ /\ mstats'.free_buffers = mstats.free_buffers /\ freeq' = freeq
            /\ mstats'.total_buffers = mstats.total_buffers - 1
         \/ /\ mstats'.free_buffers = mstats.free_buffers + 1 /\ freeq' = <<m>> \o freeq
            /\ mstats'.total_buffers = mstats.total_buffers
  BY <1>1, <1>3 DEF mbuf_recycle, Statistics
<1>5. IsFiniteSet(Queued') /\ Cardinality(Queued') = Cardinality(Queued) - 1
  BY <1>2, FS_RemoveElement DEF PoolCounts
<1>6. Len(<<m>> \o freeq) = Len(freeq) + 1
  BY <1>1, ConcatProperties
<1>7. mstats'.free_buffers = Len(freeq')
  BY <1>1, <1>4, <1>6 DEF PoolCounts
<1>8. mstats'.total_buffers = mstats'.buffers + mstats'.free_buffers
  BY <1>1, <1>4 DEF PoolCounts, Statistics
<1>9. mstats'.buffers = Cardinality(Queued')
  BY <1>4, <1>5 DEF PoolCounts
<1>10. PoolCounts'
  BY <1>5, <1>7, <1>8, <1>9 DEF PoolCounts
<1> QED  BY <1>4, <1>10

\* Steps that leave the mbufs alone.
LEMMA PoolFrame ==
    ASSUME PoolCounts, UNCHANGED <<queue, freeq>>,
           mstats'.buffers = mstats.buffers, mstats'.free_buffers = mstats.free_buffers,
           mstats'.total_buffers = mstats.total_buffers
    PROVE  PoolCounts'
<1>1. Queued' = Queued
  BY DEF Queued
<1> QED  BY <1>1 DEF PoolCounts

\* Steps that leave the connections and their infos alone.
LEMMA ConnFrame ==
    ASSUME ConnCounts, UNCHANGED <<life, hasInfo, freeInfos>>,
           (pc # "recycle" /\ pc' # "recycle") \/ UNCHANGED <<pc, cur>>,
           mstats'.free_conns = mstats.free_conns, mstats'.conn_info = mstats.conn_info,
           mstats'.free_conn_info = mstats.free_conn_info
    PROVE  ConnCounts'
<1>1. CachedConns' = CachedConns /\ Informed' = Informed
  BY DEF CachedConns, Informed
<1> QED  BY <1>1 DEF ConnCounts

\* A new context counts nothing.
LEMMA StatsInit == Init => StatsInv
<1> SUFFICES ASSUME Init PROVE PoolCounts /\ ConnCounts
  BY DEF StatsInv
<1>1. Queued = {} /\ CachedConns = {} /\ Informed = {}
  <2>1. Range(<<>>) = {}
    BY DEF Range
  <2> QED  BY <2>1 DEF Init, Queued, CachedConns, Informed
<1>2. IsFiniteSet({}) /\ Cardinality({}) = 0 /\ Len(<<>>) = 0
  BY FS_EmptySet, EmptySeq
<1> QED  BY <1>1, <1>2 DEF Init, PoolCounts, ConnCounts

\* Every operation moves the counters with the lists.
LEMMA StatsNext == TypeInv /\ ShareInv /\ StatsInv /\ [Next]_vars => StatsInv'
<1> SUFFICES ASSUME TypeInv, ShareInv, StatsInv, [Next]_vars, pc' # "destroyed"
             PROVE  PoolCounts' /\ ConnCounts'
  BY DEF StatsInv
<1>0. /\ mstats \in Statistics /\ hasInfo \in [Conn -> BOOLEAN] /\ freeInfos \in Nat
      /\ life \in [Conn -> {"unborn", "open", "cached"}]
      /\ pc \in Calls => cur \in Conn /\ life[cur] = "open"
  BY DEF TypeInv, TypeOK, Statistics, CallInv
<1>1. ASSUME NEW c \in Conn, context_connection_new(c) PROVE PoolCounts' /\ ConnCounts'
  <2>1. PoolCounts /\ ConnCounts
    BY <1>1 DEF StatsInv, context_connection_new
  <2>2. /\ UNCHANGED <<queue, freeq, hasInfo, freeInfos>> /\ pc # "recycle" /\ pc' # "recycle"
        /\ mstats' = mstats \/ mstats' = [mstats EXCEPT !.conns = @ + 1]
    BY <1>1 DEF context_connection_new, pool
  <2>3. /\ mstats'.buffers = mstats.buffers /\ mstats'.free_buffers = mstats.free_buffers
        /\ mstats'.total_buffers = mstats.total_buffers
        /\ mstats'.free_conns = mstats.free_conns /\ mstats'.conn_info = mstats.conn_info
        /\ mstats'.free_conn_info = mstats.free_conn_info
    BY <1>0, <2>2 DEF Statistics
  <2>4. PoolCounts'
    BY <2>1, <2>2, <2>3, PoolFrame
  <2>5. CachedConns' = CachedConns /\ Informed' = Informed
    BY <1>0, <1>1, <2>2 DEF context_connection_new, CachedConns, Informed
  <2> QED  BY <2>1, <2>2, <2>3, <2>4, <2>5 DEF ConnCounts
<1>2. ASSUME NEW c \in Conn, NEW n \in Lens, con_buf_write(c, n) PROVE PoolCounts' /\ ConnCounts'
  <2>1. /\ PoolCounts /\ ConnCounts
        /\ UNCHANGED <<queue, freeq, life>> /\ pc # "recycle" /\ pc' # "recycle"
    BY <1>2 DEF StatsInv, con_buf_write, pool
  <2>2. CASE hasInfo[c]
    BY <1>2, <2>1, <2>2, PoolFrame, ConnFrame DEF con_buf_write
  <2>3. CASE ~ hasInfo[c]
    <3>1. /\ hasInfo' = [hasInfo EXCEPT ![c] = TRUE]
          /\ freeInfos' = IF freeInfos > 0 THEN freeInfos - 1 ELSE 0
          /\ mstats' = [mstats EXCEPT !.conn_info = @ + 1,
                                      !.free_conn_info = IF freeInfos > 0 THEN @ - 1 ELSE @]
      BY <1>2, <2>3 DEF con_buf_write, con_info_new
    <3>2. /\ mstats'.buffers = mstats.buffers /\ mstats'.free_buffers = mstats.free_buffers
          /\ mstats'.total_buffers = mstats.total_buffers
          /\ mstats'.free_conns = mstats.free_conns /\ mstats'.conn_info = mstats.conn_info + 1
          /\ mstats'.free_conn_info =
                IF freeInfos > 0 THEN mstats.free_conn_info - 1 ELSE mstats.free_conn_info
      BY <1>0, <3>1 DEF Statistics
    <3>3. PoolCounts'
      BY <2>1, <3>2, PoolFrame
    <3>4. Informed' = Informed \cup {c} /\ c \notin Informed
      BY <1>0, <2>3, <3>1 DEF Informed
    <3>5. IsFiniteSet(Informed') /\ Cardinality(Informed') = Cardinality(Informed) + 1
          /\ Cardinality(Informed) \in Nat
      BY <2>1, <3>4, FS_AddElement, FS_CardinalityType DEF ConnCounts
    <3>6. CachedConns' = CachedConns
      BY <2>1 DEF CachedConns
    <3>7. mstats'.free_conn_info = freeInfos'
      BY <1>0, <2>1, <3>1, <3>2 DEF ConnCounts
    <3>8. mstats'.conn_info = Cardinality(Informed')
      BY <2>1, <3>2, <3>5 DEF ConnCounts
    <3>9. ConnCounts'
      BY <2>1, <3>2, <3>5, <3>6, <3>7, <3>8 DEF ConnCounts
    <3> QED  BY <3>3, <3>9
  <2> QED  BY <2>2, <2>3
<1>3. ASSUME AppendMbuf PROVE PoolCounts' /\ ConnCounts'
  <2>1. /\ PoolCounts /\ ConnCounts /\ mbuf_get /\ pc = "write" /\ cur \in Conn
        /\ queue' = [queue EXCEPT ![cur] = Append(@, NextMbuf)]
        /\ UNCHANGED <<pc, cur, life, hasInfo, freeInfos>>
    BY <1>0, <1>3 DEF AppendMbuf, StatsInv, Calls, call
  <2> QED  BY <2>1, GetCounts, ConnFrame
<1>4. ASSUME FillMbuf PROVE PoolCounts' /\ ConnCounts'
  <2>1. /\ PoolCounts /\ ConnCounts /\ pc # "recycle" /\ pc' # "recycle"
        /\ UNCHANGED <<queue, freeq, life, hasInfo, freeInfos, mstats>>
    BY <1>4 DEF FillMbuf, Return, StatsInv
  <2> QED  BY <2>1, PoolFrame, ConnFrame
<1>5. ASSUME NEW c \in Conn, NEW n \in Lens, con_buf_read(c, n) PROVE PoolCounts' /\ ConnCounts'
  <2>1. /\ PoolCounts /\ ConnCounts /\ pc # "recycle" /\ pc' # "recycle"
        /\ UNCHANGED <<queue, freeq, life, hasInfo, freeInfos, mstats>>
    BY <1>5 DEF con_buf_read, StatsInv, pool
  <2> QED  BY <2>1, PoolFrame, ConnFrame
<1>6. ASSUME ReadMbuf PROVE PoolCounts' /\ ConnCounts'
  <2>1. /\ PoolCounts /\ ConnCounts /\ cur \in Conn /\ queue[cur] # <<>> /\ pc = "read"
        /\ UNCHANGED <<life, hasInfo, freeInfos>>
    BY <1>0, <1>6 DEF ReadMbuf, MayRead, mhdr_readable, StatsInv, Calls
  <2>2. \/ /\ pc' = pc /\ queue' = [queue EXCEPT ![cur] = Tail(@)]
           /\ mbuf_recycle(Head(queue[cur]))
        \/ pc' = "idle" /\ UNCHANGED <<queue, freeq, mstats>>
    BY <1>6 DEF ReadMbuf, Return
  <2> QED  BY <2>1, <2>2, PopCounts, PoolFrame, ConnFrame
<1>7. ASSUME ReadReturns PROVE PoolCounts' /\ ConnCounts'
  <2>1. /\ PoolCounts /\ ConnCounts /\ pc # "recycle" /\ pc' # "recycle"
        /\ UNCHANGED <<queue, freeq, life, hasInfo, freeInfos, mstats>>
    BY <1>7 DEF ReadReturns, Return, StatsInv, pool
  <2> QED  BY <2>1, PoolFrame, ConnFrame
<1>8. ASSUME NEW c \in Conn, context_conn_recyle(c) PROVE PoolCounts' /\ ConnCounts'
  <2>1. /\ PoolCounts /\ ConnCounts /\ pc = "idle" /\ pc' = "recycle" /\ cur' = c
        /\ mstats' = IF hasInfo[c] THEN [mstats EXCEPT !.conn_info = @ - 1] ELSE mstats
        /\ UNCHANGED <<queue, freeq, life, hasInfo, freeInfos>>
    BY <1>8 DEF context_conn_recyle, StatsInv, pool
  <2>2. /\ mstats'.buffers = mstats.buffers /\ mstats'.free_buffers = mstats.free_buffers
        /\ mstats'.total_buffers = mstats.total_buffers
        /\ mstats'.free_conns = mstats.free_conns
        /\ mstats'.free_conn_info = mstats.free_conn_info
        /\ mstats'.conn_info = IF hasInfo[c] THEN mstats.conn_info - 1 ELSE mstats.conn_info
    BY <1>0, <2>1 DEF Statistics
  <2>3. CachedConns' = CachedConns /\ Informed' = Informed
    BY <2>1 DEF CachedConns, Informed
  <2>4. Cardinality(Informed) \in Nat
    BY <2>1, FS_CardinalityType DEF ConnCounts
  <2>5. mstats'.conn_info = Cardinality(Informed') - (IF pc' = "recycle" /\ hasInfo'[cur'] THEN 1 ELSE 0)
    BY <2>1, <2>2, <2>3, <2>4 DEF ConnCounts
  <2>6. PoolCounts'
    BY <2>1, <2>2, PoolFrame
  <2> QED  BY <2>1, <2>2, <2>3, <2>5, <2>6 DEF ConnCounts
<1>9. ASSUME FreeMbuf PROVE PoolCounts' /\ ConnCounts'
  <2>1. /\ PoolCounts /\ ConnCounts /\ cur \in Conn /\ queue[cur] # <<>>
        /\ queue' = [queue EXCEPT ![cur] = Tail(@)] /\ mbuf_recycle(Head(queue[cur]))
        /\ UNCHANGED <<pc, cur, life, hasInfo, freeInfos>>
    BY <1>0, <1>9 DEF FreeMbuf, StatsInv, Calls, call
  <2> QED  BY <2>1, PopCounts, ConnFrame
<1>10. ASSUME CacheConnection PROVE PoolCounts' /\ ConnCounts'
  <2>1. /\ PoolCounts /\ ConnCounts /\ cur \in Conn /\ life[cur] = "open" /\ pc = "recycle"
        /\ pc' = "idle" /\ UNCHANGED <<queue, freeq>>
        /\ life' = [life EXCEPT ![cur] = "cached"] /\ hasInfo' = [hasInfo EXCEPT ![cur] = FALSE]
        /\ freeInfos' = IF hasInfo[cur] THEN freeInfos + 1 ELSE freeInfos
        /\ mstats' = [mstats EXCEPT !.free_conn_info = IF hasInfo[cur] THEN @ + 1 ELSE @,
                                    !.conns = @ - 1, !.free_conns = @ + 1]
    BY <1>0, <1>10 DEF CacheConnection, Return, StatsInv, Calls, pool
  <2>2. /\ mstats'.buffers = mstats.buffers /\ mstats'.free_buffers = mstats.free_buffers
        /\ mstats'.total_buffers = mstats.total_buffers
        /\ mstats'.free_conns = mstats.free_conns + 1
        /\ mstats'.conn_info = mstats.conn_info
        /\ mstats'.free_conn_info =
              IF hasInfo[cur] THEN mstats.free_conn_info + 1 ELSE mstats.free_conn_info
    BY <1>0, <2>1 DEF Statistics
  <2>3. PoolCounts'
    BY <2>1, <2>2, PoolFrame
  <2>4. CachedConns' = CachedConns \cup {cur} /\ cur \notin CachedConns
    BY <1>0, <2>1 DEF CachedConns
  <2>5. IsFiniteSet(CachedConns') /\ Cardinality(CachedConns') = Cardinality(CachedConns) + 1
    BY <2>1, <2>4, FS_AddElement DEF ConnCounts
  <2>6. Informed' = Informed \ {cur} /\ (cur \in Informed <=> hasInfo[cur])
    BY <1>0, <2>1 DEF Informed
  <2>7. /\ IsFiniteSet(Informed') /\ Cardinality(Informed) \in Nat
        /\ Cardinality(Informed') = Cardinality(Informed) - (IF hasInfo[cur] THEN 1 ELSE 0)
    BY <2>1, <2>6, FS_RemoveElement, FS_CardinalityType DEF ConnCounts
  <2>8. mstats'.conn_info = Cardinality(Informed') - (IF pc' = "recycle" /\ hasInfo'[cur'] THEN 1 ELSE 0)
    BY <2>1, <2>2, <2>7 DEF ConnCounts
  <2>9. mstats'.free_conns = Cardinality(CachedConns') /\ mstats'.free_conn_info = freeInfos'
    BY <2>1, <2>2, <2>5 DEF ConnCounts
  <2> QED  BY <2>3, <2>5, <2>7, <2>8, <2>9 DEF ConnCounts
<1>11. CASE UNCHANGED vars
  BY <1>11, PoolFrame, ConnFrame DEF vars, StatsInv
<1>12. ~ context_destroy
  BY DEF context_destroy
<1> QED  BY <1>1, <1>2, <1>3, <1>4, <1>5, <1>6, <1>7, <1>8, <1>9, <1>10, <1>11, <1>12 DEF Next

\* The counters, which the code changes one by one beside the lists, agree with
\* the lists after any sequence of calls, for any recycle limit: the pool's
\* size is the number of mbufs malloc gave out, and none is counted twice.
THEOREM StatsExactCorrect == Spec => []StatsExact
<1>1. TypeInv /\ ShareInv /\ StatsInv => StatsExact
  <2> SUFFICES ASSUME TypeInv, ShareInv, PoolCounts, ConnCounts, pc \notin {"recycle", "destroyed"}
               PROVE  mstats = [total_buffers  |-> Cardinality(allocated),
                                buffers        |-> Cardinality(Queued),
                                free_buffers   |-> Len(freeq),
                                conns          |-> Cardinality(OpenConns),
                                free_conns     |-> Cardinality(CachedConns),
                                conn_info      |-> Cardinality(Informed),
                                free_conn_info |-> freeInfos]
    BY DEF StatsExact, StatsInv, Queued, OpenConns, CachedConns, Informed
  <2>1. mstats \in Statistics /\ freeq \in Seq(Mbuf)
    BY DEF TypeInv, TypeOK, Statistics
  <2>2. IsFiniteSet(Range(freeq)) /\ Cardinality(Range(freeq)) = Len(freeq)
    BY <2>1, RangeCount DEF ShareInv
  <2>3. allocated = Range(freeq) \cup Queued /\ Range(freeq) \cap Queued = {}
    BY DEF ShareInv, Queued
  <2>4. Cardinality(allocated) = Len(freeq) + Cardinality(Queued)
    <3>1. /\ Cardinality(allocated) = Len(freeq) + Cardinality(Queued) - Cardinality({})
          /\ Cardinality(Queued) \in Nat /\ Len(freeq) \in Nat
      BY <2>1, <2>2, <2>3, FS_Union, FS_CardinalityType, LenProperties DEF PoolCounts
    <3> QED  BY <3>1, FS_EmptySet
  <2>5. mstats.total_buffers = Cardinality(allocated)
    <3>1. Cardinality(Queued) \in Nat /\ Len(freeq) \in Nat
      BY <2>1, FS_CardinalityType, LenProperties DEF PoolCounts
    <3> QED  BY <2>4, <3>1 DEF PoolCounts
  <2>6. mstats.conn_info = Cardinality(Informed)
    BY FS_CardinalityType DEF ConnCounts
  <2> QED  BY <2>1, <2>5, <2>6 DEF PoolCounts, ConnCounts, ShareInv, Statistics
<1> QED
  BY <1>1, TypeInvInit, TypeInvNext, ShareInvInit, ShareInvNext, StatsInit, StatsNext, PTL DEF Spec
=============================================================================
