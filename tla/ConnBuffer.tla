----------------------------- MODULE ConnBuffer -----------------------------
(***************************************************************************)
(* The connection buffers of base/corvus.c over the mbuf pool of           *)
(* base/mbuf.c: one context with its free lists and statistics, and the    *)
(* connections that take mbufs from it.                                    *)
(*                                                                         *)
(* One thread makes all the calls.  The loops of con_buf_write,            *)
(* con_buf_read and connection_buf_free are steps of their own, one per    *)
(* iteration; pc says which call is under way, and nothing else happens    *)
(* until it returns.  The n-th byte written to connection c is <<c, n>>.   *)
(***************************************************************************)
EXTENDS Integers, SequencesExt

CONSTANTS
    Conn,           \* connections
    NoConn,         \* none of them
    Mbuf,           \* addresses malloc may return
    Cap,            \* mbuf_offset: the bytes an mbuf holds
    RecycleLength,  \* RECYCLE_LENGTH
    Lens,           \* lengths passed to con_buf_write and con_buf_read
    MaxSent         \* bound: bytes written to a connection

ASSUME ConnBufferAssumption ==
    /\ NoConn \notin Conn
    /\ Cap \in Nat \ {0}
    /\ RecycleLength \in Nat
    /\ Lens \subseteq Nat
    /\ MaxSent \in Nat

VARIABLES
    pc,         \* the call under way
    cur,        \* its connection
    arg,        \* its argument len
    todo,       \* num_to_write or allow_read
    got,        \* con_buf_read: bytes read so far, then the result
    life,       \* of a connection: "unborn", "open" or "cached" (ctx->conns)
    hasInfo,    \* con->info # NULL
    size,       \* con->data_size
    queue,      \* con->info->data, the connection's mbufs
    mbuf,       \* content, read marker and write marker of every mbuf
    freeq,      \* ctx->free_mbufq
    freeInfos,  \* length of ctx->free_con_infoq
    allocated,  \* the mbufs malloc has given out
    mstats,     \* ctx->mstats
    sent,       \* history: number of bytes written to a connection
    out         \* history: the bytes read from a connection

call == <<pc, cur, arg, todo, got>>
pool == <<mbuf, freeq, allocated>>
history == <<sent, out>>
vars == <<pc, cur, arg, todo, got, life, hasInfo, size, queue, mbuf, freeq,
          freeInfos, allocated, mstats, sent, out>>

NoByte == <<NoConn, 0>>
Byte == (Conn \X Nat) \cup {NoByte}
Calls == {"write", "read", "recycle"}

TypeOK ==
    /\ pc \in Calls \cup {"idle", "crashed", "destroyed"}
    /\ cur \in Conn \cup {NoConn}
    /\ pc \in Calls => cur \in Conn
    /\ arg \in Nat /\ todo \in Int /\ got \in Nat
    /\ life \in [Conn -> {"unborn", "open", "cached"}]
    /\ hasInfo \in [Conn -> BOOLEAN]
    /\ size \in [Conn -> Int]
    /\ queue \in [Conn -> Seq(Mbuf)]
    /\ mbuf \in [Mbuf -> [data : [1 .. Cap -> Byte], pos : 0 .. Cap, last : 0 .. Cap]]
    /\ freeq \in Seq(Mbuf)
    /\ freeInfos \in Nat
    /\ allocated \subseteq Mbuf
    /\ mstats \in [total_buffers : Int, buffers : Int, free_buffers : Int, conns : Int,
                   free_conns : Int, conn_info : Int, free_conn_info : Int]
    /\ sent \in [Conn -> Nat]
    /\ out \in [Conn -> Seq(Byte)]

EmptyMbuf == [data |-> [j \in 1 .. Cap |-> NoByte], pos |-> 0, last |-> 0]

\* context_new: nothing is allocated, ctx->conns is empty.
Init ==
    /\ pc = "idle" /\ cur = NoConn /\ arg = 0 /\ todo = 0 /\ got = 0
    /\ life = [c \in Conn |-> "unborn"]
    /\ hasInfo = [c \in Conn |-> FALSE]
    /\ size = [c \in Conn |-> 0]
    /\ queue = [c \in Conn |-> <<>>]
    /\ mbuf = [m \in Mbuf |-> EmptyMbuf]
    /\ freeq = <<>>
    /\ freeInfos = 0
    /\ allocated = {}
    /\ mstats = [total_buffers |-> 0, buffers |-> 0, free_buffers |-> 0, conns |-> 0,
                 free_conns |-> 0, conn_info |-> 0, free_conn_info |-> 0]
    /\ sent = [c \in Conn |-> 0]
    /\ out = [c \in Conn |-> <<>>]

-----------------------------------------------------------------------------
(* mbuf.c                                                                  *)

mbuf_read_size(m) == mbuf[m].last - mbuf[m].pos

\* Mutant: one byte too many.
WriteSizeOffByOne(m) == Cap - mbuf[m].last + 1

mbuf_write_size(m) == Cap - mbuf[m].last

Lesser(a, b) == IF a < b THEN a ELSE b

\* The head of the free list, or else what malloc returns.
NextMbuf == IF freeq # <<>> THEN Head(freeq) ELSE CHOOSE m \in Mbuf : m \notin allocated

\* Mutant: the mbuf stays in the free list.
GetLeavesInList ==
    /\ freeq # <<>> \/ Mbuf \ allocated # {}
    /\ freeq' = freeq
    /\ allocated' = allocated \cup {NextMbuf}
    /\ mbuf' = [mbuf EXCEPT ![NextMbuf] = EmptyMbuf]
    /\ mstats' = [mstats EXCEPT !.buffers = @ + 1]

\* The content of a new mbuf is nobody's byte, whatever the memory held.
\* malloc aborts the process when there is no memory.
mbuf_get ==
    /\ freeq # <<>> \/ Mbuf \ allocated # {}
    /\ freeq' = IF freeq # <<>> THEN Tail(freeq) ELSE freeq
    /\ allocated' = allocated \cup {NextMbuf}
    /\ mbuf' = [mbuf EXCEPT ![NextMbuf] = EmptyMbuf]
    /\ mstats' = [mstats EXCEPT
                    !.buffers = @ + 1,
                    !.free_buffers = IF freeq # <<>> THEN @ - 1 ELSE @,
                    !.total_buffers = IF freeq # <<>> THEN @ ELSE @ + 1]

\* Mutant: a freed mbuf is still counted.
RecycleKeepsTotal(m) ==
    IF mstats.free_buffers > RecycleLength
    THEN /\ allocated' = allocated \ {m}
         /\ mstats' = [mstats EXCEPT !.buffers = @ - 1]
         /\ UNCHANGED freeq
    ELSE /\ freeq' = <<m>> \o freeq
         /\ mstats' = [mstats EXCEPT !.buffers = @ - 1, !.free_buffers = @ + 1]
         /\ UNCHANGED allocated

\* At most RecycleLength + 1 mbufs are kept.
mbuf_recycle(m) ==
    IF mstats.free_buffers > RecycleLength
    THEN /\ allocated' = allocated \ {m}
         /\ mstats' = [mstats EXCEPT !.buffers = @ - 1, !.total_buffers = @ - 1]
         /\ UNCHANGED freeq
    ELSE /\ freeq' = <<m>> \o freeq
         /\ mstats' = [mstats EXCEPT !.buffers = @ - 1, !.free_buffers = @ + 1]
         /\ UNCHANGED allocated

\* total_buffers goes on counting the mbufs that are freed here.
mbuf_destroy ==
    /\ freeq' = <<>>
    /\ allocated' = allocated \ Range(freeq)
    /\ mstats' = [mstats EXCEPT !.free_buffers = 0]

mhdr_readable(q) == q # <<>> /\ mbuf_read_size(Head(q)) > 0

-----------------------------------------------------------------------------
(* Connections.                                                            *)

\* A call returns, and its locals are gone.
Return == pc' = "idle" /\ cur' = NoConn /\ arg' = 0 /\ todo' = 0

\* TAILQ_REMOVE is handed con, which is still NULL, when a cached connection
\* is there to be reused.
context_connection_new(c) ==
    /\ pc = "idle"
    /\ life[c] = "unborn"
    /\ IF \E d \in Conn : life[d] = "cached"
       THEN pc' = "crashed" /\ UNCHANGED <<life, mstats>>
       ELSE /\ life' = [life EXCEPT ![c] = "open"]
            /\ mstats' = [mstats EXCEPT !.conns = @ + 1]
            /\ UNCHANGED pc
    /\ UNCHANGED <<cur, arg, todo, got, hasInfo, size, queue, pool, freeInfos, history>>

con_info_new(c) ==
    /\ hasInfo' = [hasInfo EXCEPT ![c] = TRUE]
    /\ freeInfos' = IF freeInfos > 0 THEN freeInfos - 1 ELSE 0
    /\ mstats' = [mstats EXCEPT
                    !.conn_info = @ + 1,
                    !.free_conn_info = IF freeInfos > 0 THEN @ - 1 ELSE @]

con_buf_write(c, n) ==
    /\ pc = "idle"
    /\ life[c] = "open"
    /\ n > 0 /\ sent[c] + n <= MaxSent
    /\ pc' = "write" /\ cur' = c /\ arg' = n /\ todo' = n /\ got' = 0
    /\ IF hasInfo[c] THEN UNCHANGED <<hasInfo, freeInfos, mstats>>
       ELSE con_info_new(c)
    /\ UNCHANGED <<life, size, queue, pool, history>>

LastHasRoom(c) == queue[c] # <<>> /\ mbuf_write_size(Last(queue[c])) # 0

\* Mutant: TAILQ_INSERT_HEAD.
PrependMbuf ==
    /\ pc = "write"
    /\ ~ LastHasRoom(cur)
    /\ mbuf_get
    /\ queue' = [queue EXCEPT ![cur] = <<NextMbuf>> \o @]
    /\ UNCHANGED <<call, life, hasInfo, size, freeInfos, history>>

AppendMbuf ==
    /\ pc = "write"
    /\ ~ LastHasRoom(cur)
    /\ mbuf_get
    /\ queue' = [queue EXCEPT ![cur] = Append(@, NextMbuf)]
    /\ UNCHANGED <<call, life, hasInfo, size, freeInfos, history>>

\* mbuf_write of n bytes, the next of the stream.
Filled(m, n) ==
    LET start == mbuf[m].last IN
    [mbuf EXCEPT ![m] = [
        data |-> [j \in 1 .. Cap |-> IF j \in start + 1 .. start + n
                                     THEN <<cur, sent[cur] + j - start>>
                                     ELSE mbuf[m].data[j]],
        pos  |-> mbuf[m].pos,
        last |-> start + n]]

\* A write that ends in a full mbuf returns before data_size is updated.
FillMbuf ==
    /\ pc = "write"
    /\ LastHasRoom(cur)
    /\ LET m == Last(queue[cur])
           n == Lesser(mbuf_write_size(m), todo) IN
       /\ mbuf' = Filled(m, n)
       /\ sent' = [sent EXCEPT ![cur] = @ + n]
       /\ IF n = todo THEN Return
          ELSE todo' = todo - n /\ UNCHANGED <<pc, cur, arg>>
       /\ size' = IF mbuf_write_size(m) > todo THEN [size EXCEPT ![cur] = @ + arg] ELSE size
    /\ UNCHANGED <<got, life, hasInfo, queue, freeq, freeInfos, allocated, mstats, out>>

\* A connection that was never written has no info to read from.
con_buf_read(c, n) ==
    /\ pc = "idle"
    /\ life[c] = "open"
    /\ pc' = IF hasInfo[c] THEN "read" ELSE "crashed"
    /\ cur' = c /\ arg' = n /\ todo' = Lesser(size[c], n) /\ got' = 0
    /\ UNCHANGED <<life, hasInfo, size, queue, pool, freeInfos, mstats, history>>

\* Mutant: a single mbuf is read.
MayReadOnce == mhdr_readable(queue[cur]) /\ todo # 0 /\ got = 0

MayRead == mhdr_readable(queue[cur]) /\ todo # 0

\* Mutant: the read marker is ignored.
CopiedFromStart(m, n) == [i \in 1 .. n |-> mbuf[m].data[i]]

\* What mbuf_peek copies from m.
Copied(m, n) == [i \in 1 .. n |-> mbuf[m].data[mbuf[m].pos + i]]

\* Mutant: a full mbuf is kept.
RecycleUnlessFull(m, n) == mbuf[m].pos + n = mbuf[m].last /\ mbuf_write_size(m) # 0

\* mbuf_can_recycle, once n bytes are read from m.
CanRecycle(m, n) == mbuf[m].pos + n = mbuf[m].last /\ mbuf_write_size(m) = 0

\* Every mbuf is read with the whole len; dst is taken to have room for it
\* all.  An mbuf that is read out and full goes back to the pool, any other
\* ends the call.
ReadMbuf ==
    /\ pc = "read"
    /\ MayRead
    /\ LET m == Head(queue[cur])
           n == Lesser(mbuf_read_size(m), arg) IN
       /\ mbuf' = [mbuf EXCEPT ![m].pos = @ + n]
       /\ out' = [out EXCEPT ![cur] = @ \o Copied(m, n)]
       /\ got' = got + n
       /\ IF CanRecycle(m, n)
          THEN /\ todo' = todo - n
               /\ queue' = [queue EXCEPT ![cur] = Tail(@)]
               /\ mbuf_recycle(m)
               /\ UNCHANGED <<pc, cur, arg, size>>
          ELSE /\ Return
               /\ size' = [size EXCEPT ![cur] = @ - got']
               /\ UNCHANGED <<queue, freeq, allocated, mstats>>
    /\ UNCHANGED <<life, hasInfo, freeInfos, sent>>

\* Mutant: data_size is left as it was.
ReadReturnsUncounted ==
    /\ pc = "read"
    /\ ~ MayRead
    /\ Return
    /\ UNCHANGED <<got, life, hasInfo, size, queue, pool, freeInfos, mstats, history>>

ReadReturns ==
    /\ pc = "read"
    /\ ~ MayRead
    /\ Return
    /\ size' = [size EXCEPT ![cur] = @ - got]
    /\ UNCHANGED <<got, life, hasInfo, queue, pool, freeInfos, mstats, history>>

\* Mutant: len is not decremented.
PeekWithWholeLen(c, n) ==
    LET dst[k \in 0 .. Len(queue[c])] ==
          IF k = 0 THEN <<>>
          ELSE dst[k - 1] \o Copied(queue[c][k], Lesser(mbuf_read_size(queue[c][k]), n))
    IN  dst[Len(queue[c])]

\* The bytes con_buf_peek puts into dst: dst[k] after k mbufs of the queue.
con_buf_peek(c, n) ==
    LET dst[k \in 0 .. Len(queue[c])] ==
          IF k = 0 THEN <<>>
          ELSE dst[k - 1] \o Copied(queue[c][k],
                                    Lesser(mbuf_read_size(queue[c][k]), n - Len(dst[k - 1])))
    IN  dst[Len(queue[c])]

context_conn_recyle(c) ==
    /\ pc = "idle"
    /\ life[c] = "open"
    /\ pc' = "recycle" /\ cur' = c /\ got' = 0
    /\ mstats' = IF hasInfo[c] THEN [mstats EXCEPT !.conn_info = @ - 1] ELSE mstats
    /\ UNCHANGED <<arg, todo, life, hasInfo, size, queue, pool, freeInfos, history>>

\* connection_buf_free
FreeMbuf ==
    /\ pc = "recycle"
    /\ queue[cur] # <<>>
    /\ queue' = [queue EXCEPT ![cur] = Tail(@)]
    /\ mbuf_recycle(Head(queue[cur]))
    /\ UNCHANGED <<call, life, hasInfo, size, mbuf, freeInfos, history>>

CacheConnection ==
    /\ pc = "recycle"
    /\ queue[cur] = <<>>
    /\ Return
    /\ life' = [life EXCEPT ![cur] = "cached"]
    /\ hasInfo' = [hasInfo EXCEPT ![cur] = FALSE]
    /\ freeInfos' = IF hasInfo[cur] THEN freeInfos + 1 ELSE freeInfos
    /\ mstats' = [mstats EXCEPT
                    !.free_conn_info = IF hasInfo[cur] THEN @ + 1 ELSE @,
                    !.conns = @ - 1,
                    !.free_conns = @ + 1]
    /\ UNCHANGED <<got, size, queue, pool, history>>

\* context_free_content and context_destroy, as every caller calls them.  The
\* first does nothing while connections are open, and nobody looks at its
\* result.
context_destroy ==
    /\ pc = "idle"
    /\ pc' = "destroyed"
    /\ IF mstats.conns # 0 THEN UNCHANGED <<freeq, allocated, mstats, freeInfos>>
       ELSE mbuf_destroy /\ freeInfos' = 0
    /\ UNCHANGED <<cur, arg, todo, got, life, hasInfo, size, queue, mbuf, history>>

Next ==
    \/ \E c \in Conn : context_connection_new(c) \/ context_conn_recyle(c)
    \/ \E c \in Conn, n \in Lens : con_buf_write(c, n) \/ con_buf_read(c, n)
    \/ AppendMbuf
    \/ FillMbuf
    \/ ReadMbuf
    \/ ReadReturns
    \/ FreeMbuf
    \/ CacheConnection
    \/ context_destroy

Spec == Init /\ [][Next]_vars

-----------------------------------------------------------------------------
(* Properties.                                                             *)

Unread(c) == sent[c] - Len(out[c])

Open(c) == life[c] = "open" /\ ~ (pc = "recycle" /\ cur = c)

\* The mbufs of an open connection hold exactly the bytes that were written
\* and not yet read, in order: all but the last mbuf are full, and only the
\* first has a read marker that moved.  con_buf_read, which stops at an mbuf
\* that is not full, and con_buf_peek lose bytes otherwise.
QueueHoldsStream ==
    \A c \in Conn : Open(c) =>
        IF queue[c] = <<>> THEN Unread(c) = 0
        ELSE LET L == Len(queue[c])
                 base == Len(out[c]) - mbuf[queue[c][1]].pos
             IN  /\ \A k \in 1 .. L : LET b == mbuf[queue[c][k]] IN
                       /\ \A j \in 1 .. b.last : b.data[j] = <<c, base + (k - 1) * Cap + j>>
                       /\ k < L => b.last = Cap
                       /\ k > 1 => b.pos = 0
                       /\ b.pos <= b.last
                 /\ sent[c] = base + (L - 1) * Cap + mbuf[queue[c][L]].last

\* Bytes that wait are found: mhdr_readable looks at the first mbuf only, and
\* no read leaves an exhausted mbuf in front of others.
UnreadIsReadable ==
    \A c \in Conn : Open(c) /\ Unread(c) > 0 => mhdr_readable(queue[c])

\* An mbuf is in one place of one list: connections never share memory,
\* whatever was recycled and taken again, no mbuf that malloc gave out is
\* lost, and none is left when a context without connections is destroyed.
NoMbufShared ==
    /\ IsInjective(freeq)
    /\ \A c \in Conn : IsInjective(queue[c]) /\ Range(queue[c]) \cap Range(freeq) = {}
    /\ \A c, d \in Conn : c # d => Range(queue[c]) \cap Range(queue[d]) = {}
    /\ IF pc # "destroyed"
       THEN allocated = Range(freeq) \cup UNION {Range(queue[c]) : c \in Conn}
       ELSE (\A c \in Conn : life[c] # "open") => allocated = {}

\* What print_stats reports is what the lists hold, after any sequence of
\* reads, writes and recycled connections, also beyond the recycle limit.
StatsExact ==
    pc \notin {"recycle", "destroyed"} =>
        mstats = [total_buffers  |-> Cardinality(allocated),
                  buffers        |-> Cardinality(UNION {Range(queue[c]) : c \in Conn}),
                  free_buffers   |-> Len(freeq),
                  conns          |-> Cardinality({c \in Conn : life[c] = "open"}),
                  free_conns     |-> Cardinality({c \in Conn : life[c] = "cached"}),
                  conn_info      |-> Cardinality({c \in Conn : hasInfo[c]}),
                  free_conn_info |-> freeInfos]

\* data_size never promises bytes that are not there: TcpClient::OnNewData
\* announces a message on its word (server.cc).
DataSizeNeverAhead ==
    \A c \in Conn : pc = "idle" /\ Open(c) => size[c] <= Unread(c)

\* con_buf_peek delivers the next bytes, as many as asked for or all there
\* are, also across mbufs and when the first is partly read.
PeekSeesNext ==
    \A c \in Conn, n \in Lens : pc = "idle" /\ Open(c) =>
        con_buf_peek(c, n) = [i \in 1 .. Lesser(n, Unread(c)) |-> <<c, Len(out[c]) + i>>]

\* What a connection delivers is what was written to it, in order and once.
Streams == INSTANCE ByteStream WITH written <- sent, delivered <- out
DeliversStreams == Streams!Spec

ReadsBack == pc = "read" /\ pc' = "idle"

\* con_buf_read never returns fewer bytes than data_size and len allow,
\* although it gives up at the first mbuf it cannot recycle.
ReadDelivers == [][ReadsBack => got' >= Lesser(size[cur], arg)]_vars

\* A read that has room for more comes back only when nothing is left:
\* mbuf_test.c prints what a read of 80 returns beside the length written.
ShortReadMeansEmpty == [][ReadsBack /\ got' < arg => Len(out'[cur]) = sent'[cur]]_vars

\* con_buf_read copies at most len bytes to dst: mbuf_test.c passes the size
\* of its buffer.
ReadFits == [][ReadsBack => got' <= arg]_vars
=============================================================================
