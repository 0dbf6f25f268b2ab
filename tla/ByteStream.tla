----------------------------- MODULE ByteStream -----------------------------
(***************************************************************************)
(* What the connection buffers of base/corvus.c promise their user: every  *)
(* connection is a stream; what is read is what was written, in order,     *)
(* once, and of this connection.  The n-th byte written to connection c is *)
(* <<c, n>>.                                                               *)
(***************************************************************************)
EXTENDS Naturals, Sequences

CONSTANTS
    Conn,           \* connections
    MaxSent         \* bound: bytes written to a connection

VARIABLES
    written,        \* number of bytes written to every connection
    delivered       \* the bytes read from every connection

Init ==
    /\ written = [c \in Conn |-> 0]
    /\ delivered = [c \in Conn |-> <<>>]

\* n bytes are stored.
Write(c, n) ==
    /\ written[c] + n <= MaxSent
    /\ written' = [written EXCEPT ![c] = @ + n]
    /\ UNCHANGED delivered

\* The next n bytes of the stream are delivered.
Read(c, n) ==
    /\ Len(delivered[c]) + n <= written[c]
    /\ delivered' = [delivered EXCEPT ![c] = @ \o [i \in 1 .. n |-> <<c, Len(@) + i>>]]
    /\ UNCHANGED written

Next == \E c \in Conn, n \in 1 .. MaxSent : Write(c, n) \/ Read(c, n)

Spec == Init /\ [][Next]_<<written, delivered>>
=============================================================================
