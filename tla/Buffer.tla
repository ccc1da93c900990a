------------------------------ MODULE Buffer ------------------------------
(***************************************************************************)
(* mini_muduo::Buffer (buffer.h, buffer.cpp): a vector<char> buffer_ with  *)
(* readerIndex_ and writerIndex_.  The C++ byte at index i is buffer_[i+1] *)
(* here.  Every public operation is an action over small byte strings;    *)
(* the operators below are the private helpers they share, each taking    *)
(* and returning a buffer value [buf, r, w].  An assert that fails is     *)
(* recorded in `failed`, and the step goes on as an NDEBUG build would.   *)
(***************************************************************************)
EXTENDS Integers, Sequences, SequencesExt

CONSTANTS
    kCheapPrepend,  \* scaled-down Buffer::kCheapPrepend (8)
    kInitialSize,   \* scaled-down Buffer::kInitialSize (1024)
    ExtraBufSize,   \* scaled-down size of readFd's stack extrabuf (65536)
    Bytes,          \* byte values a caller or the socket supplies
    MaxLen,         \* bound: longest string one call passes or reads
    MaxSize,        \* bound: largest buffer_.size() explored
    Ints,           \* values an appendIntN/prependIntN call passes
    IntWidths       \* the N/8 of the appendIntN/readIntN/prependIntN used

ASSUME kCheapPrepend \in 1..MaxSize /\ kInitialSize \in 1..MaxSize
ASSUME ExtraBufSize \in 1..MaxSize /\ MaxLen \in 1..MaxSize
ASSUME IntWidths \subseteq {1, 2, 4, 8} /\ Ints \subseteq Int

\* vector::resize value-initialises the new chars.
Zero == 0

VARIABLES buffer_, readerIndex_, writerIndex_, call, failed

vars == <<buffer_, readerIndex_, writerIndex_, call, failed>>

\* The buffer as one value, and the step that makes b the new buffer.
B == [buf |-> buffer_, r |-> readerIndex_, w |-> writerIndex_]
SetB(b) == buffer_' = b.buf /\ readerIndex_' = b.r /\ writerIndex_' = b.w

readableBytes(b)    == b.w - b.r
writableBytes(b)    == Len(b.buf) - b.w
prependableBytes(b) == b.r

\* The bytes in [from, to) of C++ indices; peek() .. beginWrite() is Content.
Cells(b, from, to) == SubSeq(b.buf, from + 1, to)
Content(b) == Cells(b, b.r, b.w)

\* std::copy of data to begin() + at.
CopyTo(buf, at, data) ==
    [i \in 1..Len(buf) |-> IF at < i /\ i <= at + Len(data)
                           THEN data[i - at] ELSE buf[i]]

\* vector::resize(n).
Resize(buf, n) ==
    IF n <= Len(buf) THEN SubSeq(buf, 1, n)
    ELSE buf \o [i \in 1..(n - Len(buf)) |-> Zero]

\* Buffer(initialSize), the constructor.
NewBuffer(initialSize) ==
    [buf |-> [i \in 1..(kCheapPrepend + initialSize) |-> Zero],
     r |-> kCheapPrepend, w |-> kCheapPrepend]

\* makeSpace(len): grow the vector, or move the readable bytes to the front.
NoRoomInside(b, len) == writableBytes(b) + prependableBytes(b) < len + kCheapPrepend

\* Mutants of makeSpace: the room test without the kCheapPrepend reserve;
\* a resize one byte short.
makeSpaceNoReserve(b, len) ==
    IF writableBytes(b) + prependableBytes(b) < len
    THEN [b EXCEPT !.buf = Resize(b.buf, b.w + len)]
    ELSE [buf |-> CopyTo(b.buf, kCheapPrepend, Content(b)),
          r |-> kCheapPrepend, w |-> kCheapPrepend + readableBytes(b)]

makeSpaceShortResize(b, len) ==
    IF NoRoomInside(b, len)
    THEN [b EXCEPT !.buf = Resize(b.buf, b.w + len - 1)]
    ELSE [buf |-> CopyTo(b.buf, kCheapPrepend, Content(b)),
          r |-> kCheapPrepend, w |-> kCheapPrepend + readableBytes(b)]

makeSpace(b, len) ==
    IF NoRoomInside(b, len)
    THEN [b EXCEPT !.buf = Resize(b.buf, b.w + len)]
    ELSE [buf |-> CopyTo(b.buf, kCheapPrepend, Content(b)),
          r |-> kCheapPrepend, w |-> kCheapPrepend + readableBytes(b)]

makeSpaceFails(b, len) ==
    IF ~NoRoomInside(b, len) /\ ~(kCheapPrepend < b.r) THEN {"makeSpace"} ELSE {}

ensureWritableBytes(b, len) ==
    IF writableBytes(b) < len THEN makeSpace(b, len) ELSE b

ensureWritableFails(b, len) ==
    (IF writableBytes(b) < len THEN makeSpaceFails(b, len) ELSE {})
    \cup (IF writableBytes(ensureWritableBytes(b, len)) < len
          THEN {"ensureWritableBytes"} ELSE {})

\* append(data, len): ensureWritableBytes, copy to beginWrite(), hasWritten.
AppendTo(b, data) ==
    LET e == ensureWritableBytes(b, Len(data))
    IN  [e EXCEPT !.buf = CopyTo(e.buf, e.w, data), !.w = e.w + Len(data)]

AppendFails(b, data) == ensureWritableFails(b, Len(data))

\* retrieve(len) with len <= readableBytes(); retrieveAll().
retrieveAll(b) == [b EXCEPT !.r = kCheapPrepend, !.w = kCheapPrepend]

retrieve(b, len) ==
    IF len < readableBytes(b) THEN [b EXCEPT !.r = b.r + len] ELSE retrieveAll(b)

\* readFd: readv into the writable space and then into extrabuf; `data` is
\* what the kernel returned, at most what the two iovecs hold.
ReadCapacity(b) ==
    writableBytes(b) + (IF writableBytes(b) < ExtraBufSize THEN ExtraBufSize ELSE 0)

\* Mutant of readFd: the spill appended without first moving writerIndex_
\* to the end of what readv wrote into the buffer.
readFdNoFill(b, data) ==
    LET writable == writableBytes(b)
        n == Len(data)
        direct == CopyTo(b.buf, b.w, SubSeq(data, 1, Min({n, writable})))
    IN  IF n <= writable
        THEN [b EXCEPT !.buf = direct, !.w = b.w + n]
        ELSE AppendTo([b EXCEPT !.buf = direct], SubSeq(data, writable + 1, n))

readFd(b, data) ==
    LET writable == writableBytes(b)
        n == Len(data)
        direct == CopyTo(b.buf, b.w, SubSeq(data, 1, Min({n, writable})))
    IN  IF n <= writable
        THEN [b EXCEPT !.buf = direct, !.w = b.w + n]
        ELSE AppendTo([b EXCEPT !.buf = direct, !.w = Len(b.buf)],
                      SubSeq(data, writable + 1, n))

readFdFails(b, data) ==
    IF Len(data) <= writableBytes(b) THEN {}
    ELSE AppendFails([b EXCEPT !.w = Len(b.buf)],
                     SubSeq(data, writableBytes(b) + 1, Len(data)))

\* shrink(reserve): a fresh Buffer sized for the content, swapped in.
shrink(b, reserve) ==
    AppendTo(ensureWritableBytes(NewBuffer(kInitialSize), readableBytes(b) + reserve),
             Content(b))

\* The searches, on C++ indices; NULL is -1.
NULL == -1
CR == 13
LF == 10

\* std::search(p, to, kCRLF, kCRLF + 2): the first position at which the
\* two bytes "\r\n" start within [p, to), or `to`.
RECURSIVE SearchCRLF(_, _, _)
SearchCRLF(buf, p, to) ==
    IF p + 2 > to THEN to
    ELSE IF buf[p + 1] = CR /\ buf[p + 2] = LF THEN p
    ELSE SearchCRLF(buf, p + 1, to)

\* memchr(p, c, n).
RECURSIVE Memchr(_, _, _, _)
Memchr(buf, p, c, n) ==
    IF n = 0 THEN NULL
    ELSE IF buf[p + 1] = c THEN p
    ELSE Memchr(buf, p + 1, c, n - 1)

\* Mutant of findCRLF: the search runs to the end of the storage instead of
\* beginWrite(), into bytes retrieved or unwritten earlier.
findCRLFToEnd(b, start) ==
    LET p == SearchCRLF(b.buf, start, Len(b.buf))
    IN  IF p = Len(b.buf) THEN NULL ELSE p

\* findCRLF(start) and findCRLF() (start = peek()); peek() <= start <=
\* beginWrite() is asserted, and the callers enumerate only such starts.
findCRLF(b, start) ==
    LET p == SearchCRLF(b.buf, start, b.w)
    IN  IF p = b.w THEN NULL ELSE p

\* findEOL(start) and findEOL() (start = peek()).
findEOL(b, start) == Memchr(b.buf, start, LF, b.w - start)

\* Fixed-width integers.  socket_ops::hostToNetworkN / networkToHostN come
\* from mini_muduo/endian.h, which is not in the repository: the spec says
\* the helpers are network-endian, i.e. a byte swap on the little-endian
\* hosts the code targets.  An object's bytes in memory are little-endian.
Unsigned(x, n) == x % (2 ^ (8 * n))                 \* static_cast<uintN_t>
Signed(u, n) == IF u >= 2 ^ (8 * n - 1) THEN u - 2 ^ (8 * n) ELSE u \* to intN_t
MemoryBytes(u, n) == [i \in 1..n |-> (u \div (2 ^ (8 * (i - 1)))) % 256]
RECURSIVE LoadBytes(_)
LoadBytes(s) == IF s = <<>> THEN 0 ELSE Head(s) + 256 * LoadBytes(Tail(s))
hostToNetwork(u, n) == LoadBytes(Reverse(MemoryBytes(u, n)))
networkToHost(u, n) == hostToNetwork(u, n)

\* appendIntN / prependIntN: the bytes of hostToNetworkN(x) as stored.
IntBytes(x, n) == MemoryBytes(hostToNetwork(Unsigned(x, n), n), n)

\* Mutant of peekIntN: the memcpy'd value is used without networkToHostN.
peekIntNoSwap(b, n) == Signed(LoadBytes(Cells(b, b.r, b.r + n)), n)

\* peekIntN: memcpy the first n readable bytes, networkToHostN, cast to
\* intN_t; readableBytes() >= n is asserted (its callers' precondition).
peekInt(b, n) == Signed(networkToHost(LoadBytes(Cells(b, b.r, b.r + n)), n), n)

\* prepend(data, len): readerIndex_ -= len, copy to begin() + readerIndex_;
\* len <= prependableBytes() is asserted and the callers keep to it.
prepend(b, data) ==
    [b EXCEPT !.r = b.r - Len(data), !.buf = CopyTo(b.buf, b.r - Len(data), data)]

\* The strings one call passes.
Strings == BoundedSeq(Bytes, MaxLen)

\* Every byte value the buffer can hold.
AllBytes == Bytes \cup {Zero}
            \cup UNION {ToSet(IntBytes(x, n)) : x \in Ints, n \in IntWidths}

TypeOK ==
    /\ buffer_ \in Seq(AllBytes)
    /\ readerIndex_ \in 0..MaxSize /\ writerIndex_ \in 0..MaxSize
    /\ readerIndex_ <= writerIndex_ /\ writerIndex_ <= Len(buffer_)
    /\ call \in [op : {"none", "append", "retrieve", "prepend", "unwrite", "shrink"},
                 data : Seq(AllBytes)]
    /\ failed \subseteq {"makeSpace", "ensureWritableBytes"}

Init ==
    /\ buffer_ = NewBuffer(kInitialSize).buf
    /\ readerIndex_ = kCheapPrepend
    /\ writerIndex_ = kCheapPrepend
    /\ call = [op |-> "none", data |-> <<>>]
    /\ failed = {}

\* A step that leaves the buffer b after call c, within the size bound.
Step(b, c, fails) ==
    /\ Len(b.buf) <= MaxSize
    /\ SetB(b)
    /\ call' = c
    /\ failed' = failed \cup fails

\* append(data, len) / append(string_view).
AppendData ==
    \E data \in Strings :
        Step(AppendTo(B, data), [op |-> "append", data |-> data], AppendFails(B, data))

\* retrieveAsString(len), retrieve(len), retrieveAll(): len <= readableBytes().
Retrieve ==
    \E len \in 0..readableBytes(B) :
        Step(retrieve(B, len),
             [op |-> "retrieve", data |-> SubSeq(Content(B), 1, len)], {})

\* prepend(data, len): len <= prependableBytes().
Prepend ==
    \E data \in Strings :
        /\ Len(data) <= prependableBytes(B)
        /\ Step(prepend(B, data), [op |-> "prepend", data |-> data], {})

\* unwrite(len): len <= readableBytes().
Unwrite ==
    \E len \in 0..readableBytes(B) :
        Step([B EXCEPT !.w = B.w - len],
             [op |-> "unwrite",
              data |-> SubSeq(Content(B), readableBytes(B) - len + 1, readableBytes(B))],
             {})

\* readFd(fd): the kernel returns up to ReadCapacity bytes; <<>> is EOF or
\* an error (n <= 0), which leaves the indices alone.
ReadFd ==
    \E data \in BoundedSeq(Bytes, Min({MaxLen, ReadCapacity(B)})) :
        Step(readFd(B, data), [op |-> "append", data |-> data], readFdFails(B, data))

\* shrink(reserve).
Shrink ==
    \E reserve \in 0..MaxLen :
        Step(shrink(B, reserve), [op |-> "shrink", data |-> <<>>], {})

\* appendInt8/16/32/64(x).
AppendInt ==
    \E x \in Ints, n \in IntWidths :
        Step(AppendTo(B, IntBytes(x, n)), [op |-> "append", data |-> IntBytes(x, n)],
             AppendFails(B, IntBytes(x, n)))

\* prependInt8/16/32/64(x), with room in front.
PrependInt ==
    \E x \in Ints, n \in IntWidths :
        /\ n <= prependableBytes(B)
        /\ Step(prepend(B, IntBytes(x, n)), [op |-> "prepend", data |-> IntBytes(x, n)], {})

\* readInt8/16/32/64(): peekIntN(), whose value is the result (see
\* IntsInNetworkOrder), then retrieve(N/8), with N/8 readable.
ReadInt ==
    \E n \in IntWidths :
        /\ readableBytes(B) >= n
        /\ Step(retrieve(B, n), [op |-> "retrieve", data |-> Cells(B, B.r, B.r + n)], {})

Next == AppendData \/ Retrieve \/ Prepend \/ Unwrite \/ ReadFd \/ Shrink
        \/ AppendInt \/ PrependInt \/ ReadInt

Spec == Init /\ [][Next]_vars

-----------------------------------------------------------------------------
(* Properties.                                                             *)

\* No assert of makeSpace() (that compaction only happens with bytes in
\* front of kCheapPrepend) or of ensureWritableBytes() (that there is then
\* room for len bytes) fails, whatever mix of append, readFd, retrieve,
\* prepend, unwrite and shrink calls got the indices where they are.
NoAssertionFails == failed = {}

\* The readable bytes behave as a byte queue: append and readFd add exactly
\* the bytes given or read at the back, retrieve hands out the front bytes,
\* prepend and unwrite touch only their end, and makeSpace's compaction,
\* readFd's spill into extrabuf and shrink never lose, duplicate or reorder
\* a byte.
Queue == INSTANCE ByteQueue WITH q <- Content(B)
BufferIsByteQueue == Queue!Spec

\* The reference for the searches: the first "\r\n", and the first '\n', in
\* the readable bytes from `start` on.
FirstAt(start, positions) == IF positions = {} THEN NULL ELSE start + Min(positions) - 1

\* findCRLF(start) and findEOL(start) return the first terminator between
\* start and beginWrite(), or NULL: never one made of bytes already
\* retrieved or unwritten (still in the vector beyond beginWrite()), and
\* never a '\r' of the last readable byte paired with a stale '\n'.
TerminatorSearch ==
    \A start \in readerIndex_..writerIndex_ :
        LET s == Cells(B, start, writerIndex_)
        IN  /\ findCRLF(B, start)
                 = FirstAt(start, {i \in 1..(Len(s) - 1) : s[i] = CR /\ s[i + 1] = LF})
            /\ findEOL(B, start) = FirstAt(start, {i \in DOMAIN s : s[i] = LF})

\* The reference for network byte order: the n bytes of x's n-byte two's
\* complement, most significant first.
BigEndian(x, n) == [i \in 1..n |-> (Unsigned(x, n) \div (2 ^ (8 * (n - i)))) % 256]

\* The integer helpers are network-endian: appendIntN and prependIntN put
\* the big-endian bytes of x in the buffer, and peekIntN (and readIntN)
\* return, whatever bytes the buffer holds, the value whose big-endian
\* bytes are the first N/8 readable ones -- through the byte swaps of
\* hostToNetworkN/networkToHostN, memcpy on a little-endian host and the
\* casts between intN_t and uintN_t.
IntsInNetworkOrder ==
    /\ \A x \in Ints, n \in IntWidths : IntBytes(x, n) = BigEndian(x, n)
    /\ \A n \in IntWidths :
          readableBytes(B) >= n =>
              BigEndian(peekInt(B, n), n) = Cells(B, readerIndex_, readerIndex_ + n)
==========================================================================
