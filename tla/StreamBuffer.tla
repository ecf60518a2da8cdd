---------------------------- MODULE StreamBuffer ----------------------------
(***************************************************************************)
(* Buffer (src/server/muduo/Buffer.h, Buffer.cc): a vector of bytes with   *)
(* two indices. What lies between them can be read; what was read stays in *)
(* front of it until the space is needed. A value B is one buffer.         *)
(***************************************************************************)
EXTENDS Integers, Sequences

CONSTANTS
  kCheapPrepend,  \* the space kept free in front
  kInitialSize,   \* the space behind it at the start
  ExtraSize       \* the size of readFd's extrabuf

ASSUME BufferAssumption ==
  kCheapPrepend \in Nat /\ kInitialSize \in Nat /\ ExtraSize \in Nat \ {0}

NewBuffer ==
  [size |-> kCheapPrepend + kInitialSize,
   bytes |-> [i \in 0..(kCheapPrepend + kInitialSize - 1) |-> 0],
   readerIndex |-> kCheapPrepend, writerIndex |-> kCheapPrepend]

readableBytes(B) == B.writerIndex - B.readerIndex
writableBytes(B) == B.size - B.writerIndex
prependableBytes(B) == B.readerIndex

\* The bytes from peek() on.
Readable(B) == [i \in 1..readableBytes(B) |-> B.bytes[B.readerIndex + i - 1]]

RetrieveAll(B) ==
  [B EXCEPT !.readerIndex = kCheapPrepend, !.writerIndex = kCheapPrepend]

Retrieve(B, len) ==
  IF len < readableBytes(B) THEN [B EXCEPT !.readerIndex = @ + len] ELSE RetrieveAll(B)

Resized(B, size) ==
  [B EXCEPT !.size = size,
            !.bytes = [i \in 0..(size - 1) |-> IF i < B.size THEN B.bytes[i] ELSE 0]]

\* Faulty variant, to confirm that BytesConserved can fail: the indices move and
\* the bytes stay.
MoveIndicesToFront(B) ==
  [B EXCEPT !.readerIndex = kCheapPrepend, !.writerIndex = kCheapPrepend + readableBytes(B)]

\* Every byte moves to a lower place, so none is overwritten before it is copied.
MoveToFront(B) ==
  [B EXCEPT
     !.bytes = [i \in 0..(B.size - 1) |->
                  IF i - kCheapPrepend \in 0..(readableBytes(B) - 1)
                    THEN B.bytes[B.readerIndex + i - kCheapPrepend] ELSE B.bytes[i]],
     !.readerIndex = kCheapPrepend,
     !.writerIndex = kCheapPrepend + readableBytes(B)]

MakeSpace(B, len) ==
  IF writableBytes(B) + prependableBytes(B) < len + kCheapPrepend
    THEN Resized(B, B.writerIndex + len) ELSE MoveToFront(B)

EnsureWritableBytes(B, len) == IF writableBytes(B) < len THEN MakeSpace(B, len) ELSE B

\* std::copy to beginWrite(), which has the space.
Write(B, data) ==
  [B EXCEPT
     !.bytes = [i \in 0..(B.size - 1) |->
                  IF i - B.writerIndex \in 0..(Len(data) - 1)
                    THEN data[i - B.writerIndex + 1] ELSE B.bytes[i]],
     !.writerIndex = @ + Len(data)]

AppendBytes(B, data) == Write(EnsureWritableBytes(B, Len(data)), data)

\* What one readv can take: the buffer's space, and extrabuf behind a small one.
ReadRoom(B) ==
  writableBytes(B) + (IF writableBytes(B) < ExtraSize THEN ExtraSize ELSE 0)

\* readFd: readv has returned `data`.
ReadFd(B, data) ==
  LET writable == writableBytes(B) IN
  IF Len(data) <= writable THEN Write(B, data)
  ELSE AppendBytes(Write(B, SubSeq(data, 1, writable)),
                   SubSeq(data, writable + 1, Len(data)))

=============================================================================
