----------------------------- MODULE WireProofs -----------------------------
(***************************************************************************)
(* What one end of a connection sends is what the handlers of the other    *)
(* are told, however TCP cuts it: for any messages, any field values, any  *)
(* size of a byte, of the buffer and of a frame, and any number of frames  *)
(* and connections. From the bottom up: a number is read back from its     *)
(* bytes; a field, a payload and a header are; a stream goes on frame by   *)
(* frame; a Buffer is a queue of bytes; and each step of a connection      *)
(* keeps the receiver at the beginning of a frame.                         *)
(***************************************************************************)
EXTENDS Wire, SequenceTheorems, NaturalsInduction, WellFoundedInduction, TLAPS

-----------------------------------------------------------------------------
(* Induction on numbers. *)

\* What cannot fail first cannot fail: T has no least member.
LEMMA NoLeastIsEmpty ==
  ASSUME NEW T, T \subseteq Nat, \A n \in T : \E m \in T : m < n
  PROVE  T = {}
<1> SUFFICES ASSUME T # {} PROVE FALSE
  OBVIOUS
<1>1. PICK x \in T : \A y \in T : ~(<<y, x>> \in OpToRel(<, Nat))
  BY NatLessThanWellFounded, WFMin
<1> QED
  BY <1>1 DEF OpToRel

-----------------------------------------------------------------------------
(* Numbers. *)

\* f is the function that ShiftRight defines, up to n.
Shifts(f, value, n) == f = [i \in 0..n |-> IF i = 0 THEN value ELSE f[i - 1] \div Base]

\* And this is it.
Shifting(value, n) == CHOOSE f : Shifts(f, value, n)

\* The recursive function of ShiftRight exists.
LEMMA ShiftingExists ==
  ASSUME NEW value, NEW n \in Nat
  PROVE  \E f : Shifts(f, value, n)
<1> DEFINE T == {k \in Nat : ~\E f : Shifts(f, value, k)}
<1>1. ASSUME NEW k \in T PROVE \E m \in T : m < k
  <2>1. k # 0
    <3>1. Shifts([i \in 0..0 |-> value], value, 0)
      BY DEF Shifts
    <3> QED  BY <3>1
  <2>2. k - 1 \in Nat /\ k - 1 < k
    BY <2>1
  <2>3. ASSUME NEW f, Shifts(f, value, k - 1) PROVE FALSE
    <3> DEFINE g == [i \in 0..k |-> IF i = k THEN f[k - 1] \div Base ELSE f[i]]
    <3>1. \A i \in 0..(k - 1) : f[i] = IF i = 0 THEN value ELSE f[i - 1] \div Base
      BY <2>3 DEF Shifts
    <3>2. \A i \in 0..k : g[i] = IF i = 0 THEN value ELSE g[i - 1] \div Base
      BY <2>2, <3>1
    <3>3. Shifts(g, value, k)
      BY <3>2 DEF Shifts
    <3> QED  BY <3>3
  <2> QED  BY <2>2, <2>3
<1>2. T = {}
  BY <1>1, NoLeastIsEmpty
<1> QED
  BY <1>2

\* ShiftRight is that function's last value.
LEMMA ShiftingIs ==
  ASSUME NEW value, NEW n \in Nat
  PROVE  /\ ShiftRight(value, n) = Shifting(value, n)[n]
         /\ Shifting(value, n)[0] = value
         /\ \A i \in 1..n : Shifting(value, n)[i] = Shifting(value, n)[i - 1] \div Base
<1>1. ShiftRight(value, n) = Shifting(value, n)[n]
  BY DEF ShiftRight, Shifting, Shifts
<1>2. Shifts(Shifting(value, n), value, n)
  BY ShiftingExists DEF Shifting
<1> DEFINE f == Shifting(value, n)
<1>3. \A i \in 0..n : f[i] = IF i = 0 THEN value ELSE f[i - 1] \div Base
  BY <1>2 DEF Shifts
<1> HIDE DEF f
<1>4. f[0] = value /\ \A i \in 1..n : f[i] = f[i - 1] \div Base
  BY <1>3
<1> QED
  BY <1>1, <1>4 DEF f

\* A longer shift begins as a shorter one.
LEMMA ShiftsAgree ==
  ASSUME NEW value, NEW n \in Nat, NEW i \in 0..n
  PROVE  Shifting(value, n)[i] = ShiftRight(value, i)
<1> DEFINE f == Shifting(value, n)
           g == Shifting(value, i)
           T == {k \in 0..i : f[k] # g[k]}
<1>1. /\ f[0] = value /\ \A k \in 1..n : f[k] = f[k - 1] \div Base
      /\ g[0] = value /\ \A k \in 1..i : g[k] = g[k - 1] \div Base
      /\ ShiftRight(value, i) = g[i]
  BY ShiftingIs
<1> HIDE DEF f, g
<1>2. ASSUME NEW k \in T PROVE \E m \in T : m < k
  <2>1. k # 0
    BY <1>1
  <2>2. k - 1 \in 0..i /\ k \in 1..i /\ k \in 1..n
    BY <2>1
  <2>3. f[k] = f[k - 1] \div Base /\ g[k] = g[k - 1] \div Base
    BY <1>1, <2>2
  <2> QED  BY <2>2, <2>3
<1>3. T \subseteq Nat
  OBVIOUS
<1>4. T = {}
  BY <1>2, <1>3, NoLeastIsEmpty
<1>5. f[i] = g[i]
  BY <1>4
<1> QED
  BY <1>1, <1>5 DEF f

\* Byte by byte.
LEMMA ShiftRightIs ==
  ASSUME NEW value
  PROVE  /\ ShiftRight(value, 0) = value
         /\ \A n \in Nat : ShiftRight(value, n + 1) = ShiftRight(value, n) \div Base
<1>1. ShiftRight(value, 0) = value
  BY ShiftingIs
<1>2. ASSUME NEW n \in Nat PROVE ShiftRight(value, n + 1) = ShiftRight(value, n) \div Base
  <2>1. n + 1 \in Nat /\ n \in 0..(n + 1) /\ n + 1 \in 1..(n + 1) /\ (n + 1) - 1 = n
    OBVIOUS
  <2>2. ShiftRight(value, n + 1) = Shifting(value, n + 1)[n + 1]
    BY <2>1, ShiftingIs
  <2>3. Shifting(value, n + 1)[n + 1] = Shifting(value, n + 1)[n] \div Base
    BY <2>1, ShiftingIs
  <2> QED  BY <2>1, <2>2, <2>3, ShiftsAgree
<1> QED
  BY <1>1, <1>2

\* One byte of a number, and the others.
LEMMA DivMod ==
  ASSUME NEW x \in Nat
  PROVE  /\ x \div Base \in Nat /\ x % Base \in Byte
         /\ x = (Base * (x \div Base)) + (x % Base)
BY CodecAssumption DEF Byte

\* Shifting keeps naturals, and their order.
LEMMA ShiftRightNat ==
  ASSUME NEW x \in Nat, NEW n \in Nat
  PROVE  ShiftRight(x, n) \in Nat
<1> DEFINE T == {k \in Nat : ShiftRight(x, k) \notin Nat}
<1>1. ASSUME NEW k \in T PROVE \E m \in T : m < k
  <2>1. k # 0
    BY ShiftRightIs
  <2>2. k - 1 \in Nat /\ (k - 1) + 1 = k
    BY <2>1
  <2>3. ShiftRight(x, k) = ShiftRight(x, k - 1) \div Base
    BY <2>2, ShiftRightIs
  <2>4. ShiftRight(x, k - 1) \notin Nat
    BY <2>3, DivMod
  <2> QED  BY <2>2, <2>4
<1>2. T = {}
  BY <1>1, NoLeastIsEmpty
<1> QED
  BY <1>2

\* Division keeps the order of numbers.
LEMMA DivKeepsOrder ==
  ASSUME NEW x \in Nat, NEW y \in Nat, x <= y
  PROVE  x \div Base <= y \div Base
<1> DEFINE p == x \div Base
           q == y \div Base
<1>1. /\ p \in Nat /\ q \in Nat /\ Base \in Nat /\ Base > 0
      /\ x >= Base * p /\ y < Base * q + Base
  BY CodecAssumption, DivMod DEF Byte
<1> HIDE DEF p, q
<1>2. ASSUME p >= q + 1 PROVE FALSE
  <2>1. Base * p >= Base * (q + 1)
    BY <1>1, <1>2
  <2>2. Base * (q + 1) = Base * q + Base
    BY <1>1
  <2>3. Base * p \in Int /\ Base * q \in Int
    BY <1>1
  <2> QED  BY <1>1, <2>1, <2>2, <2>3
<1>3. p <= q
  BY <1>1, <1>2
<1> QED
  BY <1>3 DEF p, q

\* So does shifting.
LEMMA ShiftKeepsOrder ==
  ASSUME NEW x \in Nat, NEW y \in Nat, x <= y, NEW n \in Nat
  PROVE  ShiftRight(x, n) <= ShiftRight(y, n)
<1> DEFINE T == {k \in Nat : ~(ShiftRight(x, k) <= ShiftRight(y, k))}
<1>1. ASSUME NEW k \in T PROVE \E m \in T : m < k
  <2>1. k # 0
    BY ShiftRightIs
  <2>2. k - 1 \in Nat /\ (k - 1) + 1 = k
    BY <2>1
  <2>3. /\ ShiftRight(x, k) = ShiftRight(x, k - 1) \div Base
        /\ ShiftRight(y, k) = ShiftRight(y, k - 1) \div Base
    BY <2>2, ShiftRightIs
  <2>4. ~(ShiftRight(x, k - 1) <= ShiftRight(y, k - 1))
    BY <2>2, <2>3, ShiftRightNat, DivKeepsOrder
  <2> QED  BY <2>2, <2>4
<1>2. T = {}
  BY <1>1, NoLeastIsEmpty
<1> QED
  BY <1>2

\* A number below one that fits a width fits it too.
LEMMA SmallerFits ==
  ASSUME NEW x \in Nat, NEW y \in Nat, x <= y, NEW n \in Nat, ShiftRight(y, n) = 0
  PROVE  ShiftRight(x, n) = 0
<1>1. ShiftRight(x, n) \in Nat /\ ShiftRight(x, n) <= ShiftRight(y, n)
  BY ShiftRightNat, ShiftKeepsOrder
<1> QED
  BY <1>1

-----------------------------------------------------------------------------
(* Folds. FoldLeft goes through the subsets of the sequence's domain, from the *)
(* greatest element down: a function that does so exists, and so it is the one *)
(* FoldLeft chooses.                                                           *)

\* The three folds of the model: the bytes of a number, the fields of a message, and
\* the frames the handlers at one end are told of.
FoldStep(what, out, item) ==
  IF what = "bytes" THEN ShiftIn(out, item)
  ELSE IF what = "fields" THEN ReadNext(out, item)
  ELSE Tell(what, out, item)

\* f is the function that a fold defines, up to n.
Folds(f, what, base, items, n) ==
  f = [s \in SUBSET (1..n) |->
         IF s = {} THEN base ELSE FoldStep(what, f[s \ {Max(s)}], items[Max(s)])]

\* The greatest element of a set below n that holds n.
LEMMA GreatestOf ==
  ASSUME NEW n \in Nat, NEW s \in SUBSET (1..n), n \in s
  PROVE  Max(s) = n
<1>1. \A x \in s : n >= x
  OBVIOUS
<1>2. \A x \in s : (\A y \in s : x >= y) => x = n
  BY <1>1
<1>3. Max(s) \in s /\ \A y \in s : Max(s) >= y
  BY <1>1 DEF Max
<1> QED
  BY <1>2, <1>3

\* The recursive function that FoldLeft chooses exists: by the least n for which it would not.
LEMMA FoldExists ==
  ASSUME NEW what, NEW base, NEW items, NEW n \in Nat
  PROVE  \E f : Folds(f, what, base, items, n)
<1> DEFINE T == {k \in Nat : ~\E f : Folds(f, what, base, items, k)}
<1>1. ASSUME NEW k \in T PROVE \E m \in T : m < k
  <2>1. k # 0
    <3> DEFINE f == [s \in SUBSET (1..0) |-> base]
    <3>1. f = [s \in SUBSET (1..0) |->
                 IF s = {} THEN base ELSE FoldStep(what, f[s \ {Max(s)}], items[Max(s)])]
      BY 1..0 = {}
    <3>2. Folds(f, what, base, items, 0)
      BY <3>1 DEF Folds
    <3> QED  BY <3>2
  <2>2. k - 1 \in Nat /\ k - 1 < k /\ 1..k = (1..(k - 1)) \cup {k} /\ k \notin 1..(k - 1)
    BY <2>1
  <2>3. ASSUME NEW f, Folds(f, what, base, items, k - 1) PROVE FALSE
    <3> DEFINE g == [s \in SUBSET (1..k) |->
                       IF k \in s THEN FoldStep(what, f[s \ {k}], items[k]) ELSE f[s]]
    <3>1. ASSUME NEW s \in SUBSET (1..k)
          PROVE  g[s] = IF s = {} THEN base ELSE FoldStep(what, g[s \ {Max(s)}], items[Max(s)])
      <4>1. CASE k \in s
        <5>1. Max(s) = k
          BY <4>1, GreatestOf
        <5>2. g[s \ {k}] = f[s \ {k}] /\ s # {}
          BY <4>1
        <5> HIDE DEF g
        <5>3. g[s] = FoldStep(what, f[s \ {k}], items[k])
          BY <4>1 DEF g
        <5> QED  BY <5>1, <5>2, <5>3
      <4>2. CASE k \notin s
        <5>1. s \in SUBSET (1..(k - 1)) /\ s \ {Max(s)} \in SUBSET (1..k)
              /\ k \notin s \ {Max(s)}
          BY <2>2, <4>2
        <5>2. g[s] = f[s] /\ g[s \ {Max(s)}] = f[s \ {Max(s)}]
          BY <4>2, <5>1
        <5> HIDE DEF g
        <5>3. f[s] = IF s = {} THEN base ELSE FoldStep(what, f[s \ {Max(s)}], items[Max(s)])
          BY <2>3, <5>1 DEF Folds
        <5> QED  BY <5>2, <5>3
      <4> QED  BY <4>1, <4>2
    <3>2. g = [s \in SUBSET (1..k) |-> g[s]]
      OBVIOUS
    <3> HIDE DEF g
    <3>3. Folds(g, what, base, items, k)
      BY <3>1, <3>2 DEF Folds
    <3> QED  BY <3>3
  <2> QED  BY <2>2, <2>3
<1>2. T = {}
  BY <1>1, NoLeastIsEmpty
<1> QED
  BY <1>2

\* It takes the items in their order, one at a time: R[k] is what it has made of k items.
GoesUp(R, what, base, items, n) ==
  /\ R[0] = base
  /\ \A k \in 1..n : R[k] = FoldStep(what, R[k - 1], items[k])

\* A fold from the left takes its items in order.
LEMMA FoldGoesUp ==
  ASSUME NEW f, NEW what, NEW base, NEW items, NEW n \in Nat, Folds(f, what, base, items, n)
  PROVE  GoesUp([k \in 0..n |-> f[1..k]], what, base, items, n)
<1>1. \A s \in SUBSET (1..n) :
        f[s] = IF s = {} THEN base ELSE FoldStep(what, f[s \ {Max(s)}], items[Max(s)])
  BY DEF Folds
<1>2. ASSUME NEW k \in 1..n
      PROVE  f[1..k] = FoldStep(what, f[1..(k - 1)], items[k])
  <2>1. k \in Nat /\ 1..k \in SUBSET (1..n) /\ 1..k \in SUBSET (1..k) /\ k \in 1..k
        /\ (1..k) \ {k} = 1..(k - 1) /\ 1..k # {}
    OBVIOUS
  <2>2. Max(1..k) = k
    BY <2>1, GreatestOf
  <2> QED  BY <1>1, <2>1, <2>2
<1>3. f[1..0] = base
  <2>1. 1..0 = {} /\ {} \in SUBSET (1..n)
    OBVIOUS
  <2> QED  BY <1>1, <2>1
<1> DEFINE R == [k \in 0..n |-> f[1..k]]
<1>4. \A k \in 0..n : R[k] = f[1..k]
  OBVIOUS
<1> HIDE DEF R
<1>5. R[0] = base /\ \A k \in 1..n : R[k] = FoldStep(what, R[k - 1], items[k])
  BY <1>2, <1>3, <1>4
<1> QED
  BY <1>5 DEF GoesUp, R

\* The bytes of a number, the highest first.
Number(items) == FoldLeft(ShiftIn, 0, items)

\* The bytes of a number, from the highest down.
LEMMA FoldBytes ==
  ASSUME NEW items, NEW n \in Nat, Len(items) = n, DOMAIN items = 1..n
  PROVE  \E R : /\ R[0] = 0
                /\ \A k \in 1..n : R[k] = ShiftIn(R[k - 1], items[k])
                /\ Number(items) = R[n]
<1> DEFINE f == CHOOSE f : f = [s \in SUBSET (1..n) |->
             IF s = {} THEN 0 ELSE ShiftIn(f[s \ {Max(s)}], items[Max(s)])]
<1>1. Number(items) = f[1..n]
  BY DEF Number, FoldLeft, MapThenFoldSet
<1>2. \A g : Folds(g, "bytes", 0, items, n) <=>
        g = [s \in SUBSET (1..n) |->
             IF s = {} THEN 0 ELSE ShiftIn(g[s \ {Max(s)}], items[Max(s)])]
  BY DEF Folds, FoldStep
<1>3. Folds(f, "bytes", 0, items, n)
  BY <1>2, FoldExists
<1> HIDE DEF f
<1> DEFINE R == [k \in 0..n |-> f[1..k]]
<1>4. R[n] = f[1..n]
  OBVIOUS
<1>5. GoesUp(R, "bytes", 0, items, n)
  BY <1>3, FoldGoesUp
<1> HIDE DEF R
<1>6. R[0] = 0 /\ \A k \in 1..n : R[k] = ShiftIn(R[k - 1], items[k])
  BY <1>5 DEF GoesUp, FoldStep
<1> QED
  BY <1>1, <1>4, <1>6

\* The fields of a message.
LEMMA FoldFields ==
  ASSUME NEW data, NEW layout, NEW n \in Nat, Len(layout) = n, DOMAIN layout = 1..n
  PROVE  \E R : /\ R[0] = [ok |-> TRUE, fields |-> <<>>, rest |-> data]
                /\ \A k \in 1..n : R[k] = ReadNext(R[k - 1], layout[k])
                /\ ReadFields(layout, data) = R[n]
<1> DEFINE f == CHOOSE f : f = [s \in SUBSET (1..n) |->
             IF s = {} THEN [ok |-> TRUE, fields |-> <<>>, rest |-> data] ELSE ReadNext(f[s \ {Max(s)}], layout[Max(s)])]
<1>1. ReadFields(layout, data) = f[1..n]
  BY DEF ReadFields, FoldLeft, MapThenFoldSet
<1>2. \A g : Folds(g, "fields", [ok |-> TRUE, fields |-> <<>>, rest |-> data], layout, n) <=>
        g = [s \in SUBSET (1..n) |->
             IF s = {} THEN [ok |-> TRUE, fields |-> <<>>, rest |-> data] ELSE ReadNext(g[s \ {Max(s)}], layout[Max(s)])]
  BY DEF Folds, FoldStep
<1>3. Folds(f, "fields", [ok |-> TRUE, fields |-> <<>>, rest |-> data], layout, n)
  BY <1>2, FoldExists
<1> HIDE DEF f
<1> DEFINE R == [k \in 0..n |-> f[1..k]]
<1>4. R[n] = f[1..n]
  OBVIOUS
<1>5. GoesUp(R, "fields", [ok |-> TRUE, fields |-> <<>>, rest |-> data], layout, n)
  BY <1>3, FoldGoesUp
<1> HIDE DEF R
<1>6. R[0] = [ok |-> TRUE, fields |-> <<>>, rest |-> data] /\ \A k \in 1..n : R[k] = ReadNext(R[k - 1], layout[k])
  BY <1>5 DEF GoesUp, FoldStep
<1> QED
  BY <1>1, <1>4, <1>6

\* What the handlers at one end are told of a sequence of frames.
Told(at, frames) == FoldLeft(LAMBDA told, frame : Tell(at, told, frame), <<>>, frames)

\* The frames of a connection.
LEMMA FoldFrames ==
  ASSUME NEW at \in {"server", "client"}, NEW items, NEW n \in Nat, Len(items) = n, DOMAIN items = 1..n
  PROVE  \E R : /\ R[0] = <<>>
                /\ \A k \in 1..n : R[k] = Tell(at, R[k - 1], items[k])
                /\ Told(at, items) = R[n]
<1> DEFINE f == CHOOSE f : f = [s \in SUBSET (1..n) |->
             IF s = {} THEN <<>> ELSE Tell(at, f[s \ {Max(s)}], items[Max(s)])]
<1>1. Told(at, items) = f[1..n]
  BY DEF Told, FoldLeft, MapThenFoldSet
<1>2. \A g : Folds(g, at, <<>>, items, n) <=>
        g = [s \in SUBSET (1..n) |->
             IF s = {} THEN <<>> ELSE Tell(at, g[s \ {Max(s)}], items[Max(s)])]
  BY DEF Folds, FoldStep
<1>3. Folds(f, at, <<>>, items, n)
  BY <1>2, FoldExists
<1> HIDE DEF f
<1> DEFINE R == [k \in 0..n |-> f[1..k]]
<1>4. R[n] = f[1..n]
  OBVIOUS
<1>5. GoesUp(R, at, <<>>, items, n)
  BY <1>3, FoldGoesUp
<1> HIDE DEF R
<1>6. R[0] = <<>> /\ \A k \in 1..n : R[k] = Tell(at, R[k - 1], items[k])
  BY <1>5 DEF GoesUp, FoldStep
<1> QED
  BY <1>1, <1>4, <1>6

-----------------------------------------------------------------------------
(* Writing a number and reading it back. *)

\* A number's bytes, from the lowest up.
LEMMA WrittenBytes ==
  ASSUME NEW v \in Nat, NEW width \in Nat
  PROVE  /\ WriteUnsigned(v, width) \in Seq(Byte)
         /\ Len(WriteUnsigned(v, width)) = width
         /\ \A i \in 1..width : WriteUnsigned(v, width)[i] = ShiftRight(v, i - 1) % Base
<1>1. \A i \in 1..width : i - 1 \in Nat /\ ShiftRight(v, i - 1) \in Nat
  BY ShiftRightNat
<1>2. \A i \in 1..width : ShiftRight(v, i - 1) % Base \in Byte
  BY <1>1, DivMod
<1>3. WriteUnsigned(v, width) \in [1..width -> Byte]
  BY <1>2 DEF WriteUnsigned
<1> QED
  BY <1>3 DEF WriteUnsigned

\* A number that fits its width is read back from the bytes it was written to.
LEMMA NumberReadBack ==
  ASSUME NEW v \in Nat, NEW width \in Nat, ShiftRight(v, width) = 0, NEW data \in Seq(Byte),
         width <= Len(data), SubSeq(data, 1, width) = WriteUnsigned(v, width)
  PROVE  ReadUnsigned(data, width) = v
<1> DEFINE d == WriteUnsigned(v, width)
           r == Reverse(d)
<1>1. Len(d) = width /\ \A i \in 1..width : d[i] = ShiftRight(v, i - 1) % Base
  BY WrittenBytes
<1>2. /\ ReadUnsigned(data, width) = Number(r)
      /\ r = [i \in 1..Len(d) |-> d[(Len(d) - i) + 1]]
  BY DEF ReadUnsigned, Reverse, Number
<1> HIDE DEF d, r
<1>3. /\ Len(r) = width /\ DOMAIN r = 1..width
      /\ \A k \in 1..width : r[k] = ShiftRight(v, width - k) % Base
  <2>1. r = [i \in 1..width |-> d[(width - i) + 1]]
    BY <1>1, <1>2
  <2>2. \A k \in 1..width : /\ (width - k) + 1 \in 1..width
                            /\ ((width - k) + 1) - 1 = width - k
    OBVIOUS
  <2>3. \A k \in 1..width : r[k] = ShiftRight(v, width - k) % Base
    BY <1>1, <2>1, <2>2
  <2> QED  BY <2>1, <2>3
<1>4. PICK R : /\ R[0] = 0 /\ \A k \in 1..width : R[k] = ShiftIn(R[k - 1], r[k])
               /\ Number(r) = R[width]
  BY <1>3, FoldBytes
<1> DEFINE T == {k \in 0..width : R[k] # ShiftRight(v, width - k)}
<1>5. ASSUME NEW k \in T PROVE \E m \in T : m < k
  <2>1. k # 0
    BY <1>4
  <2>2. /\ k \in 1..width /\ k - 1 \in 0..width /\ width - k \in Nat
        /\ width - (k - 1) = (width - k) + 1
    BY <2>1
  <2> DEFINE x == ShiftRight(v, width - k)
  <2>3. x \in Nat /\ ShiftRight(v, width - (k - 1)) = x \div Base
    BY <2>2, ShiftRightNat, ShiftRightIs
  <2>4. R[k] = (Base * R[k - 1]) + (x % Base) /\ R[k] # x
    BY <1>3, <1>4, <2>2 DEF ShiftIn
  <2> HIDE DEF x
  <2>5. x = (Base * (x \div Base)) + (x % Base)
    BY <2>3, DivMod
  <2>6. R[k - 1] # x \div Base
    BY <2>4, <2>5
  <2> QED  BY <2>2, <2>3, <2>6
<1>6. T = {}
  <2>1. T \subseteq Nat
    OBVIOUS
  <2> HIDE DEF T
  <2> QED  BY <1>5, <2>1, NoLeastIsEmpty
<1>7. R[width] = ShiftRight(v, width - width)
  BY <1>6
<1> QED
  BY <1>2, <1>4, <1>7, ShiftRightIs

\* The same in front of other bytes.
LEMMA NumberInFront ==
  ASSUME NEW v \in Nat, NEW width \in Nat, ShiftRight(v, width) = 0, NEW rest \in Seq(Byte)
  PROVE  ReadUnsigned(WriteUnsigned(v, width) \o rest, width) = v
<1> DEFINE d == WriteUnsigned(v, width)
<1>1. d \in Seq(Byte) /\ Len(d) = width
  BY WrittenBytes
<1> HIDE DEF d
<1>2. d \o rest \in Seq(Byte) /\ width <= Len(d \o rest) /\ SubSeq(d \o rest, 1, width) = d
  <2>1. d \o rest \in Seq(Byte) /\ Len(d \o rest) = width + Len(rest) /\ Len(rest) \in Nat
    BY <1>1
  <2>2. \A i \in 1..width : (d \o rest)[i] = d[i]
    BY <1>1
  <2>3. SubSeq(d \o rest, 1, width) = d
    BY <1>1, <2>1, <2>2
  <2> QED  BY <2>1, <2>3
<1> QED
  BY <1>2, NumberReadBack DEF d

-----------------------------------------------------------------------------
(* Fields. *)

\* The kinds of fields.
Numbers == {"u8", "u16", "u32", "u64"}
Kinds == {"flag", "bool", "string"} \cup Numbers

\* What encode can write.
Writable(kind, value) ==
  CanHold(kind, value) /\ (kind = "string" => Len(value) <= kMaxStringBytes)

\* A field is read back from the front of what was written.
ReadsBack(kind, value, w) ==
  /\ w \in Seq(Byte) /\ Len(w) >= 1
  /\ \A rest \in Seq(Byte) :
       /\ CanRead(kind, w \o rest)
       /\ ReadValue(kind, w \o rest) = value
       /\ ReadBytes(kind, w \o rest) = Len(w)
  /\ ~CanRead(kind, Front(w))

\* Concatenation, byte by byte.
LEMMA InFront ==
  \A S : \A w, rest \in Seq(S) :
    /\ w \o rest \in Seq(S) /\ Len(w \o rest) = Len(w) + Len(rest)
    /\ Len(w) \in Nat /\ Len(rest) \in Nat
    /\ SubSeq(w \o rest, 1, Len(w)) = w
    /\ SubSeq(w \o rest, Len(w) + 1, Len(w \o rest)) = rest
    /\ \A i \in 1..Len(w) : (w \o rest)[i] = w[i]
<1> TAKE S
<1> TAKE w, rest \in Seq(S)
<1>1. w \o rest \in Seq(S) /\ Len(w \o rest) = Len(w) + Len(rest)
      /\ Len(w) \in Nat /\ Len(rest) \in Nat
  OBVIOUS
<1>2. \A i \in 1..Len(w) : (w \o rest)[i] = w[i]
  OBVIOUS
<1>3. SubSeq(w \o rest, 1, Len(w)) = w
  BY <1>1, <1>2
<1>4. SubSeq(w \o rest, Len(w) + 1, Len(w \o rest)) = rest
  <2> DEFINE r == SubSeq(w \o rest, Len(w) + 1, Len(w \o rest))
  <2>1. r \in Seq(S) /\ Len(r) = Len(rest)
    BY <1>1
  <2>2. \A i \in 1..Len(rest) : r[i] = rest[i]
    BY <1>1
  <2> HIDE DEF r
  <2>3. r = rest
    BY <2>1, <2>2, SeqEqual
  <2> QED  BY <2>3 DEF r
<1> QED
  BY <1>1, <1>2, <1>3, <1>4

\* All but the last byte.
LEMMA FrontIs ==
  ASSUME NEW S, NEW w \in Seq(S), Len(w) >= 1
  PROVE  /\ Front(w) \in Seq(S) /\ Len(Front(w)) = Len(w) - 1
         /\ \A i \in 1..(Len(w) - 1) : Front(w)[i] = w[i]
<1>1. Front(w) = SubSeq(w, 1, Len(w) - 1)
  BY DEF Front
<1> DEFINE n == Len(w) - 1
<1>2. n \in Nat /\ n <= Len(w) /\ Len(w) \in Nat
  OBVIOUS
<1> HIDE DEF n
<1>3. /\ SubSeq(w, 1, n) \in Seq(S) /\ Len(SubSeq(w, 1, n)) = n
      /\ \A i \in 1..n : SubSeq(w, 1, n)[i] = w[i]
  BY <1>2
<1> QED
  BY <1>1, <1>3 DEF n

\* A bool is read back,
LEMMA FlagReadsBack ==
  ASSUME NEW kind \in {"flag", "bool"}, NEW value \in BOOLEAN
  PROVE  ReadsBack(kind, value, WriteField(kind, value))
<1> DEFINE b == IF value THEN 1 ELSE 0
           w == <<b>>
<1>1. b \in Byte /\ b \in {0, 1} /\ (b # 0) = value
  BY CodecAssumption DEF Byte
<1>2. WriteField(kind, value) = w
  BY DEF WriteField
<1> HIDE DEF b
<1>3. w \in Seq(Byte) /\ Len(w) = 1 /\ Front(w) = <<>>
  BY <1>1 DEF Front
<1>4. ASSUME NEW rest \in Seq(Byte)
      PROVE  /\ CanRead(kind, w \o rest) /\ ReadValue(kind, w \o rest) = value
             /\ ReadBytes(kind, w \o rest) = Len(w)
  <2>1. w \o rest # <<>> /\ (w \o rest)[1] = b
    BY <1>3
  <2> HIDE DEF w
  <2>2. CanRead(kind, w \o rest)
    BY <1>1, <2>1 DEF CanRead
  <2>3. ReadValue(kind, w \o rest) = value
    BY <1>1, <2>1 DEF ReadValue
  <2>4. ReadBytes(kind, w \o rest) = 1
    BY DEF ReadBytes
  <2> QED  BY <1>3, <2>2, <2>3, <2>4
<1>5. ~CanRead(kind, <<>>)
  BY DEF CanRead
<1> HIDE DEF w
<1> QED
  BY <1>2, <1>3, <1>4, <1>5 DEF ReadsBack

\* a number is,
LEMMA NumberReadsBack ==
  ASSUME NEW kind \in Numbers, NEW value \in Nat, ShiftRight(value, Width[kind]) = 0
  PROVE  ReadsBack(kind, value, WriteField(kind, value))
<1> DEFINE n == Width[kind]
           w == WriteUnsigned(value, n)
<1>1. n \in Nat /\ n >= 1
  BY DEF Width, Numbers
<1>2. WriteField(kind, value) = w
  BY DEF WriteField, Numbers
<1>6. w \in Seq(Byte) /\ Len(w) = n
  BY <1>1, WrittenBytes
<1>7. ASSUME NEW data
      PROVE  /\ CanRead(kind, data) <=> Len(data) >= n
             /\ ReadValue(kind, data) = ReadUnsigned(data, n)
             /\ ReadBytes(kind, data) = n
  BY DEF CanRead, ReadValue, ReadBytes, Numbers
<1>8. \A rest \in Seq(Byte) : ReadUnsigned(w \o rest, n) = value
  <2>1. ShiftRight(value, n) = 0
    OBVIOUS
  <2> HIDE DEF n
  <2> QED  BY <1>1, <2>1, NumberInFront
<1>9. Front(w) \in Seq(Byte) /\ Len(Front(w)) = n - 1
  <2> HIDE DEF w, n
  <2> QED  BY <1>1, <1>6, FrontIs
<1> HIDE DEF n, w
<1>10. \A rest \in Seq(Byte) : Len(w \o rest) >= n
  BY <1>1, <1>6
<1>11. \A rest \in Seq(Byte) : /\ CanRead(kind, w \o rest)
                               /\ ReadValue(kind, w \o rest) = value
                               /\ ReadBytes(kind, w \o rest) = Len(w)
  BY <1>6, <1>7, <1>8, <1>10
<1>12. ~CanRead(kind, Front(w))
  <2> DEFINE f == Front(w)
  <2>1. Len(f) = n - 1
    BY <1>9
  <2> HIDE DEF f
  <2>2. ~CanRead(kind, f)
    BY <1>1, <1>7, <2>1
  <2> QED  BY <2>2 DEF f
<1> QED
  BY <1>1, <1>2, <1>6, <1>11, <1>12 DEF ReadsBack

\* What it takes to write and to read a string.
LEMMA StringRules ==
  ASSUME NEW data
  PROVE  /\ CanRead("string", data) <=> /\ Len(data) >= 4
                                        /\ ReadUnsigned(data, 4) <= kMaxStringBytes
                                        /\ ReadUnsigned(data, 4) <= Len(data) - 4
         /\ ReadBytes("string", data) = 4 + ReadUnsigned(data, 4)
         /\ ReadValue("string", data) = SubSeq(data, 5, 4 + ReadUnsigned(data, 4))
<1>1. Width["u32"] = 4
  BY DEF Width
<1>2. 4 + 1 = 5
  OBVIOUS
<1> QED
  BY <1>1, <1>2 DEF CanRead, ReadBytes, ReadValue

\* and a string is.
LEMMA StringReadsBack ==
  ASSUME NEW value \in Seq(Byte), Len(value) <= kMaxStringBytes
  PROVE  ReadsBack("string", value, WriteField("string", value))
<1> DEFINE d == WriteUnsigned(Len(value), 4)
           w == d \o value
<1>1. WriteField("string", value) = w
  BY DEF WriteField, Width
<1>2. Len(value) \in Nat /\ ShiftRight(Len(value), 4) = 0
  <2>1. ShiftRight(kMaxStringBytes, 4) = 0
    BY WireAssumption DEF Width
  <2>2. Len(value) \in Nat /\ kMaxStringBytes \in Nat
    BY CodecAssumption
  <2> QED  BY <2>1, <2>2, SmallerFits
<1>3. d \in Seq(Byte) /\ Len(d) = 4
  BY <1>2, WrittenBytes
<1>4. \A rest \in Seq(Byte) : ReadUnsigned(d \o rest, 4) = Len(value)
  BY <1>2, NumberInFront
<1> HIDE DEF d
<1>5. w \in Seq(Byte) /\ Len(w) = 4 + Len(value)
  <2>1. w \in Seq(Byte) /\ Len(w) = Len(d) + Len(value)
    BY <1>3, InFront
  <2> QED  BY <1>3, <2>1
<1>7. ASSUME NEW rest \in Seq(Byte)
      PROVE  /\ CanRead("string", w \o rest) /\ ReadValue("string", w \o rest) = value
             /\ ReadBytes("string", w \o rest) = Len(w)
  <2> DEFINE more == value \o rest
  <2>1. w \o rest = d \o more /\ more \in Seq(Byte) /\ Len(more) = Len(value) + Len(rest)
        /\ Len(rest) \in Nat /\ \A i \in 1..Len(value) : more[i] = value[i]
    BY <1>3
  <2> DEFINE data == d \o more
  <2>2. ReadUnsigned(data, 4) = Len(value)
    BY <1>4, <2>1
  <2>3. Len(data) = 4 + Len(value) + Len(rest)
    <3> HIDE DEF more
    <3>1. Len(data) = Len(d) + Len(more)
      BY <1>3, <2>1, InFront
    <3> QED  BY <1>2, <1>3, <2>1, <3>1
  <2>4. SubSeq(data, 5, 4 + Len(value)) = value
    <3> DEFINE r == SubSeq(data, 5, 4 + Len(value))
    <3>1. r \in Seq(Byte) /\ Len(r) = Len(value)
      BY <1>2, <1>3, <2>1, <2>3
    <3>2. \A i \in 1..Len(value) : r[i] = value[i]
      BY <1>2, <1>3, <2>1, <2>3
    <3> HIDE DEF r
    <3>3. r = value
      BY <3>1, <3>2, SeqEqual
    <3> QED  BY <3>3 DEF r
  <2> HIDE DEF data, more, w
  <2>5. CanRead("string", data) /\ ReadValue("string", data) = value
        /\ ReadBytes("string", data) = 4 + Len(value)
    <3>1. /\ Len(data) >= 4 /\ Len(value) <= Len(data) - 4
      BY <1>2, <2>1, <2>3
    <3> QED  BY <2>2, <2>4, <3>1, StringRules
  <2> QED  BY <1>5, <2>1, <2>5 DEF data
<1>8. ~CanRead("string", Front(w))
  <2> DEFINE f == Front(w)
  <2>1. f \in Seq(Byte) /\ Len(f) = 4 + Len(value) - 1 /\ \A i \in 1..(4 + Len(value) - 1) : f[i] = w[i]
    <3> HIDE DEF w
    <3> QED  BY <1>2, <1>5, FrontIs
  <2> HIDE DEF f
  <2>2. ASSUME Len(value) = 0 PROVE ~CanRead("string", f)
    <3>1. ~(Len(f) >= 4)
      BY <2>1, <2>2
    <3> QED  BY <3>1, StringRules
  <2>3. ASSUME Len(value) > 0 PROVE ~CanRead("string", f)
    <3>1. SubSeq(f, 1, 4) = d
      <4>1. SubSeq(f, 1, 4) \in Seq(Byte) /\ Len(SubSeq(f, 1, 4)) = 4
        BY <1>2, <2>1, <2>3
      <4>2. \A i \in 1..4 : SubSeq(f, 1, 4)[i] = d[i]
        <5>3. \A i \in 1..4 : w[i] = d[i]
          <6>1. \A i \in 1..Len(d) : w[i] = d[i]
            BY <1>3, InFront
          <6> HIDE DEF w
          <6> QED  BY <1>3, <6>1
        <5>4. \A i \in 1..4 : i \in 1..(4 + Len(value) - 1)
          BY <1>2, <2>3
        <5>1. \A i \in 1..4 : f[i] = w[i] /\ w[i] = d[i]
          <6> HIDE DEF w
          <6> QED  BY <2>1, <5>3, <5>4
        <5>2. \A i \in 1..4 : SubSeq(f, 1, 4)[i] = f[i]
          BY <1>2, <2>1, <2>3
        <5> HIDE DEF w
        <5> QED  BY <5>1, <5>2
      <4> HIDE DEF w
      <4> QED  BY <1>3, <4>1, <4>2, SeqEqual
    <3>2. ReadUnsigned(f, 4) = Len(value)
      <4>1. 4 \in Nat /\ 4 <= Len(f)
        BY <1>2, <2>1, <2>3
      <4>2. SubSeq(f, 1, 4) = WriteUnsigned(Len(value), 4)
        BY <3>1 DEF d
      <4> QED  BY <1>2, <2>1, <4>1, <4>2, NumberReadBack
    <3>3. ~(Len(value) <= Len(f) - 4)
      BY <1>2, <2>1
    <3> QED  BY <3>2, <3>3, StringRules
  <2>4. ~CanRead("string", f)
    <3>1. Len(value) = 0 \/ Len(value) > 0
      BY <1>2
    <3> QED  BY <2>2, <2>3, <3>1
  <2> QED  BY <2>4 DEF f
<1> HIDE DEF w
<1> QED
  BY <1>1, <1>2, <1>5, <1>7, <1>8 DEF ReadsBack

\* Every field of a message is read back.
LEMMA FieldReadsBack ==
  ASSUME NEW kind \in Kinds, NEW value, Writable(kind, value)
  PROVE  ReadsBack(kind, value, WriteField(kind, value))
<1>1. CASE kind \in {"flag", "bool"}
  <2>1. value \in BOOLEAN
    BY <1>1 DEF Writable, CanHold
  <2> QED  BY <1>1, <2>1, FlagReadsBack
<1>2. CASE kind = "string"
  <2>1. value \in Seq(Byte) /\ Len(value) <= kMaxStringBytes
    BY <1>2 DEF Writable, CanHold
  <2> QED  BY <1>2, <2>1, StringReadsBack
<1>3. CASE kind \in Numbers
  <2>1. value \in Nat /\ ShiftRight(value, Width[kind]) = 0
    BY <1>3 DEF Writable, CanHold, Numbers
  <2> QED  BY <1>3, <2>1, NumberReadsBack
<1> QED
  BY <1>1, <1>2, <1>3 DEF Kinds

-----------------------------------------------------------------------------
(* Sequences put one after the other. *)

\* ConcatAssociative, for terms.
LEMMA Regroup ==
  \A S : \A a, b, c \in Seq(S) : (a \o b) \o c = a \o (b \o c)
BY ConcatAssociative

\* g is the function that FlattenSeq defines, up to n.
Flattens(g, seqs, n) ==
  g = [i \in 1..n |-> IF i = 1 THEN seqs[i] ELSE g[i - 1] \o seqs[i]]

\* And this is it.
Flattening(seqs) == CHOOSE g : Flattens(g, seqs, Len(seqs))

\* There is one.
LEMMA FlatteningExists ==
  ASSUME NEW seqs, NEW n \in Nat
  PROVE  \E g : Flattens(g, seqs, n)
<1> DEFINE T == {k \in Nat : ~\E g : Flattens(g, seqs, k)}
<1>1. ASSUME NEW k \in T PROVE \E m \in T : m < k
  <2>1. k # 0
    <3>1. Flattens([i \in 1..0 |-> 0], seqs, 0)
      BY DEF Flattens
    <3> QED  BY <3>1
  <2>2. k - 1 \in Nat /\ k - 1 < k
    BY <2>1
  <2>3. ASSUME NEW g, Flattens(g, seqs, k - 1) PROVE FALSE
    <3> DEFINE last == IF k = 1 THEN seqs[k] ELSE g[k - 1] \o seqs[k]
               h == [i \in 1..k |-> IF i = k THEN last ELSE g[i]]
    <3>1. \A i \in 1..(k - 1) : g[i] = IF i = 1 THEN seqs[i] ELSE g[i - 1] \o seqs[i]
      BY <2>3 DEF Flattens
    <3>2. \A i \in 1..k : h[i] = IF i = 1 THEN seqs[i] ELSE h[i - 1] \o seqs[i]
      BY <2>2, <3>1
    <3>3. Flattens(h, seqs, k)
      BY <3>2 DEF Flattens
    <3> QED  BY <3>3
  <2> QED  BY <2>2, <2>3
<1>2. T = {}
  BY <1>1, NoLeastIsEmpty
<1> QED
  BY <1>2

\* E[k] is the first k sequences, one after the other.
Joins(E, S, seqs, n) ==
  /\ E[0] = <<>>
  /\ \A k \in 0..n : E[k] \in Seq(S)
  /\ \A k \in 1..n : E[k] = E[k - 1] \o seqs[k]

\* FlattenSeq joins a sequence of sequences.
LEMMA FlattenJoins ==
  ASSUME NEW S, NEW seqs \in Seq(Seq(S))
  PROVE  \E E : Joins(E, S, seqs, Len(seqs)) /\ FlattenSeq(seqs) = E[Len(seqs)]
<1> DEFINE n == Len(seqs)
           g == Flattening(seqs)
           E == [k \in 0..n |-> IF k = 0 THEN <<>> ELSE g[k]]
<1>0. n \in Nat /\ \A i \in 1..n : seqs[i] \in Seq(S)
  OBVIOUS
<1>1. FlattenSeq(seqs) = IF n = 0 THEN seqs ELSE g[n]
  BY DEF FlattenSeq, Flattening, Flattens
<1>2. Flattens(g, seqs, n)
  BY <1>0, FlatteningExists DEF Flattening
<1> HIDE DEF g
<1>3. \A i \in 1..n : g[i] = IF i = 1 THEN seqs[i] ELSE g[i - 1] \o seqs[i]
  BY <1>2 DEF Flattens
<1>5. E[0] = <<>> /\ FlattenSeq(seqs) = E[n]
  <2>1. n = 0 => seqs = <<>>
    OBVIOUS
  <2> QED  BY <1>0, <1>1, <2>1
<1>10. \A k \in 1..n : E[k] = g[k]
  BY <1>0
<1> HIDE DEF E, n
<1>4. ASSUME NEW k \in 1..n PROVE E[k] = E[k - 1] \o seqs[k]
  <2>1. E[k] = g[k] /\ g[k] = IF k = 1 THEN seqs[k] ELSE g[k - 1] \o seqs[k]
    BY <1>3, <1>10
  <2>2. ASSUME k = 1 PROVE E[k] = E[k - 1] \o seqs[k]
    <3>1. <<>> \o seqs[k] = seqs[k]
      BY <1>0
    <3>2. E[k - 1] = <<>>
      BY <1>5, <2>2
    <3> QED  BY <2>1, <2>2, <3>1, <3>2
  <2>3. ASSUME k # 1 PROVE E[k] = E[k - 1] \o seqs[k]
    <3>1. k - 1 \in 1..n
      BY <1>0, <2>3
    <3>2. E[k - 1] = g[k - 1]
      BY <1>10, <3>1
    <3> QED  BY <2>1, <2>3, <3>2
  <2> QED  BY <2>2, <2>3
<1> DEFINE T == {k \in 0..n : E[k] \notin Seq(S)}
<1>6. ASSUME NEW k \in T PROVE \E m \in T : m < k
  <2>1. k # 0
    <3>1. E[0] \in Seq(S)
      BY <1>5
    <3> QED  BY <3>1
  <2>2. k \in 1..n /\ k - 1 \in 0..n
    BY <1>0, <2>1
  <2>3. E[k - 1] \notin Seq(S)
    <3>1. E[k] = E[k - 1] \o seqs[k] /\ seqs[k] \in Seq(S) /\ E[k] \notin Seq(S)
      BY <1>0, <1>4, <2>2
    <3>2. ASSUME E[k - 1] \in Seq(S) PROVE FALSE
      <4>1. E[k - 1] \o seqs[k] \in Seq(S)
        BY <3>1, <3>2
      <4> QED  BY <3>1, <4>1
    <3> QED  BY <3>2
  <2> QED  BY <2>2, <2>3
<1>7. T \subseteq Nat
  BY <1>0
<1>8. T = {}
  <2> HIDE DEF T
  <2> QED  BY <1>6, <1>7, NoLeastIsEmpty
<1>9. Joins(E, S, seqs, n)
  BY <1>4, <1>5, <1>8 DEF Joins
<1> QED
  BY <1>5, <1>9 DEF n

\* There is one way to join.
LEMMA JoinsAgree ==
  ASSUME NEW E, NEW F, NEW S, NEW s, NEW t, NEW n \in Nat, Joins(E, S, s, n), Joins(F, S, t, n),
         \A i \in 1..n : s[i] = t[i]
  PROVE  \A k \in 0..n : E[k] = F[k]
<1> DEFINE T == {k \in 0..n : E[k] # F[k]}
<1>1. /\ E[0] = <<>> /\ F[0] = <<>>
      /\ \A k \in 1..n : E[k] = E[k - 1] \o s[k]
      /\ \A k \in 1..n : F[k] = F[k - 1] \o t[k]
  BY DEF Joins
<1>2. ASSUME NEW k \in T PROVE \E m \in T : m < k
  <2>1. k # 0
    BY <1>1
  <2>2. k \in 1..n /\ k - 1 \in 0..n
    BY <2>1
  <2>3. E[k - 1] # F[k - 1]
    BY <1>1, <2>2
  <2> QED  BY <2>2, <2>3
<1>3. T \subseteq Nat
  OBVIOUS
<1>4. T = {}
  <2> HIDE DEF T
  <2> QED  BY <1>2, <1>3, NoLeastIsEmpty
<1> QED
  BY <1>4

\* One sequence more.
LEMMA FlattenAppend ==
  ASSUME NEW S, NEW seqs \in Seq(Seq(S)), NEW seq \in Seq(S)
  PROVE  FlattenSeq(Append(seqs, seq)) = FlattenSeq(seqs) \o seq
<1> DEFINE n == Len(seqs)
           more == Append(seqs, seq)
<1>1. /\ n \in Nat /\ more \in Seq(Seq(S)) /\ Len(more) = n + 1 /\ more[n + 1] = seq
      /\ \A i \in 1..n : more[i] = seqs[i]
  OBVIOUS
<1>2. PICK E : Joins(E, S, seqs, n) /\ FlattenSeq(seqs) = E[n]
  BY FlattenJoins
<1> HIDE DEF more, n
<1>3. PICK F : Joins(F, S, more, n + 1) /\ FlattenSeq(more) = F[n + 1]
  <2>1. \E F : Joins(F, S, more, Len(more)) /\ FlattenSeq(more) = F[Len(more)]
    BY <1>1, FlattenJoins
  <2> QED  BY <1>1, <2>1
<1>4. Joins(F, S, more, n)
  <2>1. \A k \in 0..n : k \in 0..(n + 1)
    BY <1>1
  <2>2. \A k \in 1..n : k \in 1..(n + 1)
    BY <1>1
  <2> QED  BY <1>3, <2>1, <2>2 DEF Joins
<1>5. F[n] = E[n]
  BY <1>1, <1>2, <1>4, JoinsAgree
<1>6. F[n + 1] = F[n] \o seq
  <2>1. n + 1 \in 1..(n + 1) /\ (n + 1) - 1 = n
    BY <1>1
  <2> QED  BY <1>1, <1>3, <2>1 DEF Joins
<1>7. FlattenSeq(more) = FlattenSeq(seqs) \o seq
  BY <1>2, <1>3, <1>5, <1>6
<1> QED
  BY <1>7 DEF more

\* Nothing is joined to nothing.
LEMMA FlattenNone == FlattenSeq(<<>>) = <<>>
BY DEF FlattenSeq

\* What is joined is of the items of its parts.
LEMMA FlattenTyped ==
  ASSUME NEW S, NEW seqs \in Seq(Seq(S))
  PROVE  FlattenSeq(seqs) \in Seq(S)
<1>1. PICK E : Joins(E, S, seqs, Len(seqs)) /\ FlattenSeq(seqs) = E[Len(seqs)]
  BY FlattenJoins
<1> QED
  BY <1>1 DEF Joins

\* Every part is the beginning of the whole.
LEMMA JoinsBegin ==
  \A E, S, seqs : \A n \in Nat :
    Joins(E, S, seqs, n) /\ (\A i \in 1..n : seqs[i] \in Seq(S)) =>
      \A k \in 0..n : \E rest \in Seq(S) : E[n] = E[k] \o rest
<1> SUFFICES
      ASSUME NEW E, NEW S, NEW seqs, NEW n \in Nat, Joins(E, S, seqs, n),
             \A i \in 1..n : seqs[i] \in Seq(S), NEW k \in 0..n
      PROVE  \E rest \in Seq(S) : E[n] = E[k] \o rest
  OBVIOUS
<1> DEFINE T == {m \in Nat : m <= n - k /\ ~\E rest \in Seq(S) : E[k + m] = E[k] \o rest}
<1>0. /\ \A i \in 0..n : E[i] \in Seq(S)
      /\ \A i \in 1..n : E[i] = E[i - 1] \o seqs[i]
  BY DEF Joins
<1>1. ASSUME NEW m \in T PROVE \E j \in T : j < m
  <2>1. m # 0
    <3>1. E[k] \in Seq(S) /\ k + 0 = k
      BY <1>0
    <3>2. E[k] = E[k] \o <<>> /\ <<>> \in Seq(S)
      BY <3>1
    <3>3. E[k + 0] = E[k] \o <<>>
      BY <3>1, <3>2
    <3>4. ASSUME m = 0 PROVE FALSE
      BY <3>2, <3>3, <3>4
    <3> QED  BY <3>4
  <2>2. m - 1 \in Nat /\ k + m \in 1..n /\ (k + m) - 1 = k + (m - 1) /\ m - 1 <= n - k
    BY <2>1
  <2>3. ASSUME NEW rest \in Seq(S), E[k + (m - 1)] = E[k] \o rest PROVE FALSE
    <3>1. E[k + m] = (E[k] \o rest) \o seqs[k + m]
      BY <1>0, <2>2, <2>3
    <3>2. seqs[k + m] \in Seq(S) /\ E[k] \in Seq(S)
      BY <1>0, <2>2
    <3>3. (E[k] \o rest) \o seqs[k + m] = E[k] \o (rest \o seqs[k + m])
      <4> DEFINE a == E[k]
                 c == seqs[k + m]
      <4>1. a \in Seq(S) /\ c \in Seq(S)
        BY <3>2
      <4> HIDE DEF a, c
      <4>2. (a \o rest) \o c = a \o (rest \o c)
        BY <4>1, ConcatAssociative
      <4> QED  BY <4>2 DEF a, c
    <3>4. rest \o seqs[k + m] \in Seq(S)
      BY <2>3, <3>2
    <3>5. E[k + m] = E[k] \o (rest \o seqs[k + m])
      BY <3>1, <3>3
    <3> QED  BY <3>4, <3>5
  <2>4. m - 1 \in T
    BY <2>2, <2>3
  <2>5. m - 1 < m
    BY <2>2
  <2> QED  BY <2>4, <2>5
<1>2. T \subseteq Nat
  OBVIOUS
<1>3. T = {}
  <2> HIDE DEF T
  <2> QED  BY <1>1, <1>2, NoLeastIsEmpty
<1>4. n - k \in Nat /\ n - k <= n - k /\ k + (n - k) = n
  OBVIOUS
<1>5. n - k \notin T
  BY <1>3
<1>6. \E rest \in Seq(S) : E[k + (n - k)] = E[k] \o rest
  BY <1>4, <1>5
<1> QED
  BY <1>4, <1>6

-----------------------------------------------------------------------------
(* Messages. *)

\* The last byte of two sequences is the second one's.
LEMMA FrontOfBoth ==
  ASSUME NEW S, NEW a \in Seq(S), NEW w \in Seq(S), Len(w) >= 1
  PROVE  Front(w) \in Seq(S) /\ Front(a \o w) = a \o Front(w)
<1> DEFINE short == Front(w)
           whole == a \o w
           f == Front(whole)
           g == a \o short
<1>1. Len(a) \in Nat /\ Len(w) \in Nat
  OBVIOUS
<1>2. /\ short \in Seq(S) /\ Len(short) = Len(w) - 1
      /\ \A i \in 1..(Len(w) - 1) : short[i] = w[i]
  BY FrontIs
<1>3. /\ whole \in Seq(S) /\ Len(whole) = Len(a) + Len(w)
      /\ \A i \in 1..Len(a) : whole[i] = a[i]
      /\ \A i \in (Len(a) + 1)..(Len(a) + Len(w)) : whole[i] = w[i - Len(a)]
  OBVIOUS
<1> HIDE DEF short, whole
<1>4. /\ f \in Seq(S) /\ Len(f) = Len(whole) - 1
      /\ \A i \in 1..(Len(whole) - 1) : f[i] = whole[i]
  <2>1. Len(whole) >= 1
    BY <1>1, <1>3
  <2> QED  BY <1>3, <2>1, FrontIs
<1>5. /\ g \in Seq(S) /\ Len(g) = Len(a) + Len(short)
      /\ \A i \in 1..Len(a) : g[i] = a[i]
      /\ \A i \in (Len(a) + 1)..(Len(a) + Len(short)) : g[i] = short[i - Len(a)]
  BY <1>2
<1> HIDE DEF f, g
<1>6. ASSUME NEW i \in 1..Len(f) PROVE f[i] = g[i]
  <2>1. i \in Nat /\ i >= 1 /\ i <= Len(a) + Len(w) - 1 /\ f[i] = whole[i]
    BY <1>1, <1>3, <1>4
  <2>2. ASSUME i <= Len(a) PROVE f[i] = g[i]
    <3>1. i \in 1..Len(a)
      BY <1>1, <2>1, <2>2
    <3> QED  BY <1>3, <1>5, <2>1, <3>1
  <2>3. ASSUME i > Len(a) PROVE f[i] = g[i]
    <3>1. /\ i \in (Len(a) + 1)..(Len(a) + Len(w))
          /\ i \in (Len(a) + 1)..(Len(a) + Len(short))
          /\ i - Len(a) \in 1..(Len(w) - 1)
      BY <1>1, <1>2, <2>1, <2>3
    <3>2. short[i - Len(a)] = w[i - Len(a)]
      BY <1>2, <3>1
    <3> QED  BY <1>3, <1>5, <2>1, <3>1, <3>2
  <2> QED  BY <1>1, <2>1, <2>2, <2>3
<1>7. Len(f) = Len(g)
  BY <1>1, <1>2, <1>3, <1>4, <1>5
<1>8. f = g
  BY <1>4, <1>5, <1>6, <1>7, SeqEqual
<1> QED
  BY <1>2, <1>8 DEF f, g, short, whole

\* The fields of a message and what they are written as.
Written(layout, fields, n, E) ==
  /\ n \in Nat /\ Len(layout) = n /\ DOMAIN layout = 1..n
  /\ \A i \in 1..n : layout[i] \in Kinds /\ Writable(layout[i], fields[i])
  /\ Joins(E, Byte, [i \in 1..n |-> WriteField(layout[i], fields[i])], n)

\* The first fields of a message.
FirstFields(fields, k) == [i \in 1..k |-> fields[i]]

\* One field more.
LEMMA FieldsGrow ==
  ASSUME NEW fields, NEW k \in Nat
  PROVE  Append(FirstFields(fields, k), fields[k + 1]) = FirstFields(fields, k + 1)
<1> DEFINE V == {fields[i] : i \in 1..(k + 1)}
           f == FirstFields(fields, k)
           g == FirstFields(fields, k + 1)
<1>1. f \in [1..k -> V] /\ g \in [1..(k + 1) -> V] /\ fields[k + 1] \in V
  BY DEF FirstFields
<1>2. /\ \A i \in 1..k : f[i] = fields[i]
      /\ \A i \in 1..(k + 1) : g[i] = fields[i]
  BY DEF FirstFields
<1> HIDE DEF V, f, g
<1>3. f \in Seq(V) /\ Len(f) = k /\ g \in Seq(V) /\ Len(g) = k + 1
  BY <1>1
<1>4. /\ Append(f, fields[k + 1]) \in Seq(V) /\ Len(Append(f, fields[k + 1])) = k + 1
      /\ \A i \in 1..k : Append(f, fields[k + 1])[i] = f[i]
      /\ Append(f, fields[k + 1])[k + 1] = fields[k + 1]
  BY <1>1, <1>3
<1>5. \A i \in 1..(k + 1) : Append(f, fields[k + 1])[i] = g[i]
  BY <1>2, <1>4
<1>6. Append(f, fields[k + 1]) = g
  BY <1>3, <1>4, <1>5, SeqEqual
<1> QED
  BY <1>6 DEF f, g

\* What reading has come to.
SoFar(fields, k, rest) == [ok |-> TRUE, fields |-> FirstFields(fields, k), rest |-> rest]

\* A field is read and the next is in front.
LEMMA NextIsRead ==
  ASSUME NEW kind \in Kinds, NEW fields, NEW k \in Nat, Writable(kind, fields[k + 1]),
         NEW rest \in Seq(Byte)
  PROVE  LET w == WriteField(kind, fields[k + 1]) IN
         ReadNext(SoFar(fields, k, w \o rest), kind) = SoFar(fields, k + 1, rest)
<1> DEFINE w == WriteField(kind, fields[k + 1])
           data == w \o rest
           R == SoFar(fields, k, data)
<1>1. ReadsBack(kind, fields[k + 1], w)
  BY FieldReadsBack
<1> HIDE DEF w
<1>2. /\ w \in Seq(Byte) /\ CanRead(kind, data) /\ ReadValue(kind, data) = fields[k + 1]
      /\ ReadBytes(kind, data) = Len(w)
  BY <1>1 DEF ReadsBack
<1>3. SubSeq(data, Len(w) + 1, Len(data)) = rest
  BY <1>2, InFront
<1> HIDE DEF data
<1>4. R.ok = TRUE /\ R.fields = FirstFields(fields, k) /\ R.rest = data
  BY DEF SoFar
<1> HIDE DEF R
<1>5. ReadNext(R, kind) = [ok |-> TRUE, fields |-> Append(FirstFields(fields, k), fields[k + 1]),
                           rest |-> SubSeq(data, Len(w) + 1, Len(data))]
  BY <1>2, <1>4 DEF ReadNext
<1> QED
  BY <1>3, <1>5, FieldsGrow DEF SoFar, R, data, w

\* What reading one field after the other comes to.
Reads(R, layout, data, n) ==
  /\ R[0] = [ok |-> TRUE, fields |-> <<>>, rest |-> data]
  /\ \A k \in 1..n : R[k] = ReadNext(R[k - 1], layout[k])

\* The fields of a layout are read one after the other.
LEMMA ReadsExist ==
  ASSUME NEW layout, NEW data, NEW n \in Nat, Len(layout) = n, DOMAIN layout = 1..n
  PROVE  \E R : Reads(R, layout, data, n) /\ ReadFields(layout, data) = R[n]
BY FoldFields DEF Reads

\* Reading as far as the written fields go.
LEMMA FieldsAreRead ==
  \A layout, fields, E, R : \A n \in Nat :
    Written(layout, fields, n, E) =>
      \A m \in 0..n : \A rest \in Seq(Byte) :
        Reads(R, layout, E[m] \o rest, n) => R[m] = SoFar(fields, m, rest)
<1> SUFFICES
      ASSUME NEW layout, NEW fields, NEW E, NEW R, NEW n \in Nat, Written(layout, fields, n, E),
             NEW m \in 0..n, NEW rest \in Seq(Byte), Reads(R, layout, E[m] \o rest, n)
      PROVE  R[m] = SoFar(fields, m, rest)
  OBVIOUS
<1> DEFINE data == E[m] \o rest
<1>00. /\ R[0] = [ok |-> TRUE, fields |-> <<>>, rest |-> data]
       /\ \A k \in 1..n : R[k] = ReadNext(R[k - 1], layout[k])
       /\ data = E[m] \o rest
  BY DEF Reads
<1> HIDE DEF data
<1> DEFINE T == {k \in 0..n : \E x \in Seq(Byte) : data = E[k] \o x /\ R[k] # SoFar(fields, k, x)}
<1>0. /\ n \in Nat /\ \A i \in 1..n : layout[i] \in Kinds /\ Writable(layout[i], fields[i])
      /\ E[0] = <<>> /\ \A k \in 0..n : E[k] \in Seq(Byte)
      /\ \A k \in 1..n : E[k] = E[k - 1] \o WriteField(layout[k], fields[k])
  <2>1. \A k \in 1..n : [i \in 1..n |-> WriteField(layout[i], fields[i])][k]
                          = WriteField(layout[k], fields[k])
    OBVIOUS
  <2> QED  BY <2>1 DEF Written, Joins
<1>1. ASSUME NEW k \in T PROVE \E j \in T : j < k
  <2>1. PICK x \in Seq(Byte) : data = E[k] \o x /\ R[k] # SoFar(fields, k, x)
    OBVIOUS
  <2>2. k # 0
    <3>1. ASSUME k = 0 PROVE FALSE
      <4>1. data = x
        <5>1. data = <<>> \o x
          BY <1>0, <2>1, <3>1
        <5>2. <<>> \o x = x
          OBVIOUS
        <5> QED  BY <5>1, <5>2
      <4>2. FirstFields(fields, 0) = <<>>
        BY DEF FirstFields
      <4> QED  BY <1>00, <2>1, <3>1, <4>1, <4>2 DEF SoFar
    <3> QED  BY <3>1
  <2>3. k \in 1..n /\ k - 1 \in 0..n /\ k - 1 \in Nat /\ (k - 1) + 1 = k /\ k - 1 < k
    BY <1>0, <2>2
  <2> DEFINE w == WriteField(layout[k], fields[k])
             y == w \o x
  <2>4. w \in Seq(Byte)
    BY <1>0, <2>3, FieldReadsBack DEF ReadsBack
  <2>5. y \in Seq(Byte) /\ data = E[k - 1] \o y
    <3>1. E[k] = E[k - 1] \o w /\ E[k - 1] \in Seq(Byte)
      BY <1>0, <2>3
    <3> DEFINE a == E[k - 1]
    <3> HIDE DEF a, w, T
    <3>2. a \in Seq(Byte) /\ data = (a \o w) \o x
      BY <2>1, <3>1 DEF a
    <3>3. (a \o w) \o x = a \o (w \o x)
      <4>1. a \in Seq(Byte) /\ w \in Seq(Byte) /\ x \in Seq(Byte)
        BY <2>1, <2>4, <3>2
      <4> HIDE DEF y
      <4> QED  BY <4>1, ConcatAssociative
    <3>4. w \o x \in Seq(Byte)
      BY <2>1, <2>4
    <3> QED  BY <3>2, <3>3, <3>4 DEF a
  <2>6. R[k - 1] # SoFar(fields, k - 1, y)
    <3>1. ASSUME R[k - 1] = SoFar(fields, k - 1, y) PROVE FALSE
      <4>1. R[k] = ReadNext(SoFar(fields, k - 1, y), layout[k])
        BY <1>00, <2>3, <3>1
      <4>2. ReadNext(SoFar(fields, k - 1, y), layout[k]) = SoFar(fields, (k - 1) + 1, x)
        <5>1. layout[k] \in Kinds /\ Writable(layout[k], fields[(k - 1) + 1])
          BY <1>0, <2>3
        <5>2. ReadNext(SoFar(fields, k - 1, WriteField(layout[k], fields[(k - 1) + 1]) \o x), layout[k])
                = SoFar(fields, (k - 1) + 1, x)
          BY <2>3, <5>1, NextIsRead
        <5> QED  BY <2>3, <5>2
      <4> QED  BY <2>1, <2>3, <4>1, <4>2
    <3> QED  BY <3>1
  <2>7. k - 1 \in T
    <3> HIDE DEF y
    <3> QED  BY <2>3, <2>5, <2>6
  <2> QED  BY <2>3, <2>7
<1>2. T \subseteq Nat
  <2>1. T \subseteq 0..n
    OBVIOUS
  <2>2. 0..n \subseteq Nat
    OBVIOUS
  <2> HIDE DEF T
  <2> QED  BY <2>1, <2>2
<1>3. T = {}
  <2> HIDE DEF T
  <2> QED  BY <1>1, <1>2, NoLeastIsEmpty
<1> QED
  BY <1>00, <1>3

\* A payload that is all of a message's fields, and perhaps more.
LEMMA WholeIsRead ==
  \A layout, fields, E : \A n \in Nat :
    Written(layout, fields, n, E) =>
      \A tail \in Seq(Byte) : ReadFields(layout, E[n] \o tail) = SoFar(fields, n, tail)
<1> SUFFICES
      ASSUME NEW layout, NEW fields, NEW E, NEW n \in Nat, Written(layout, fields, n, E),
             NEW tail \in Seq(Byte)
      PROVE  ReadFields(layout, E[n] \o tail) = SoFar(fields, n, tail)
  OBVIOUS
<1> DEFINE data == E[n] \o tail
<1>1. n \in Nat /\ Len(layout) = n /\ DOMAIN layout = 1..n
  BY DEF Written
<1> HIDE DEF data
<1>2. PICK R : Reads(R, layout, data, n) /\ ReadFields(layout, data) = R[n]
  BY <1>1, ReadsExist
<1>3. n \in 0..n
  BY <1>1
<1>4. R[n] = SoFar(fields, n, tail)
  BY <1>2, <1>3, FieldsAreRead DEF data
<1> QED
  BY <1>2, <1>4 DEF data

\* A payload that lacks its last byte.
LEMMA CutIsNotRead ==
  ASSUME NEW layout, NEW fields, NEW n \in Nat, NEW E, Written(layout, fields, n, E), n >= 1
  PROVE  ~ReadFields(layout, Front(E[n])).ok
<1> DEFINE data == Front(E[n])
           w == WriteField(layout[n], fields[n])
<1>1. n \in Nat /\ Len(layout) = n /\ DOMAIN layout = 1..n /\ n \in 1..n /\ n - 1 \in 0..n
  BY DEF Written
<1>2. /\ layout[n] \in Kinds /\ Writable(layout[n], fields[n])
      /\ E[n] = E[n - 1] \o w /\ E[n - 1] \in Seq(Byte)
  <2>1. [i \in 1..n |-> WriteField(layout[i], fields[i])][n] = w
    BY <1>1
  <2> QED  BY <1>1, <2>1 DEF Written, Joins
<1>3. w \in Seq(Byte) /\ Len(w) >= 1 /\ ~CanRead(layout[n], Front(w))
  BY <1>2, FieldReadsBack DEF ReadsBack
<1> DEFINE a == E[n - 1]
           short == Front(w)
<1> HIDE DEF w
<1>4. short \in Seq(Byte) /\ data = a \o short
  <2>0. a \in Seq(Byte)
    BY <1>2
  <2> HIDE DEF a
  <2>1. Front(w) \in Seq(Byte) /\ Front(a \o w) = a \o Front(w)
    BY <1>3, <2>0, FrontOfBoth
  <2> QED  BY <1>2, <2>1 DEF a
<1> HIDE DEF data, a
<1>5. PICK R : Reads(R, layout, data, n) /\ ReadFields(layout, data) = R[n]
  BY <1>1, ReadsExist
<1>6. R[n - 1] = SoFar(fields, n - 1, short)
  <2>1. Reads(R, layout, E[n - 1] \o short, n)
    BY <1>4, <1>5 DEF a
  <2>2. short \in Seq(Byte)
    BY <1>4
  <2> DEFINE j == n - 1
  <2>3. j \in 0..n
    BY <1>1
  <2> HIDE DEF short, j
  <2>4. Reads(R, layout, E[j] \o short, n)
    BY <2>1 DEF j
  <2>5. R[j] = SoFar(fields, j, short)
    BY <1>1, <2>2, <2>3, <2>4, FieldsAreRead
  <2> QED  BY <2>5 DEF j
<1>7. R[n] = ReadNext(R[n - 1], layout[n])
  BY <1>1, <1>5 DEF Reads
<1> DEFINE S == SoFar(fields, n - 1, short)
<1>8. S.rest = short /\ S.ok = TRUE /\ DOMAIN S = {"ok", "fields", "rest"}
  BY DEF SoFar
<1> HIDE DEF S
<1>9. ReadNext(S, layout[n]) = [S EXCEPT !.ok = FALSE]
  BY <1>3, <1>8 DEF ReadNext
<1>10. ~[S EXCEPT !.ok = FALSE].ok
  BY <1>8
<1> QED
  BY <1>5, <1>6, <1>7, <1>9, <1>10 DEF S, data

\* A layout is a sequence of kinds, and a response begins with its flag.
LEMMA LayoutTyped ==
  ASSUME NEW type, NEW yes \in BOOLEAN
  PROVE  /\ Layout(type, yes) \in Seq(Kinds)
         /\ type \in Responses =>
              /\ Len(Layout(type, yes)) >= 1
              /\ Layout(type, yes)[1] \in {"flag", "bool"}
<1>1. /\ <<>> \in Seq(Kinds) /\ <<"string", "string">> \in Seq(Kinds) /\ <<"u8">> \in Seq(Kinds)
      /\ <<"u64", "u32", "string", "u32">> \in Seq(Kinds)
      /\ <<"u64", "u8", "u8">> \in Seq(Kinds)
      /\ <<"u64", "u16", "u16", "bool">> \in Seq(Kinds)
      /\ <<"u64", "bool", "u32">> \in Seq(Kinds)
      /\ <<"u64", "string">> \in Seq(Kinds)
  BY DEF Kinds, Numbers
<1>2. /\ <<"u32", "u32", "string">> \in Seq(Kinds) /\ <<"u32", "string">> \in Seq(Kinds)
      /\ <<"u16", "string">> \in Seq(Kinds)
      /\ <<"flag">> \in Seq(Kinds) /\ <<"bool">> \in Seq(Kinds)
  BY DEF Kinds, Numbers
<1>3. ASSUME NEW kind \in {"flag", "bool"}, NEW more \in Seq(Kinds)
      PROVE  /\ <<kind>> \o more \in Seq(Kinds) /\ Len(<<kind>> \o more) >= 1
             /\ (<<kind>> \o more)[1] = kind
  <2>1. <<kind>> \in Seq(Kinds) /\ Len(<<kind>>) = 1 /\ <<kind>>[1] = kind
    BY <1>2
  <2> QED  BY <2>1
<1> DEFINE Answer(kind, more) ==
      /\ <<kind>> \o more \in Seq(Kinds) /\ Len(<<kind>> \o more) >= 1
      /\ (<<kind>> \o more)[1] \in {"flag", "bool"}
<1>4. ASSUME NEW kind \in {"flag", "bool"}, NEW x \in Seq(Kinds), NEW z \in Seq(Kinds)
      PROVE  Answer(kind, IF yes THEN x ELSE z)
  <2>1. (IF yes THEN x ELSE z) \in Seq(Kinds)
    OBVIOUS
  <2> QED  BY <1>3, <2>1
<1>5. /\ Answer("flag", IF yes THEN <<"u32", "u32", "string">> ELSE Refusal)
      /\ Answer("flag", IF yes THEN <<"u32", "string">> ELSE Refusal)
      /\ Answer("bool", IF yes THEN <<>> ELSE Refusal)
  <2>1. Refusal \in Seq(Kinds)
    BY <1>2 DEF Refusal
  <2>2. "flag" \in {"flag", "bool"} /\ "bool" \in {"flag", "bool"}
    OBVIOUS
  <2> HIDE DEF Answer
  <2> QED  BY <1>1, <1>2, <1>4, <2>1, <2>2
<1> DEFINE Fine(layout) ==
      layout \in Seq(Kinds) /\ Len(layout) >= 1 /\ layout[1] \in {"flag", "bool"}
<1>6. ASSUME type \in Responses PROVE Fine(Layout(type, yes))
  <2>1. /\ Fine(LoginResponse(yes)) /\ Fine(RegisterResponse(yes)) /\ Fine(MatchJoinResponse(yes))
        /\ Fine(MatchCancelResponse(yes)) /\ Fine(HeroSelectResponse(yes))
    BY <1>5 DEF LoginResponse, RegisterResponse, MatchJoinResponse, MatchCancelResponse,
                HeroSelectResponse
  <2>2. \/ Layout(type, yes) = LoginResponse(yes) \/ Layout(type, yes) = RegisterResponse(yes)
        \/ Layout(type, yes) = MatchJoinResponse(yes) \/ Layout(type, yes) = MatchCancelResponse(yes)
        \/ Layout(type, yes) = HeroSelectResponse(yes)
    BY <1>6 DEF Layout, Responses
  <2> HIDE DEF Fine
  <2> QED  BY <2>1, <2>2
<1>7. ASSUME type \notin Responses PROVE Layout(type, yes) \in Seq(Kinds)
  <2>1. \/ Layout(type, yes) \in {<<>>, <<"string", "string">>, <<"u8">>}
        \/ Layout(type, yes) = <<"u64", "u32", "string", "u32">>
        \/ Layout(type, yes) = <<"u64", "u8", "u8">>
        \/ Layout(type, yes) = <<"u64", "u16", "u16", "bool">>
        \/ Layout(type, yes) = <<"u64", "bool", "u32">>
        \/ Layout(type, yes) = <<"u64", "string">>
    BY <1>7 DEF Layout, Responses, LoginRequest, RegisterRequest, MatchJoinRequest,
         MatchCancelRequest, HeroSelectRequest, BattleAttackRequest, MatchFoundNotification,
         BattleStartNotification, BattleStateNotification, BattleResultNotification,
         RoomClosedNotification
  <2> QED  BY <1>1, <2>1
<1> QED
  BY <1>6, <1>7

\* What the first byte says matters to responses only.
LEMMA LayoutFixed ==
  ASSUME NEW type, type \notin Responses, NEW yes, NEW no
  PROVE  Layout(type, yes) = Layout(type, no)
BY DEF Layout, Responses

-----------------------------------------------------------------------------
\* The parts of a message that can be encoded.
LEMMA EncodedParts ==
  ASSUME NEW message, IsMessage(message), Encodable(message)
  PROVE  \E n, E : /\ n \in Nat
                   /\ Written(LayoutOf(message), message.fields, n, E)
                   /\ Encode(message) = E[n]
                   /\ FirstFields(message.fields, n) = message.fields
                   /\ message.type \in Responses => n >= 1 /\ LayoutOf(message)[1] \in {"flag", "bool"}
<1> DEFINE layout == LayoutOf(message)
           fields == message.fields
           n == Len(layout)
           parts == [i \in 1..n |-> WriteField(layout[i], fields[i])]
<1>1. /\ layout \in Seq(Kinds)
      /\ message.type \in Responses => Len(layout) >= 1 /\ layout[1] \in {"flag", "bool"}
  <2>1. (message.type \in Responses /\ message.fields[1]) \in BOOLEAN
    OBVIOUS
  <2> DEFINE yes == message.type \in Responses /\ message.fields[1]
  <2>2. layout = Layout(message.type, yes)
    BY DEF LayoutOf
  <2> HIDE DEF yes, layout
  <2>3. yes \in BOOLEAN
    BY <2>1 DEF yes
  <2> QED  BY <2>2, <2>3, LayoutTyped
<1>2. /\ fields = [i \in DOMAIN layout |-> fields[i]]
      /\ \A i \in DOMAIN layout : CanHold(layout[i], fields[i])
  BY DEF IsMessage
<1>3. \A i \in DOMAIN fields : layout[i] = "string" => Len(fields[i]) <= kMaxStringBytes
  BY DEF Encodable
<1>4. Encode(message) = FlattenSeq([i \in DOMAIN fields |-> WriteField(layout[i], fields[i])])
  BY DEF Encode
<1> HIDE DEF layout, fields
<1>5. n \in Nat /\ DOMAIN layout = 1..n /\ \A i \in 1..n : layout[i] \in Kinds
  BY <1>1
<1>6. DOMAIN fields = 1..n
  BY <1>2, <1>5
<1>7. \A i \in 1..n : Writable(layout[i], fields[i])
  BY <1>2, <1>3, <1>5, <1>6 DEF Writable
<1>8. parts \in Seq(Seq(Byte)) /\ Len(parts) = n
  <2>1. \A i \in 1..n : WriteField(layout[i], fields[i]) \in Seq(Byte)
    BY <1>5, <1>7, FieldReadsBack DEF ReadsBack
  <2>2. parts \in [1..n -> Seq(Byte)]
    BY <2>1
  <2> HIDE DEF parts, n
  <2> QED  BY <1>5, <2>2
<1>9. PICK E : Joins(E, Byte, parts, n) /\ FlattenSeq(parts) = E[n]
  <2> HIDE DEF parts
  <2> QED  BY <1>8, FlattenJoins
<1>10. Encode(message) = E[n]
  BY <1>4, <1>6, <1>9
<1>11. Written(layout, fields, n, E)
  BY <1>5, <1>7, <1>9 DEF Written
<1>12. FirstFields(fields, n) = fields
  BY <1>2, <1>5 DEF FirstFields
<1> HIDE DEF n
<1> QED
  BY <1>1, <1>5, <1>10, <1>11, <1>12 DEF layout, fields, n

\* The first byte of a response is its flag.
LEMMA FirstByteIsFlag ==
  ASSUME NEW message, IsMessage(message), message.type \in Responses, NEW n \in Nat, NEW E,
         Written(LayoutOf(message), message.fields, n, E), n >= 1,
         LayoutOf(message)[1] \in {"flag", "bool"}, NEW tail \in Seq(Byte)
  PROVE  /\ E[n] \o tail # <<>>
         /\ ((E[n] \o tail)[1] # 0) = message.fields[1]
         /\ message.fields[1] \in BOOLEAN
<1> DEFINE layout == LayoutOf(message)
           fields == message.fields
           w == WriteField(layout[1], fields[1])
<1>1. /\ DOMAIN layout = 1..n /\ \A i \in 1..n : Writable(layout[i], fields[i])
      /\ \A i \in 1..n : layout[i] \in Kinds
      /\ Joins(E, Byte, [i \in 1..n |-> WriteField(layout[i], fields[i])], n)
  BY DEF Written
<1>2. 1 \in 1..n /\ 1 - 1 = 0 /\ 1 \in 0..n /\ 0 \in 0..n
  OBVIOUS
<1> HIDE DEF layout, fields
<1>3. fields[1] \in BOOLEAN
  BY <1>1, <1>2 DEF Writable, CanHold, layout
<1>4. E[1] = w /\ w = <<IF fields[1] THEN 1 ELSE 0>>
  <2>1. w = <<IF fields[1] THEN 1 ELSE 0>>
    BY DEF WriteField, layout
  <2>2. [i \in 1..n |-> WriteField(layout[i], fields[i])][1] = w
    BY <1>2
  <2>3. E[1] = E[0] \o w /\ E[0] = <<>> /\ E[1] \in Seq(Byte)
    BY <1>1, <1>2, <2>2 DEF Joins
  <2> QED  BY <2>1, <2>3
<1>5. \A i \in 1..n : [j \in 1..n |-> WriteField(layout[j], fields[j])][i] \in Seq(Byte)
  BY <1>1, FieldReadsBack DEF ReadsBack
<1>6. PICK rest \in Seq(Byte) : E[n] = E[1] \o rest
  <2> DEFINE seqs == [i \in 1..n |-> WriteField(layout[i], fields[i])]
             k == 1
  <2>1. k \in 0..n /\ n \in Nat /\ \A i \in 1..n : seqs[i] \in Seq(Byte)
    BY <1>2, <1>5
  <2>2. Joins(E, Byte, seqs, n)
    BY <1>1
  <2> HIDE DEF seqs, k
  <2>3. \E rest \in Seq(Byte) : E[n] = E[k] \o rest
    BY <2>1, <2>2, JoinsBegin
  <2> QED  BY <2>3 DEF k
<1> DEFINE b == IF fields[1] THEN 1 ELSE 0
<1>7. b \in Byte /\ (b # 0) = fields[1]
  BY <1>3, CodecAssumption DEF Byte
<1>8. E[n] = <<b>> \o rest
  BY <1>4, <1>6
<1> HIDE DEF b
<1>9. <<b>> \in Seq(Byte) /\ Len(<<b>>) = 1 /\ <<b>>[1] = b
  BY <1>7
<1>10. (<<b>> \o rest) \in Seq(Byte) /\ Len(<<b>> \o rest) >= 1 /\ (<<b>> \o rest)[1] = b
  BY <1>6, <1>9
<1> DEFINE e == <<b>> \o rest
<1> HIDE DEF e
<1>11. e \o tail # <<>> /\ (e \o tail)[1] = b
  <2>1. e \in Seq(Byte) /\ Len(e) >= 1 /\ e[1] = b
    BY <1>10 DEF e
  <2> QED  BY <2>1
<1> QED
  BY <1>3, <1>7, <1>8, <1>11 DEF e, fields

\* The reader takes the layout the writer took.
LEMMA SameLayout ==
  ASSUME NEW message, IsMessage(message), NEW n \in Nat, NEW E,
         Written(LayoutOf(message), message.fields, n, E),
         message.type \in Responses => n >= 1 /\ LayoutOf(message)[1] \in {"flag", "bool"},
         NEW tail \in Seq(Byte)
  PROVE  LET data == E[n] \o tail IN
         Layout(message.type, data # <<>> /\ data[1] # 0) = LayoutOf(message)
<1> DEFINE data == E[n] \o tail
<1>1. ASSUME message.type \notin Responses
      PROVE  Layout(message.type, data # <<>> /\ data[1] # 0) = LayoutOf(message)
  BY <1>1, LayoutFixed DEF LayoutOf
<1>2. ASSUME message.type \in Responses
      PROVE  Layout(message.type, data # <<>> /\ data[1] # 0) = LayoutOf(message)
  <2>1. data # <<>> /\ (data[1] # 0) = message.fields[1] /\ message.fields[1] \in BOOLEAN
    BY <1>2, FirstByteIsFlag
  <2> HIDE DEF data
  <2>2. (data # <<>> /\ data[1] # 0) = (message.type \in Responses /\ message.fields[1])
    BY <1>2, <2>1
  <2> QED  BY <2>2 DEF LayoutOf
<1> QED
  BY <1>1, <1>2

\* A message that was encoded is decoded.
LEMMA DecodedAsEncoded ==
  ASSUME NEW message, IsMessage(message), Encodable(message)
  PROVE  Decode(message.type, Encode(message))
           = [type |-> message.type, ok |-> TRUE, fields |-> message.fields]
<1>1. PICK n, E : /\ n \in Nat
                  /\ Written(LayoutOf(message), message.fields, n, E)
                  /\ Encode(message) = E[n]
                  /\ FirstFields(message.fields, n) = message.fields
                  /\ message.type \in Responses => n >= 1 /\ LayoutOf(message)[1] \in {"flag", "bool"}
  BY EncodedParts
<1> DEFINE data == E[n] \o <<>>
<1>2. <<>> \in Seq(Byte) /\ E[n] \in Seq(Byte) /\ data = E[n]
  <2>1. <<>> \in Seq(Byte) /\ E[n] \in Seq(Byte)
    BY <1>1 DEF Written, Joins
  <2> QED  BY <2>1
<1>3. Layout(message.type, data # <<>> /\ data[1] # 0) = LayoutOf(message)
  BY <1>1, <1>2, SameLayout
<1>4. ReadFields(LayoutOf(message), data) = SoFar(message.fields, n, <<>>)
  <2> DEFINE layout == LayoutOf(message)
             fields == message.fields
             tail == <<>>
  <2>1. n \in Nat /\ Written(layout, fields, n, E) /\ tail \in Seq(Byte)
    BY <1>1, <1>2
  <2> HIDE DEF layout, fields, tail
  <2>2. ReadFields(layout, E[n] \o tail) = SoFar(fields, n, tail)
    BY <2>1, WholeIsRead
  <2> QED  BY <2>2 DEF layout, fields, tail
<1> HIDE DEF data
<1>5. ReadFields(Layout(message.type, data # <<>> /\ data[1] # 0), data)
        = [ok |-> TRUE, fields |-> message.fields, rest |-> <<>>]
  BY <1>1, <1>3, <1>4 DEF SoFar
<1>6. Decode(message.type, data) = [type |-> message.type, ok |-> TRUE, fields |-> message.fields]
  <2> DEFINE result == ReadFields(Layout(message.type, data # <<>> /\ data[1] # 0), data)
  <2>1. result.ok = TRUE /\ result.fields = message.fields /\ result.rest = <<>>
    BY <1>5
  <2>2. Decode(message.type, data) =
          IF result.ok /\ result.rest = <<>>
            THEN [type |-> message.type, ok |-> TRUE, fields |-> result.fields]
            ELSE Malformed(message.type)
    BY DEF Decode
  <2> HIDE DEF result
  <2> QED  BY <2>1, <2>2
<1> QED
  BY <1>1, <1>2, <1>6

\* With a byte too many it is malformed.
LEMMA LongerIsMalformed ==
  ASSUME NEW message, IsMessage(message), Encodable(message)
  PROVE  Decode(message.type, Append(Encode(message), 1)) = Malformed(message.type)
<1>1. PICK n, E : /\ n \in Nat
                  /\ Written(LayoutOf(message), message.fields, n, E)
                  /\ Encode(message) = E[n]
                  /\ FirstFields(message.fields, n) = message.fields
                  /\ message.type \in Responses => n >= 1 /\ LayoutOf(message)[1] \in {"flag", "bool"}
  BY EncodedParts
<1> DEFINE data == E[n] \o <<1>>
<1>2. <<1>> \in Seq(Byte) /\ E[n] \in Seq(Byte) /\ data = Append(E[n], 1)
  <2>1. 1 \in Byte /\ E[n] \in Seq(Byte)
    BY <1>1, CodecAssumption DEF Written, Joins, Byte
  <2> QED  BY <2>1
<1>3. Layout(message.type, data # <<>> /\ data[1] # 0) = LayoutOf(message)
  BY <1>1, <1>2, SameLayout
<1>4. ReadFields(LayoutOf(message), data) = SoFar(message.fields, n, <<1>>)
  <2> DEFINE layout == LayoutOf(message)
             fields == message.fields
             tail == <<1>>
  <2>1. n \in Nat /\ Written(layout, fields, n, E) /\ tail \in Seq(Byte)
    BY <1>1, <1>2
  <2> HIDE DEF layout, fields, tail
  <2>2. ReadFields(layout, E[n] \o tail) = SoFar(fields, n, tail)
    BY <2>1, WholeIsRead
  <2> QED  BY <2>2 DEF layout, fields, tail
<1> HIDE DEF data
<1> DEFINE result == ReadFields(Layout(message.type, data # <<>> /\ data[1] # 0), data)
<1>5. result.rest = <<1>>
  BY <1>3, <1>4 DEF SoFar
<1>6. <<1>> # <<>>
  OBVIOUS
<1>7. Decode(message.type, data) = Malformed(message.type)
  BY <1>5, <1>6 DEF Decode
<1> QED
  BY <1>1, <1>2, <1>7

\* So is a request with a byte too few.
LEMMA CutIsMalformed ==
  ASSUME NEW message, IsMessage(message), Encodable(message), message.type \notin Responses,
         Encode(message) # <<>>
  PROVE  Decode(message.type, Front(Encode(message))) = Malformed(message.type)
<1>1. PICK n, E : /\ n \in Nat
                  /\ Written(LayoutOf(message), message.fields, n, E)
                  /\ Encode(message) = E[n]
  BY EncodedParts
<1>2. n >= 1
  <2>1. E[0] = <<>>
    BY <1>1 DEF Written, Joins
  <2>2. n # 0
    BY <1>1, <2>1
  <2> QED  BY <1>1, <2>2
<1> DEFINE data == Front(Encode(message))
<1>3. ~ReadFields(LayoutOf(message), Front(E[n])).ok
  <2> DEFINE layout == LayoutOf(message)
             fields == message.fields
  <2>1. n \in Nat /\ Written(layout, fields, n, E)
    BY <1>1
  <2> HIDE DEF layout, fields
  <2>2. ~ReadFields(layout, Front(E[n])).ok
    BY <1>2, <2>1, CutIsNotRead
  <2> QED  BY <2>2 DEF layout
<1>4. Layout(message.type, data # <<>> /\ data[1] # 0) = LayoutOf(message)
  BY LayoutFixed DEF LayoutOf
<1>5. ~ReadFields(LayoutOf(message), data).ok
  BY <1>1, <1>3
<1> HIDE DEF data
<1>6. Decode(message.type, data) = Malformed(message.type)
  BY <1>4, <1>5 DEF Decode
<1> QED
  BY <1>6 DEF data

-----------------------------------------------------------------------------
(* Frames. *)

\* The length in the header cannot be one.
Bad(frame) == frame.damage \in {"tooShort", "tooLong"}

\* What the sender's checks leave.
Sound(frame) ==
  /\ frame.message \in Requests \cup Answers /\ frame.damage \in Damages
  /\ Encodable(frame.message)
  /\ frame.damage # "none" => frame.message.type \notin Responses
  /\ frame.damage = "cut" => Encode(frame.message) # <<>>
  /\ ~Bad(frame) => HEADER_SIZE + Len(Payload(frame)) <= MAX_FRAME

\* The frames that may be sent.
SoundFrames == {frame \in [message : Requests \cup Answers, damage : Damages] : Sound(frame)}

\* What is encoded is bytes,
LEMMA EncodeTyped ==
  ASSUME NEW message, IsMessage(message), Encodable(message)
  PROVE  Encode(message) \in Seq(Byte)
<1>1. PICK n, E : /\ n \in Nat
                  /\ Written(LayoutOf(message), message.fields, n, E)
                  /\ Encode(message) = E[n]
  BY EncodedParts
<1> QED
  BY <1>1 DEF Written, Joins

\* and so is a payload, damaged or not.
LEMMA PayloadTyped ==
  ASSUME NEW frame \in SoundFrames
  PROVE  Payload(frame) \in Seq(Byte) /\ IsMessage(frame.message)
<1> DEFINE e == Encode(frame.message)
<1>1. Sound(frame) /\ IsMessage(frame.message)
  BY WireAssumption DEF SoundFrames, Sound
<1>2. e \in Seq(Byte)
  BY <1>1, EncodeTyped DEF Sound
<1>3. frame.damage = "cut" => e # <<>>
  BY <1>1 DEF Sound
<1>4. /\ frame.damage = "cut" => Payload(frame) = Front(e)
      /\ frame.damage = "longer" => Payload(frame) = Append(e, 1)
      /\ frame.damage \notin {"cut", "longer"} => Payload(frame) = e
  BY DEF Payload
<1> HIDE DEF e
<1>5. frame.damage = "cut" => Front(e) \in Seq(Byte)
  <2>1. e # <<>> => Len(e) >= 1
    BY <1>2
  <2> QED  BY <1>2, <1>3, <2>1, FrontIs
<1>6. Append(e, 1) \in Seq(Byte)
  <2>1. 1 \in Byte
    BY CodecAssumption DEF Byte
  <2> QED  BY <1>2, <2>1
<1> QED
  BY <1>1, <1>2, <1>4, <1>5, <1>6

\* The length in the header: it fits, and is valid unless it was made not to be.
LEMMA TotalLenIs ==
  ASSUME NEW frame \in SoundFrames
  PROVE  /\ TotalLen(frame) \in Nat /\ ShiftRight(TotalLen(frame), 4) = 0
         /\ Bad(frame) <=> ~(TotalLen(frame) >= HEADER_SIZE /\ TotalLen(frame) <= MAX_FRAME)
         /\ ~Bad(frame) => TotalLen(frame) = HEADER_SIZE + Len(Payload(frame))
<1> DEFINE n == TotalLen(frame)
           l == Len(Payload(frame))
<1>1. l \in Nat /\ HEADER_SIZE = 6 /\ MAX_FRAME \in Nat /\ 6 <= MAX_FRAME
  BY PayloadTyped, WireAssumption DEF HEADER_SIZE
<1>2. /\ frame.damage = "tooShort" => n = 5
      /\ frame.damage = "tooLong" => n = MAX_FRAME + 1
      /\ ~Bad(frame) => n = 6 + l
  BY <1>1 DEF TotalLen, Bad
<1>3. ~Bad(frame) => 6 + l <= MAX_FRAME
  BY <1>1 DEF SoundFrames, Sound
<1>4. Bad(frame) <=> frame.damage = "tooShort" \/ frame.damage = "tooLong"
  BY DEF Bad
<1> HIDE DEF n, l
<1>5. /\ n \in Nat /\ n <= MAX_FRAME + 1
      /\ Bad(frame) <=> ~(n >= 6 /\ n <= MAX_FRAME)
  <2>1. ASSUME ~Bad(frame) PROVE n = 6 + l /\ 6 + l <= MAX_FRAME
    BY <1>2, <1>3, <2>1
  <2>2. ASSUME Bad(frame) PROVE n = 5 \/ n = MAX_FRAME + 1
    BY <1>2, <1>4, <2>2
  <2>3. CASE ~Bad(frame)
    <3>1. n \in Nat /\ n <= MAX_FRAME + 1 /\ n >= 6 /\ n <= MAX_FRAME
      BY <1>1, <2>1, <2>3
    <3> QED  BY <2>3, <3>1
  <2>4. CASE Bad(frame)
    <3>1. n \in Nat /\ n <= MAX_FRAME + 1 /\ ~(n >= 6 /\ n <= MAX_FRAME)
      BY <1>1, <2>2, <2>4
    <3> QED  BY <2>4, <3>1
  <2> QED  BY <2>3, <2>4
<1>6. ShiftRight(n, 4) = 0
  <2>1. ShiftRight(MAX_FRAME + 1, 4) = 0
    BY WireAssumption DEF Width
  <2>2. MAX_FRAME + 1 \in Nat
    BY <1>1
  <2> QED  BY <1>5, <2>1, <2>2, SmallerFits
<1> QED
  BY <1>1, <1>2, <1>5, <1>6 DEF n, l

\* The code of a type fits, and no two types have one.
LEMMA CodesFit ==
  ASSUME NEW type \in DOMAIN MsgType
  PROVE  MsgType[type] \in Nat /\ ShiftRight(MsgType[type], 2) = 0
<1>1. MsgType[type] \in Nat
  BY DEF MsgType
<1>2. ShiftRight(MsgType[type], 2) = 0
  BY WireAssumption DEF Width
<1> QED
  BY <1>1, <1>2

\* No two types have one code.
LEMMA CodesDiffer ==
  ASSUME NEW type \in DOMAIN MsgType, NEW other \in DOMAIN MsgType, MsgType[type] = MsgType[other]
  PROVE  type = other
BY DEF MsgType

\* Concatenation, item by item.
LEMMA ConcatItems ==
  ASSUME NEW S, NEW s \in Seq(S), NEW t \in Seq(S)
  PROVE  /\ s \o t \in Seq(S) /\ Len(s \o t) = Len(s) + Len(t)
         /\ Len(s) \in Nat /\ Len(t) \in Nat
         /\ \A i \in 1..Len(s) : (s \o t)[i] = s[i]
         /\ \A j \in 1..Len(t) : (s \o t)[j + Len(s)] = t[j]
<1>1. s \o t \in Seq(S) /\ Len(s \o t) = Len(s) + Len(t) /\ Len(t) \in Nat /\ Len(s) \in Nat
  OBVIOUS
<1>2. \A i \in 1..Len(s) : (s \o t)[i] = s[i]
  OBVIOUS
<1>3. ASSUME NEW j \in 1..Len(t) PROVE (s \o t)[j + Len(s)] = t[j]
  <2>1. j + Len(s) \in 1..(Len(s) + Len(t)) /\ j + Len(s) > Len(s) /\ (j + Len(s)) - Len(s) = j
    BY <1>1
  <2> QED  BY <2>1
<1> QED
  BY <1>1, <1>2, <1>3

\* The middle of three.
LEMMA MiddleIs ==
  ASSUME NEW S, NEW a \in Seq(S), NEW b \in Seq(S), NEW p \in Seq(S)
  PROVE  SubSeq((a \o b) \o p, Len(a) + 1, Len(a) + Len(b)) = b
<1> DEFINE h == a \o b
           f == h \o p
           s == SubSeq(f, Len(a) + 1, Len(a) + Len(b))
<1>1. /\ h \in Seq(S) /\ Len(h) = Len(a) + Len(b) /\ Len(a) \in Nat /\ Len(b) \in Nat
      /\ \A j \in 1..Len(b) : h[j + Len(a)] = b[j]
  BY ConcatItems
<1> HIDE DEF h
<1>2. /\ f \in Seq(S) /\ Len(f) = Len(h) + Len(p) /\ Len(p) \in Nat
      /\ \A i \in 1..Len(h) : f[i] = h[i]
  <2>1. h \in Seq(S)
    BY <1>1
  <2> QED  BY <2>1, ConcatItems
<1> HIDE DEF f
<1>3. s \in Seq(S) /\ Len(s) = Len(b) /\ \A j \in 1..Len(b) : s[j] = f[j + Len(a)]
  BY <1>1, <1>2
<1> HIDE DEF s
<1>4. \A j \in 1..Len(b) : j + Len(a) \in 1..Len(h)
  BY <1>1
<1>5. \A j \in 1..Len(b) : s[j] = b[j]
  BY <1>1, <1>2, <1>3, <1>4
<1>6. s = b
  BY <1>3, <1>5, SeqEqual
<1> QED
  BY <1>6 DEF s, f, h

\* A frame is its header and its payload.
LEMMA FrameParts ==
  ASSUME NEW frame \in SoundFrames
  PROVE  /\ FrameBytes(frame) \in Seq(Byte)
         /\ Len(FrameBytes(frame)) = 6 + Len(Payload(frame))
         /\ Len(Payload(frame)) \in Nat
         /\ SubSeq(FrameBytes(frame), 1, 4) = WriteUnsigned(TotalLen(frame), 4)
         /\ SubSeq(FrameBytes(frame), 5, 6) = WriteUnsigned(MsgType[frame.message.type], 2)
         /\ SubSeq(FrameBytes(frame), 7, 6 + Len(Payload(frame))) = Payload(frame)
<1> DEFINE a == WriteUnsigned(TotalLen(frame), 4)
           b == WriteUnsigned(MsgType[frame.message.type], 2)
           p == Payload(frame)
<1>1. FrameBytes(frame) = (a \o b) \o p
  BY DEF FrameBytes, Width
<1>2. frame.message.type \in DOMAIN MsgType
  BY PayloadTyped DEF IsMessage
<1>3. a \in Seq(Byte) /\ Len(a) = 4
  BY TotalLenIs, WrittenBytes
<1>4. b \in Seq(Byte) /\ Len(b) = 2
  BY <1>2, CodesFit, WrittenBytes
<1>5. p \in Seq(Byte)
  BY PayloadTyped
<1> HIDE DEF a, b, p
<1>6. a \in Seq(Byte) /\ b \in Seq(Byte)
  BY <1>3, <1>4
<1> DEFINE h == a \o b
           f == h \o p
<1>7. /\ h \in Seq(Byte) /\ Len(h) = Len(a) + Len(b) /\ Len(a) \in Nat /\ Len(b) \in Nat
      /\ SubSeq(h, 1, Len(a)) = a
  BY <1>6, InFront
<1>8. SubSeq(f, Len(a) + 1, Len(a) + Len(b)) = b
  BY <1>5, <1>6, MiddleIs
<1> HIDE DEF h
<1>9. /\ f \in Seq(Byte) /\ Len(f) = Len(h) + Len(p) /\ Len(p) \in Nat
      /\ SubSeq(f, Len(h) + 1, Len(f)) = p
      /\ \A i \in 1..Len(h) : f[i] = h[i]
  <2>1. h \in Seq(Byte)
    BY <1>7
  <2> QED  BY <1>5, <2>1, InFront
<1> HIDE DEF f
<1>10. Len(h) = 6 /\ Len(f) = 6 + Len(p) /\ SubSeq(f, 7, 6 + Len(p)) = p
       /\ SubSeq(f, 5, 6) = b /\ \A i \in 1..6 : f[i] = h[i]
  <2>1. Len(h) = 6 /\ Len(a) + 1 = 5 /\ Len(a) + Len(b) = 6
    BY <1>3, <1>4, <1>7
  <2>2. Len(h) + 1 = 7 /\ Len(f) = 6 + Len(p)
    BY <1>9, <2>1
  <2> QED  BY <1>8, <1>9, <2>1, <2>2
<1>11. SubSeq(f, 1, 4) = a
  <2> DEFINE s == SubSeq(f, 1, 4)
             r == SubSeq(h, 1, 4)
  <2>1. r = a
    BY <1>3, <1>7
  <2>2. /\ s \in Seq(Byte) /\ Len(s) = 4 /\ \A i \in 1..4 : s[i] = f[i]
        /\ r \in Seq(Byte) /\ Len(r) = 4 /\ \A i \in 1..4 : r[i] = h[i]
    BY <1>7, <1>9, <1>10
  <2>3. \A i \in 1..4 : f[i] = h[i]
    BY <1>10
  <2> HIDE DEF s, r
  <2>4. s = r
    BY <2>2, <2>3, SeqEqual
  <2> QED  BY <2>1, <2>4 DEF s
<1> QED
  BY <1>1, <1>5, <1>9, <1>10, <1>11 DEF a, b, p, f, h

\* The header is read back, whether or not the rest of the frame is there.
LEMMA HeaderIsRead ==
  ASSUME NEW frame \in SoundFrames, NEW data \in Seq(Byte), Len(data) >= 6,
         \A i \in 1..6 : data[i] = FrameBytes(frame)[i]
  PROVE  /\ ReadUnsigned(data, 4) = TotalLen(frame)
         /\ ReadUnsigned(SubSeq(data, 5, 6), 2) = MsgType[frame.message.type]
<1> DEFINE f == FrameBytes(frame)
           n == TotalLen(frame)
           c == MsgType[frame.message.type]
           code == SubSeq(data, 5, 6)
<1>1. /\ f \in Seq(Byte) /\ Len(f) >= 6
      /\ SubSeq(f, 1, 4) = WriteUnsigned(n, 4) /\ SubSeq(f, 5, 6) = WriteUnsigned(c, 2)
  BY FrameParts
<1>2. n \in Nat /\ ShiftRight(n, 4) = 0
  BY TotalLenIs
<1>3. c \in Nat /\ ShiftRight(c, 2) = 0
  BY PayloadTyped, CodesFit DEF IsMessage
<1>0. \A i \in 1..6 : data[i] = f[i]
  OBVIOUS
<1> HIDE DEF f, n, c
<1>4. SubSeq(data, 1, 4) = SubSeq(f, 1, 4) /\ code = SubSeq(f, 5, 6)
  <2>1. \A i \in 1..4 : SubSeq(data, 1, 4)[i] = data[i] /\ SubSeq(f, 1, 4)[i] = f[i]
    BY <1>1
  <2>2. \A i \in 1..2 : code[i] = data[i + 4] /\ SubSeq(f, 5, 6)[i] = f[i + 4]
    BY <1>1
  <2>3. /\ SubSeq(data, 1, 4) \in Seq(Byte) /\ Len(SubSeq(data, 1, 4)) = 4
        /\ SubSeq(f, 1, 4) \in Seq(Byte) /\ Len(SubSeq(f, 1, 4)) = 4
        /\ code \in Seq(Byte) /\ Len(code) = 2
        /\ SubSeq(f, 5, 6) \in Seq(Byte) /\ Len(SubSeq(f, 5, 6)) = 2
    BY <1>1
  <2>4. \A i \in 1..4 : SubSeq(data, 1, 4)[i] = SubSeq(f, 1, 4)[i]
    BY <1>0, <2>1
  <2>5. \A i \in 1..2 : code[i] = SubSeq(f, 5, 6)[i]
    BY <1>0, <2>2
  <2> HIDE DEF code
  <2>6. SubSeq(data, 1, 4) = SubSeq(f, 1, 4)
    BY <2>3, <2>4, SeqEqual
  <2>7. code = SubSeq(f, 5, 6)
    BY <2>3, <2>5, SeqEqual
  <2> QED  BY <2>6, <2>7
<1>5. ReadUnsigned(data, 4) = n
  <2>1. 4 \in Nat /\ 4 <= Len(data) /\ SubSeq(data, 1, 4) = WriteUnsigned(n, 4)
    BY <1>1, <1>4
  <2> QED  BY <1>2, <2>1, NumberReadBack
<1>6. ReadUnsigned(code, 2) = c
  <2>1. code \in Seq(Byte) /\ Len(code) = 2
    OBVIOUS
  <2>2. code = WriteUnsigned(c, 2)
    BY <1>1, <1>4
  <2> HIDE DEF code
  <2>3. 2 \in Nat /\ 2 <= Len(code) /\ SubSeq(code, 1, 2) = code
    BY <2>1
  <2>4. SubSeq(code, 1, 2) = WriteUnsigned(c, 2)
    BY <2>2, <2>3
  <2> QED  BY <1>3, <2>1, <2>3, <2>4, NumberReadBack
<1> QED
  BY <1>5, <1>6 DEF n, c

\* What a frame's payload is decoded to.
LEMMA PayloadMeans ==
  ASSUME NEW frame \in SoundFrames, ~Bad(frame)
  PROVE  Decode(frame.message.type, Payload(frame)) = Meaning(frame)
<1> DEFINE m == frame.message
<1>1. IsMessage(m) /\ Encodable(m) /\ Sound(frame)
  BY PayloadTyped DEF SoundFrames, Sound
<1>2. frame.damage \in {"none", "cut", "longer"}
  BY <1>1 DEF Sound, Bad, Damages
<1>3. /\ frame.damage = "none" => Payload(frame) = Encode(m)
      /\ frame.damage = "cut" => Payload(frame) = Front(Encode(m))
      /\ frame.damage = "longer" => Payload(frame) = Append(Encode(m), 1)
  BY DEF Payload
<1>4. /\ frame.damage = "none" =>
           Meaning(frame) = [type |-> m.type, ok |-> TRUE, fields |-> m.fields]
      /\ frame.damage # "none" => Meaning(frame) = Malformed(m.type)
  BY DEF Meaning
<1>5. /\ frame.damage # "none" => m.type \notin Responses
      /\ frame.damage = "cut" => Encode(m) # <<>>
  BY <1>1 DEF Sound
<1> HIDE DEF m
<1>6. ASSUME frame.damage = "none" PROVE Decode(m.type, Payload(frame)) = Meaning(frame)
  <2>1. Payload(frame) = Encode(m)
    BY <1>3, <1>6
  <2>2. Meaning(frame) = [type |-> m.type, ok |-> TRUE, fields |-> m.fields]
    BY <1>4, <1>6
  <2>3. Decode(m.type, Encode(m)) = [type |-> m.type, ok |-> TRUE, fields |-> m.fields]
    BY <1>1, DecodedAsEncoded
  <2> QED  BY <2>1, <2>2, <2>3
<1>7. ASSUME frame.damage = "cut" PROVE Decode(m.type, Payload(frame)) = Meaning(frame)
  <2>1. Decode(m.type, Front(Encode(m))) = Malformed(m.type)
    BY <1>1, <1>5, <1>7, CutIsMalformed
  <2> QED  BY <1>3, <1>4, <1>7, <2>1
<1>8. ASSUME frame.damage = "longer" PROVE Decode(m.type, Payload(frame)) = Meaning(frame)
  <2>1. Decode(m.type, Append(Encode(m), 1)) = Malformed(m.type)
    BY <1>1, LongerIsMalformed
  <2> QED  BY <1>3, <1>4, <1>8, <2>1
<1>9. Decode(m.type, Payload(frame)) = Meaning(frame)
  BY <1>2, <1>6, <1>7, <1>8
<1> QED
  BY <1>9 DEF m

-----------------------------------------------------------------------------
(* Streams of frames. *)

\* The frames of a stream as bytes.
Parts(frames) == [i \in DOMAIN frames |-> FrameBytes(frames[i])]

\* A stream is its frames' bytes, one after the other.
LEMMA PartsTyped ==
  ASSUME NEW frames \in Seq(SoundFrames)
  PROVE  /\ Parts(frames) \in Seq(Seq(Byte)) /\ Len(Parts(frames)) = Len(frames)
         /\ \A i \in 1..Len(frames) : Parts(frames)[i] = FrameBytes(frames[i])
         /\ BytesOf(frames) = FlattenSeq(Parts(frames))
<1>1. DOMAIN frames = 1..Len(frames) /\ \A i \in 1..Len(frames) : frames[i] \in SoundFrames
  OBVIOUS
<1>2. \A i \in 1..Len(frames) : FrameBytes(frames[i]) \in Seq(Byte)
  BY <1>1, FrameParts
<1>3. Parts(frames) \in [1..Len(frames) -> Seq(Byte)]
  BY <1>1, <1>2 DEF Parts
<1>4. \A i \in 1..Len(frames) : Parts(frames)[i] = FrameBytes(frames[i])
  BY <1>1 DEF Parts
<1>5. Parts(frames) \in Seq(Seq(Byte)) /\ Len(Parts(frames)) = Len(frames)
  BY <1>3
<1> QED
  BY <1>4, <1>5 DEF BytesOf, Parts

\* No frames, no bytes.
LEMMA BytesOfNone == BytesOf(<<>>) = <<>>
<1>1. <<>> \in Seq(SoundFrames) /\ Len(<<>>) = 0
  OBVIOUS
<1>2. Parts(<<>>) \in Seq(Seq(Byte)) /\ Len(Parts(<<>>)) = 0
      /\ BytesOf(<<>>) = FlattenSeq(Parts(<<>>))
  BY <1>1, PartsTyped
<1>3. Parts(<<>>) = <<>>
  BY <1>2
<1> QED
  BY <1>2, <1>3, FlattenNone

\* A stream is bytes.
LEMMA BytesOfTyped ==
  ASSUME NEW frames \in Seq(SoundFrames)
  PROVE  BytesOf(frames) \in Seq(Byte)
BY PartsTyped, FlattenTyped

\* One frame more, and its bytes are the end of the stream.
LEMMA BytesOfAppend ==
  ASSUME NEW frames \in Seq(SoundFrames), NEW frame \in SoundFrames
  PROVE  BytesOf(Append(frames, frame)) = BytesOf(frames) \o FrameBytes(frame)
<1> DEFINE more == Append(frames, frame)
           p == Parts(frames)
           q == Parts(more)
           b == FrameBytes(frame)
           n == Len(frames)
<1>1. /\ more \in Seq(SoundFrames) /\ Len(more) = n + 1 /\ more[n + 1] = frame
      /\ \A i \in 1..n : more[i] = frames[i]
  OBVIOUS
<1>2. /\ p \in Seq(Seq(Byte)) /\ Len(p) = n /\ BytesOf(frames) = FlattenSeq(p)
      /\ \A i \in 1..n : p[i] = FrameBytes(frames[i])
  BY PartsTyped
<1> HIDE DEF more
<1>3. /\ q \in Seq(Seq(Byte)) /\ Len(q) = Len(more) /\ BytesOf(more) = FlattenSeq(q)
      /\ \A i \in 1..Len(more) : q[i] = FrameBytes(more[i])
  <2>1. more \in Seq(SoundFrames)
    BY <1>1
  <2> QED  BY <2>1, PartsTyped
<1>4. b \in Seq(Byte) /\ n \in Nat
  BY FrameParts
<1> HIDE DEF p, q, b, n
<1>5. q = Append(p, b)
  <2> DEFINE r == Append(p, b)
  <2>1. p \in Seq(Seq(Byte))
    BY <1>2
  <2>2. r \in Seq(Seq(Byte)) /\ Len(r) = Len(p) + 1 /\ r[Len(p) + 1] = b
        /\ \A i \in 1..Len(p) : r[i] = p[i]
    BY <1>4, <2>1
  <2> HIDE DEF r
  <2>3. Len(q) = n + 1 /\ Len(r) = n + 1
    BY <1>1, <1>2, <1>3, <2>2
  <2>4. ASSUME NEW i \in 1..(n + 1) PROVE q[i] = r[i]
    <3>1. q[i] = FrameBytes(more[i])
      BY <1>1, <1>3
    <3>2. ASSUME i = n + 1 PROVE q[i] = r[i]
      BY <1>1, <1>2, <2>2, <3>1, <3>2 DEF b
    <3>3. ASSUME i # n + 1 PROVE q[i] = r[i]
      <4>1. i \in 1..n
        BY <1>4, <3>3
      <4>2. q[i] = FrameBytes(frames[i]) /\ p[i] = FrameBytes(frames[i])
        BY <1>1, <1>2, <3>1, <4>1
      <4>3. r[i] = p[i]
        BY <1>2, <2>2, <4>1
      <4> QED  BY <4>2, <4>3
    <3> QED  BY <3>2, <3>3
  <2>5. q = r
    BY <1>3, <2>2, <2>3, <2>4, SeqEqual
  <2> QED  BY <2>5 DEF r
<1>6. FlattenSeq(q) = FlattenSeq(p) \o b
  BY <1>2, <1>4, <1>5, FlattenAppend
<1> QED
  BY <1>2, <1>3, <1>6 DEF more, b

\* The first frames of a stream, and the one that follows them.
LEMMA FirstOf ==
  ASSUME NEW S, NEW frames \in Seq(S), NEW k \in 0..(Len(frames) - 1)
  PROVE  /\ SubSeq(frames, 1, k) \in Seq(S) /\ Len(SubSeq(frames, 1, k)) = k
         /\ frames[k + 1] \in S
         /\ SubSeq(frames, 1, k + 1) = Append(SubSeq(frames, 1, k), frames[k + 1])
<1> DEFINE s == SubSeq(frames, 1, k)
           t == SubSeq(frames, 1, k + 1)
           r == Append(s, frames[k + 1])
<1>1. Len(frames) \in Nat /\ k \in Nat /\ k + 1 \in 1..Len(frames) /\ frames[k + 1] \in S
  OBVIOUS
<1>2. s \in Seq(S) /\ Len(s) = k /\ \A i \in 1..k : s[i] = frames[i]
  BY <1>1
<1>3. t \in Seq(S) /\ Len(t) = k + 1 /\ \A i \in 1..(k + 1) : t[i] = frames[i]
  BY <1>1
<1> HIDE DEF s, t
<1>4. r \in Seq(S) /\ Len(r) = k + 1 /\ r[k + 1] = frames[k + 1] /\ \A i \in 1..k : r[i] = frames[i]
  BY <1>1, <1>2
<1> HIDE DEF r
<1>5. \A i \in 1..(k + 1) : t[i] = r[i]
  BY <1>1, <1>3, <1>4
<1>6. t = r
  BY <1>3, <1>4, <1>5, SeqEqual
<1> QED
  BY <1>1, <1>2, <1>6 DEF s, t, r

\* The bytes of a stream go on after those of its first frames with the next frame.
LEMMA NextInStream ==
  ASSUME NEW frames \in Seq(SoundFrames), NEW k \in 0..(Len(frames) - 1)
  PROVE  \E rest \in Seq(Byte) :
           BytesOf(frames) = BytesOf(SubSeq(frames, 1, k)) \o (FrameBytes(frames[k + 1]) \o rest)
<1> DEFINE n == Len(frames)
           Goes(j) == \E rest \in Seq(Byte) : BytesOf(frames) = BytesOf(SubSeq(frames, 1, j)) \o rest
           T == {i \in Nat : i <= n /\ ~Goes(n - i)}
<1>0. n \in Nat
  OBVIOUS
<1>1. Goes(n)
  <2>1. SubSeq(frames, 1, n) = frames
    BY SubSeqFull
  <2>2. BytesOf(frames) \in Seq(Byte) /\ <<>> \in Seq(Byte)
    BY BytesOfTyped
  <2>3. BytesOf(frames) = BytesOf(frames) \o <<>>
    BY <2>2
  <2> QED  BY <2>1, <2>2, <2>3
<1>2. ASSUME NEW j \in 0..(n - 1), Goes(j + 1)
      PROVE  \E rest \in Seq(Byte) :
               BytesOf(frames) = BytesOf(SubSeq(frames, 1, j)) \o (FrameBytes(frames[j + 1]) \o rest)
  <2> DEFINE s == SubSeq(frames, 1, j)
             f == frames[j + 1]
             a == BytesOf(s)
             b == FrameBytes(f)
  <2>1. s \in Seq(SoundFrames) /\ f \in SoundFrames /\ SubSeq(frames, 1, j + 1) = Append(s, f)
    BY FirstOf
  <2>2. PICK rest \in Seq(Byte) : BytesOf(frames) = BytesOf(SubSeq(frames, 1, j + 1)) \o rest
    BY <1>2
  <2> HIDE DEF s, f
  <2>3. BytesOf(Append(s, f)) = a \o b /\ a \in Seq(Byte) /\ b \in Seq(Byte)
    BY <2>1, BytesOfAppend, BytesOfTyped, FrameParts
  <2> HIDE DEF a, b, n
  <2>4. (a \o b) \o rest = a \o (b \o rest)
    <3>1. a \in Seq(Byte) /\ b \in Seq(Byte)
      BY <2>3
    <3> HIDE DEF Goes, T
    <3> QED  BY <3>1, ConcatAssociative
  <2>5. BytesOf(frames) = a \o (b \o rest)
    BY <2>1, <2>2, <2>3, <2>4
  <2> QED  BY <2>5 DEF a, b, s, f
<1>3. ASSUME NEW j \in 0..(n - 1), Goes(j + 1) PROVE Goes(j)
  <2>1. PICK rest \in Seq(Byte) :
          BytesOf(frames) = BytesOf(SubSeq(frames, 1, j)) \o (FrameBytes(frames[j + 1]) \o rest)
    BY <1>2, <1>3
  <2>2. frames[j + 1] \in SoundFrames
    BY FirstOf
  <2>3. FrameBytes(frames[j + 1]) \in Seq(Byte)
    BY <2>2, FrameParts
  <2>4. FrameBytes(frames[j + 1]) \o rest \in Seq(Byte)
    BY <2>3
  <2> QED  BY <2>1, <2>4
<1> HIDE DEF Goes, n
<1>4. ASSUME NEW i \in T PROVE \E m \in T : m < i
  <2>1. i \in Nat /\ i <= n /\ ~Goes(n - i)
    OBVIOUS
  <2>2. i # 0
    <3>1. ASSUME i = 0 PROVE FALSE
      <4>1. n - i = n
        BY <1>0, <3>1
      <4> QED  BY <1>1, <2>1, <4>1
    <3> QED  BY <3>1
  <2>3. /\ i - 1 \in Nat /\ i - 1 <= n /\ n - i \in 0..(n - 1) /\ (n - i) + 1 = n - (i - 1)
        /\ i - 1 < i
    BY <1>0, <2>1, <2>2
  <2>4. ~Goes((n - i) + 1)
    BY <1>3, <2>1, <2>3
  <2>5. ~Goes(n - (i - 1))
    BY <2>3, <2>4
  <2> QED  BY <2>3, <2>5
<1>5. T = {}
  <2>1. T \subseteq Nat
    OBVIOUS
  <2> HIDE DEF T
  <2> QED  BY <1>4, <2>1, NoLeastIsEmpty
<1>6. Goes(k + 1)
  <2> DEFINE i == n - (k + 1)
  <2>1. i \in Nat /\ i <= n /\ n - i = k + 1
    BY <1>0 DEF n
  <2> HIDE DEF i
  <2>2. i \notin T
    BY <1>5
  <2>3. Goes(n - i)
    BY <2>1, <2>2
  <2> QED  BY <2>1, <2>3
<1>7. k \in 0..(n - 1)
  BY DEF n
<1> QED
  BY <1>2, <1>6, <1>7

-----------------------------------------------------------------------------
(* What the handlers are told. *)

\* Who receives.
Ends == {"server", "client"}

\* All that a handler may be told.
Meanings == {Meaning(frame) : frame \in SoundFrames}

\* Of no frames they are told nothing.
LEMMA ToldNone ==
  ASSUME NEW at \in Ends
  PROVE  Told(at, <<>>) = <<>>
<1>1. 0 \in Nat /\ Len(<<>>) = 0 /\ DOMAIN <<>> = 1..0
  OBVIOUS
<1>2. \E R : /\ R[0] = <<>>
             /\ \A k \in 1..0 : R[k] = Tell(at, R[k - 1], <<>>[k])
             /\ Told(at, <<>>) = R[0]
  BY <1>1, FoldFrames DEF Ends
<1> QED
  BY <1>2

\* They are told of one frame after the other.
LEMMA ToldBy ==
  ASSUME NEW at \in Ends, NEW frames \in Seq(SoundFrames)
  PROVE  \E R : /\ R[0] = <<>>
                /\ \A k \in 1..Len(frames) : R[k] = Tell(at, R[k - 1], frames[k])
                /\ Told(at, frames) = R[Len(frames)]
<1> DEFINE n == Len(frames)
<1>1. n \in Nat /\ Len(frames) = n /\ DOMAIN frames = 1..n
  OBVIOUS
<1> HIDE DEF n
<1>2. \E R : /\ R[0] = <<>>
             /\ \A k \in 1..n : R[k] = Tell(at, R[k - 1], frames[k])
             /\ Told(at, frames) = R[n]
  BY <1>1, FoldFrames DEF Ends
<1> QED
  BY <1>2 DEF n

\* One frame more.
LEMMA ToldAppend ==
  ASSUME NEW at \in Ends, NEW frames \in Seq(SoundFrames), NEW frame \in SoundFrames
  PROVE  Told(at, Append(frames, frame)) = Tell(at, Told(at, frames), frame)
<1> DEFINE more == Append(frames, frame)
           n == Len(frames)
<1>1. /\ n \in Nat /\ DOMAIN frames = 1..n
      /\ Len(more) = n + 1 /\ DOMAIN more = 1..(n + 1) /\ more[n + 1] = frame
      /\ \A i \in 1..n : more[i] = frames[i]
  OBVIOUS
<1>2. PICK R : /\ R[0] = <<>>
               /\ \A k \in 1..n : R[k] = Tell(at, R[k - 1], frames[k])
               /\ Told(at, frames) = R[n]
  BY <1>1, FoldFrames DEF Ends
<1> HIDE DEF more, n
<1>3. PICK Q : /\ Q[0] = <<>>
               /\ \A k \in 1..(n + 1) : Q[k] = Tell(at, Q[k - 1], more[k])
               /\ Told(at, more) = Q[n + 1]
  <2>1. more \in Seq(SoundFrames)
    BY <1>1 DEF more
  <2>2. \E Q : /\ Q[0] = <<>>
               /\ \A k \in 1..Len(more) : Q[k] = Tell(at, Q[k - 1], more[k])
               /\ Told(at, more) = Q[Len(more)]
    BY <2>1, ToldBy
  <2> QED  BY <1>1, <2>2
<1> DEFINE T == {k \in 0..n : R[k] # Q[k]}
<1>4. ASSUME NEW k \in T PROVE \E m \in T : m < k
  <2>1. k # 0
    BY <1>2, <1>3
  <2>2. k \in 1..n /\ k \in 1..(n + 1) /\ k - 1 \in 0..n /\ k - 1 < k
    BY <1>1, <2>1
  <2>3. R[k] = Tell(at, R[k - 1], frames[k]) /\ Q[k] = Tell(at, Q[k - 1], frames[k])
    BY <1>1, <1>2, <1>3, <2>2
  <2>4. R[k - 1] # Q[k - 1]
    BY <2>3
  <2> QED  BY <2>2, <2>4
<1>5. T = {}
  <2>1. T \subseteq 0..n
    OBVIOUS
  <2>2. 0..n \subseteq Nat
    BY <1>1
  <2>3. T \subseteq Nat
    <3> HIDE DEF T
    <3> QED  BY <2>1, <2>2
  <2> HIDE DEF T
  <2> QED  BY <1>4, <2>3, NoLeastIsEmpty
<1>6. R[n] = Q[n]
  <2>1. n \in 0..n
    BY <1>1
  <2>2. n \notin T
    BY <1>5
  <2> QED  BY <2>1, <2>2
<1>7. Q[n + 1] = Tell(at, Q[n], frame)
  <2>1. n + 1 \in 1..(n + 1) /\ (n + 1) - 1 = n
    BY <1>1
  <2> QED  BY <1>1, <1>3, <2>1
<1> QED
  BY <1>2, <1>3, <1>6, <1>7 DEF more

\* What they are told of the first frames.
ToldOf(at, frames, k) == Told(at, SubSeq(frames, 1, k))

\* And of one more.
LEMMA ToldNext ==
  ASSUME NEW at \in Ends, NEW frames \in Seq(SoundFrames), NEW k \in 0..(Len(frames) - 1)
  PROVE  ToldOf(at, frames, k + 1) = Tell(at, ToldOf(at, frames, k), frames[k + 1])
<1>1. /\ SubSeq(frames, 1, k) \in Seq(SoundFrames) /\ frames[k + 1] \in SoundFrames
      /\ SubSeq(frames, 1, k + 1) = Append(SubSeq(frames, 1, k), frames[k + 1])
  BY FirstOf
<1> QED
  BY <1>1, ToldAppend DEF ToldOf

\* All they are told is what frames mean.
LEMMA ToldTyped ==
  ASSUME NEW at \in Ends, NEW frames \in Seq(SoundFrames), NEW k \in 0..Len(frames)
  PROVE  ToldOf(at, frames, k) \in Seq(Meanings)
<1> DEFINE n == Len(frames)
           T == {j \in 0..n : ToldOf(at, frames, j) \notin Seq(Meanings)}
<1>0. n \in Nat
  OBVIOUS
<1>1. ASSUME NEW j \in T PROVE \E m \in T : m < j
  <2>1. j # 0
    <3>1. SubSeq(frames, 1, 0) = <<>>
      OBVIOUS
    <3>2. ToldOf(at, frames, 0) = <<>>
      BY <3>1, ToldNone DEF ToldOf
    <3>4. <<>> \in Seq(Meanings)
      OBVIOUS
    <3>3. ToldOf(at, frames, 0) \in Seq(Meanings)
      BY <3>2, <3>4
    <3> QED  BY <3>3
  <2> DEFINE i == j - 1
  <2>2. i \in 0..(n - 1) /\ i \in 0..n /\ i + 1 = j /\ i < j
    BY <1>0, <2>1
  <2> HIDE DEF i
  <2>3. ToldOf(at, frames, i + 1) = Tell(at, ToldOf(at, frames, i), frames[i + 1])
        /\ frames[i + 1] \in SoundFrames
    BY <2>2, ToldNext, FirstOf
  <2>4. ASSUME ToldOf(at, frames, i) \in Seq(Meanings) PROVE FALSE
    <3> DEFINE told == ToldOf(at, frames, i)
               f == frames[i + 1]
    <3>1. told \in Seq(Meanings) /\ Meaning(f) \in Meanings
      BY <2>3, <2>4 DEF Meanings
    <3> HIDE DEF told, f
    <3>2. Append(told, Meaning(f)) \in Seq(Meanings)
      BY <3>1
    <3>3. Tell(at, told, f) \in Seq(Meanings)
      BY <3>1, <3>2 DEF Tell
    <3> QED  BY <2>2, <2>3, <3>3 DEF told, f
  <2> QED  BY <2>2, <2>4
<1>2. T = {}
  <2>1. T \subseteq 0..n
    OBVIOUS
  <2>2. 0..n \subseteq Nat
    OBVIOUS
  <2> HIDE DEF T
  <2>3. T \subseteq Nat
    BY <2>1, <2>2
  <2> QED  BY <1>1, <2>3, NoLeastIsEmpty
<1> QED
  BY <1>2

\* A beginning of a sequence is one of a longer sequence.
LEMMA PrefixGrows ==
  ASSUME NEW S, NEW s \in Seq(S), NEW t \in Seq(S), IsPrefix(s, t), NEW e \in S
  PROVE  IsPrefix(s, Append(t, e))
<1> DEFINE u == Append(t, e)
           n == Len(s)
           a == SubSeq(t, 1, n)
           b == SubSeq(u, 1, n)
<1>1. Len(t) \in Nat /\ n \in Nat /\ n <= Len(t) /\ SubSeq(s, 1, n) = a
  BY DEF IsPrefix
<1>2. u \in Seq(S) /\ Len(u) = Len(t) + 1 /\ \A i \in 1..Len(t) : u[i] = t[i]
  OBVIOUS
<1> HIDE DEF u, n
<1>3. a \in Seq(S) /\ Len(a) = n /\ \A i \in 1..n : a[i] = t[i]
  BY <1>1
<1>4. b \in Seq(S) /\ Len(b) = n /\ \A i \in 1..n : b[i] = u[i]
  BY <1>1, <1>2
<1>5. \A i \in 1..n : i \in 1..Len(t)
  BY <1>1
<1> HIDE DEF a, b
<1>6. \A i \in 1..n : a[i] = b[i]
  BY <1>2, <1>3, <1>4, <1>5
<1>7. a = b
  BY <1>3, <1>4, <1>6, SeqEqual
<1>8. n <= Len(u)
  BY <1>1, <1>2
<1> QED
  BY <1>1, <1>7, <1>8 DEF IsPrefix, u, n, b

\* What was told first is the beginning of what is told later.
LEMMA ToldBegins ==
  ASSUME NEW at \in Ends, NEW frames \in Seq(SoundFrames), NEW k \in 0..Len(frames),
         NEW p \in 0..Len(frames), k <= p
  PROVE  IsPrefix(ToldOf(at, frames, k), ToldOf(at, frames, p))
<1> DEFINE n == Len(frames)
           x == ToldOf(at, frames, k)
           T == {j \in 0..n : k <= j /\ ~IsPrefix(x, ToldOf(at, frames, j))}
<1>0. n \in Nat /\ x \in Seq(Meanings)
  BY ToldTyped
<1>1. IsPrefix(x, x)
  <2> HIDE DEF x
  <2> QED  BY <1>0 DEF IsPrefix
<1>2. ASSUME NEW j \in T PROVE \E m \in T : m < j
  <2>0. j \in 0..n /\ k <= j /\ ~IsPrefix(x, ToldOf(at, frames, j))
    OBVIOUS
  <2>1. j # k
    BY <1>1, <2>0
  <2> DEFINE i == j - 1
  <2>2. i \in 0..(n - 1) /\ i \in 0..n /\ i + 1 = j /\ i < j /\ k <= i
    BY <1>0, <2>0, <2>1
  <2> HIDE DEF i
  <2>3. ToldOf(at, frames, i + 1) = Tell(at, ToldOf(at, frames, i), frames[i + 1])
        /\ frames[i + 1] \in SoundFrames
    BY <2>2, ToldNext, FirstOf
  <2>4. ASSUME IsPrefix(x, ToldOf(at, frames, i)) PROVE FALSE
    <3> DEFINE told == ToldOf(at, frames, i)
               f == frames[i + 1]
    <3>1. told \in Seq(Meanings) /\ Meaning(f) \in Meanings
      BY <2>2, <2>3, ToldTyped DEF Meanings
    <3>2. IsPrefix(x, told)
      BY <2>4
    <3> HIDE DEF told, f, x
    <3>3. IsPrefix(x, Append(told, Meaning(f)))
      BY <1>0, <3>1, <3>2, PrefixGrows
    <3>4. IsPrefix(x, Tell(at, told, f))
      BY <3>2, <3>3 DEF Tell
    <3> QED  BY <2>0, <2>2, <2>3, <3>4 DEF told, f
  <2> QED  BY <2>2, <2>4
<1>3. T = {}
  <2>1. T \subseteq 0..n
    OBVIOUS
  <2>2. 0..n \subseteq Nat
    OBVIOUS
  <2> HIDE DEF T
  <2>3. T \subseteq Nat
    BY <2>1, <2>2
  <2> QED  BY <1>2, <2>3, NoLeastIsEmpty
<1>4. p \notin T
  BY <1>3
<1> QED
  BY <1>4

\* The frames before the first whose length cannot be one.
LEMMA ProperIs ==
  ASSUME sent \in Seq(SoundFrames)
  PROVE  \E p \in 0..Len(sent) :
           /\ Len(Proper) = p /\ Proper = SubSeq(sent, 1, p)
           /\ \A i \in 1..p : ~Bad(sent[i])
           /\ p < Len(sent) => Bad(sent[p + 1])
<1> DEFINE I == {i \in 1..Len(sent) : Bad(sent[i])}
           bad == IF I # {} THEN Min(I) ELSE 0
<1>0. Len(sent) \in Nat
  OBVIOUS
<1>1. Proper = IF bad = 0 THEN sent ELSE SubSeq(sent, 1, bad - 1)
  BY DEF Proper, SelectInSeq, Bad
<1>2. ASSUME I = {}
      PROVE  \E p \in 0..Len(sent) :
               /\ Len(Proper) = p /\ Proper = SubSeq(sent, 1, p)
               /\ \A i \in 1..p : ~Bad(sent[i])
               /\ p < Len(sent) => Bad(sent[p + 1])
  <2>1. Proper = sent
    BY <1>1, <1>2
  <2>2. SubSeq(sent, 1, Len(sent)) = sent
    BY SubSeqFull
  <2>3. \A i \in 1..Len(sent) : ~Bad(sent[i])
    BY <1>2
  <2>4. Len(sent) \in 0..Len(sent) /\ ~(Len(sent) < Len(sent))
    BY <1>0
  <2> DEFINE p == Len(sent)
  <2>5. p \in 0..Len(sent) /\ Len(Proper) = p /\ Proper = SubSeq(sent, 1, p) /\ ~(p < Len(sent))
    BY <2>1, <2>2, <2>4
  <2> HIDE DEF p
  <2>6. \A i \in 1..p : ~Bad(sent[i])
    BY <2>3 DEF p
  <2> QED  BY <2>5, <2>6
<1>3. ASSUME I # {}
      PROVE  \E p \in 0..Len(sent) :
               /\ Len(Proper) = p /\ Proper = SubSeq(sent, 1, p)
               /\ \A i \in 1..p : ~Bad(sent[i])
               /\ p < Len(sent) => Bad(sent[p + 1])
  <2>1. \E x \in I : \A y \in I : x <= y
    <3>1. I \subseteq Nat
      BY <1>0
    <3>2. ASSUME ~\E x \in I : \A y \in I : x <= y PROVE FALSE
      <4> HIDE DEF I
      <4>1. \A x \in I : \E y \in I : y < x
        BY <3>1, <3>2
      <4>2. I = {}
        BY <3>1, <4>1, NoLeastIsEmpty
      <4> QED  BY <1>3, <4>2
    <3> QED  BY <3>2
  <2>2. bad \in I /\ \A y \in I : bad <= y
    <3> HIDE DEF I
    <3>1. bad = Min(I)
      BY <1>3
    <3>2. Min(I) \in I /\ \A y \in I : Min(I) <= y
      BY <2>1 DEF Min
    <3> QED  BY <3>1, <3>2
  <2> HIDE DEF bad
  <2>3. bad \in 1..Len(sent) /\ Bad(sent[bad])
    BY <2>2
  <2> DEFINE p == bad - 1
  <2>4. p \in 0..Len(sent) /\ p + 1 = bad /\ p < Len(sent)
    BY <1>0, <2>3
  <2>5. Proper = SubSeq(sent, 1, p)
    BY <1>1, <2>3
  <2>6. \A i \in 1..p : ~Bad(sent[i])
    <3> TAKE i \in 1..p
    <3>1. i \in 1..Len(sent) /\ ~(bad <= i)
      BY <1>0, <2>3
    <3>2. i \notin I
      BY <2>2, <3>1
    <3> QED  BY <3>1, <3>2
  <2> HIDE DEF p
  <2>7. Len(SubSeq(sent, 1, p)) = p
    BY <2>4
  <2> QED  BY <2>3, <2>4, <2>5, <2>6, <2>7
<1> QED
  BY <1>2, <1>3

-----------------------------------------------------------------------------
(* The buffers of a connection. A Buffer is a queue of bytes: what is      *)
(* appended comes out in order and unchanged, whatever its size, wherever  *)
(* its indices stand, and whichever way the space is made.                 *)

\* The indices are in order and within the vector, and the space in front is kept.
IsBuffer(B) ==
  /\ DOMAIN B = {"size", "bytes", "readerIndex", "writerIndex"}
  /\ B.size \in Nat /\ B.readerIndex \in Nat /\ B.writerIndex \in Nat
  /\ B.bytes \in [0..(B.size - 1) -> Byte]
  /\ kCheapPrepend <= B.readerIndex
  /\ B.readerIndex <= B.writerIndex
  /\ B.writerIndex <= B.size

\* What resize() fills new space with is a byte.
LEMMA ZeroIsAByte == 0 \in Byte
BY CodecAssumption DEF Byte

\* The constructor makes a Buffer with nothing to read.
LEMMA NewBufferIsEmpty == IsBuffer(NewBuffer) /\ Readable(NewBuffer) = <<>>
<1> USE BufferAssumption, ZeroIsAByte DEF NewBuffer
<1>1. IsBuffer(NewBuffer)
  BY DEF IsBuffer
<1>2. readableBytes(NewBuffer) = 0
  BY DEF readableBytes
<1>3. Readable(NewBuffer) = <<>>
  BY <1>2 DEF Readable
<1> QED
  BY <1>1, <1>3

\* readableBytes() counts what can be read from peek() on, and all of it is bytes.
LEMMA ReadableTyped ==
  ASSUME NEW B, IsBuffer(B)
  PROVE  /\ readableBytes(B) \in Nat
         /\ Readable(B) \in Seq(Byte)
         /\ Len(Readable(B)) = readableBytes(B)
<1> USE BufferAssumption
<1>1. readableBytes(B) \in Nat
  BY DEF IsBuffer, readableBytes
<1>2. \A i \in 1..readableBytes(B) : B.bytes[B.readerIndex + i - 1] \in Byte
  BY DEF IsBuffer, readableBytes
<1>3. Readable(B) \in [1..readableBytes(B) -> Byte]
  BY <1>2 DEF Readable
<1> QED
  BY <1>1, <1>3

\* Data copied to beginWrite(), where there is room for it, follow what was readable.
LEMMA WriteAppends ==
  ASSUME NEW B, IsBuffer(B), NEW data \in Seq(Byte), Len(data) <= writableBytes(B)
  PROVE  IsBuffer(Write(B, data)) /\ Readable(Write(B, data)) = Readable(B) \o data
<1> USE BufferAssumption
<1> DEFINE W == Write(B, data)
<1>1. Len(data) \in Nat /\ B.writerIndex + Len(data) <= B.size
  BY DEF IsBuffer, writableBytes
<1>2. /\ W.size = B.size /\ W.readerIndex = B.readerIndex
      /\ W.writerIndex = B.writerIndex + Len(data)
      /\ W.bytes = [i \in 0..(B.size - 1) |->
                      IF i - B.writerIndex \in 0..(Len(data) - 1)
                        THEN data[i - B.writerIndex + 1] ELSE B.bytes[i]]
  BY DEF Write, IsBuffer
<1>3. ASSUME NEW i \in 0..(B.size - 1) PROVE W.bytes[i] \in Byte
  <2> HIDE DEF W
  <2>1. CASE i - B.writerIndex \in 0..(Len(data) - 1)
    <3>1. i - B.writerIndex + 1 \in 1..Len(data)
      BY <1>1, <2>1 DEF IsBuffer
    <3> QED  BY <1>2, <2>1, <3>1, ElementOfSeq
  <2>2. CASE ~(i - B.writerIndex \in 0..(Len(data) - 1))
    BY <1>2, <2>2 DEF IsBuffer
  <2> QED  BY <2>1, <2>2
<1>4. IsBuffer(W)
  <2>1. W.bytes \in [0..(W.size - 1) -> Byte]
    BY <1>2, <1>3
  <2>2. DOMAIN W = DOMAIN B
    BY DEF Write
  <2> HIDE DEF W
  <2> QED
    BY <1>1, <1>2, <2>1, <2>2 DEF IsBuffer
<1>5. readableBytes(W) = readableBytes(B) + Len(data)
  BY <1>1, <1>2 DEF readableBytes, IsBuffer
<1>6. Len(Readable(B) \o data) = readableBytes(B) + Len(data)
  BY ReadableTyped
<1>7. ASSUME NEW i \in 1..(readableBytes(B) + Len(data))
      PROVE  Readable(W)[i] = (Readable(B) \o data)[i]
  <2> HIDE DEF W
  <2>1. Readable(W)[i] = W.bytes[B.readerIndex + i - 1]
    BY <1>2, <1>5 DEF Readable
  <2>2. CASE i <= readableBytes(B)
    <3>1. (Readable(B) \o data)[i] = Readable(B)[i]
      BY <2>2, ReadableTyped
    <3>3. Readable(B)[i] = B.bytes[B.readerIndex + i - 1]
      BY <2>2, ReadableTyped DEF Readable
    <3>2. W.bytes[B.readerIndex + i - 1] = B.bytes[B.readerIndex + i - 1]
      BY <1>1, <1>2, <2>2 DEF IsBuffer, readableBytes
    <3> QED  BY <2>1, <3>1, <3>2, <3>3
  <2>3. CASE i > readableBytes(B)
    <3>1. (Readable(B) \o data)[i] = data[i - readableBytes(B)]
      BY <2>3, ReadableTyped
    <3> DEFINE j == B.readerIndex + i - 1
    <3>3. /\ j \in 0..(B.size - 1) /\ j - B.writerIndex \in 0..(Len(data) - 1)
          /\ j - B.writerIndex + 1 = i - readableBytes(B)
      <4> DEFINE r == B.readerIndex
                 w == B.writerIndex
      <4>1. r \in Nat /\ w \in Nat /\ B.size \in Nat /\ r <= w
        BY DEF IsBuffer
      <4>2. i \in Int /\ i > w - r /\ i <= (w - r) + Len(data)
        BY <1>1, <2>3, <4>1 DEF readableBytes
      <4>3. Len(data) \in Nat /\ w + Len(data) <= B.size
        BY <1>1
      <4>4. readableBytes(B) = w - r /\ B.writerIndex = w /\ j = r + i - 1
        BY DEF readableBytes
      <4> HIDE DEF r, w, j
      <4> QED  BY <4>1, <4>2, <4>3, <4>4
    <3>2. W.bytes[j] = data[i - readableBytes(B)]
      <4> HIDE DEF j
      <4> QED  BY <1>2, <3>3
    <3> QED  BY <2>1, <3>1, <3>2
  <2> QED  BY <2>2, <2>3, ReadableTyped
<1>8. Readable(W) = Readable(B) \o data
  <2> HIDE DEF W
  <2>1. Readable(W) \in Seq(Byte) /\ Len(Readable(W)) = readableBytes(W)
    BY <1>4, ReadableTyped
  <2>2. Readable(B) \o data \in Seq(Byte)
    BY ReadableTyped
  <2>3. Len(Readable(W)) = Len(Readable(B) \o data)
    BY <1>5, <1>6, <2>1
  <2>4. \A i \in 1..Len(Readable(W)) : Readable(W)[i] = (Readable(B) \o data)[i]
    BY <1>5, <1>7, <2>1
  <2> QED  BY <2>1, <2>2, <2>3, <2>4, SeqEqual
<1> QED
  BY <1>4, <1>8

\* ensureWritableBytes(), by either branch of makeSpace(), makes room and changes
\* nothing that can be read.
LEMMA EnsureWritableKeeps ==
  ASSUME NEW B, IsBuffer(B), NEW len \in Nat
  PROVE  LET E == EnsureWritableBytes(B, len) IN
         IsBuffer(E) /\ Readable(E) = Readable(B) /\ len <= writableBytes(E)
<1> USE BufferAssumption, ZeroIsAByte
<1>1. CASE ~(writableBytes(B) < len)
  BY <1>1 DEF EnsureWritableBytes, writableBytes, IsBuffer
<1>2. CASE /\ writableBytes(B) < len
           /\ writableBytes(B) + prependableBytes(B) < len + kCheapPrepend
  <2> DEFINE R == Resized(B, B.writerIndex + len)
  <2>1. EnsureWritableBytes(B, len) = R
    BY <1>2 DEF EnsureWritableBytes, MakeSpace
  <2>2. B.writerIndex + len > B.size
    BY <1>2 DEF writableBytes, IsBuffer
  <2>3. /\ DOMAIN R = DOMAIN B
        /\ R.size = B.writerIndex + len
        /\ R.bytes = [i \in 0..(B.writerIndex + len - 1) |->
                        IF i < B.size THEN B.bytes[i] ELSE 0]
        /\ R.readerIndex = B.readerIndex /\ R.writerIndex = B.writerIndex
    BY DEF Resized, IsBuffer
  <2> HIDE DEF R
  <2>4. \A i \in 0..(B.writerIndex + len - 1) :
          (IF i < B.size THEN B.bytes[i] ELSE 0) \in Byte
    BY DEF IsBuffer
  <2>5. IsBuffer(R)
    BY <2>2, <2>3, <2>4 DEF IsBuffer
  <2>6. readableBytes(R) = readableBytes(B)
    BY <2>3 DEF readableBytes
  <2>7. \A i \in 1..readableBytes(B) :
          R.bytes[R.readerIndex + i - 1] = B.bytes[B.readerIndex + i - 1]
    BY <2>2, <2>3 DEF readableBytes, IsBuffer
  <2>8. Readable(R) = Readable(B)
    BY <2>6, <2>7 DEF Readable
  <2>9. len <= writableBytes(R)
    BY <2>3 DEF writableBytes, IsBuffer
  <2> QED  BY <2>1, <2>5, <2>8, <2>9
<1>3. CASE /\ writableBytes(B) < len
           /\ ~(writableBytes(B) + prependableBytes(B) < len + kCheapPrepend)
  <2> DEFINE M == MoveToFront(B)
  <2>1. EnsureWritableBytes(B, len) = M
    BY <1>3 DEF EnsureWritableBytes, MakeSpace
  <2>2. /\ readableBytes(B) \in Nat
        /\ kCheapPrepend + readableBytes(B) + len <= B.size
    BY <1>3 DEF writableBytes, prependableBytes, readableBytes, IsBuffer
  <2>3. /\ DOMAIN M = DOMAIN B
        /\ M.size = B.size
        /\ M.bytes = [i \in 0..(B.size - 1) |->
                        IF i - kCheapPrepend \in 0..(readableBytes(B) - 1)
                          THEN B.bytes[B.readerIndex + i - kCheapPrepend] ELSE B.bytes[i]]
        /\ M.readerIndex = kCheapPrepend
        /\ M.writerIndex = kCheapPrepend + readableBytes(B)
    BY DEF MoveToFront, IsBuffer
  <2> HIDE DEF M
  <2>4. ASSUME NEW i \in 0..(B.size - 1)
        PROVE  (IF i - kCheapPrepend \in 0..(readableBytes(B) - 1)
                  THEN B.bytes[B.readerIndex + i - kCheapPrepend] ELSE B.bytes[i]) \in Byte
    <3>1. B.bytes[i] \in Byte
      BY DEF IsBuffer
    <3>2. CASE i - kCheapPrepend \in 0..(readableBytes(B) - 1)
      <4>1. B.readerIndex + i - kCheapPrepend \in 0..(B.size - 1)
        <5> DEFINE r == B.readerIndex
                   w == B.writerIndex
        <5>1. r \in Nat /\ w \in Nat /\ B.size \in Nat /\ r <= w /\ w <= B.size
          BY DEF IsBuffer
        <5>2. i - kCheapPrepend \in Int /\ 0 <= i - kCheapPrepend /\ i - kCheapPrepend <= w - r - 1
          BY <3>2, <5>1 DEF readableBytes
        <5>3. B.readerIndex + i - kCheapPrepend = r + (i - kCheapPrepend)
          BY <5>1, <5>2
        <5> HIDE DEF r, w
        <5> QED  BY <5>1, <5>2, <5>3
      <4>2. B.bytes[B.readerIndex + i - kCheapPrepend] \in Byte
        BY <4>1 DEF IsBuffer
      <4> QED  BY <3>2, <4>2
    <3> QED  BY <3>1, <3>2
  <2>5. IsBuffer(M)
    BY <2>2, <2>3, <2>4 DEF IsBuffer
  <2>6. readableBytes(M) = readableBytes(B)
    BY <2>2, <2>3 DEF readableBytes
  <2>7. \A i \in 1..readableBytes(B) :
          M.bytes[M.readerIndex + i - 1] = B.bytes[B.readerIndex + i - 1]
    <3> TAKE i \in 1..readableBytes(B)
    <3> DEFINE k == kCheapPrepend + i - 1
    <3>1. /\ k \in 0..(B.size - 1)
          /\ k - kCheapPrepend \in 0..(readableBytes(B) - 1)
          /\ M.readerIndex + i - 1 = k
      BY <2>2, <2>3 DEF IsBuffer
    <3>2. B.readerIndex + k - kCheapPrepend = B.readerIndex + i - 1
      BY DEF IsBuffer
    <3> HIDE DEF k
    <3> QED  BY <2>3, <3>1, <3>2
  <2>8. Readable(M) = Readable(B)
    BY <2>6, <2>7 DEF Readable
  <2>9. len <= writableBytes(M)
    BY <2>2, <2>3 DEF writableBytes, IsBuffer
  <2> QED  BY <2>1, <2>5, <2>8, <2>9
<1> QED
  BY <1>1, <1>2, <1>3

\* append(): the bytes follow those that were there, whichever way makeSpace goes.
THEOREM AppendIsAppend ==
  ASSUME NEW B, IsBuffer(B), NEW data \in Seq(Byte)
  PROVE  IsBuffer(AppendBytes(B, data)) /\ Readable(AppendBytes(B, data)) = Readable(B) \o data
<1> DEFINE E == EnsureWritableBytes(B, Len(data))
<1>1. Len(data) \in Nat
  OBVIOUS
<1>2. IsBuffer(E) /\ Readable(E) = Readable(B) /\ Len(data) <= writableBytes(E)
  BY <1>1, EnsureWritableKeeps
<1>3. AppendBytes(B, data) = Write(E, data)
  BY DEF AppendBytes
<1> HIDE DEF E
<1> QED
  BY <1>2, <1>3, WriteAppends

\* readFd(): what one readv put partly into the buffer and partly into extrabuf is
\* read as one piece.
THEOREM ReadFdIsAppend ==
  ASSUME NEW B, IsBuffer(B), NEW data \in Seq(Byte)
  PROVE  IsBuffer(ReadFd(B, data)) /\ Readable(ReadFd(B, data)) = Readable(B) \o data
<1> DEFINE writable == writableBytes(B)
<1>1. CASE Len(data) <= writable
  BY <1>1, WriteAppends DEF ReadFd
<1>2. CASE ~(Len(data) <= writable)
  <2> DEFINE front == SubSeq(data, 1, writable)
             back == SubSeq(data, writable + 1, Len(data))
             W == Write(B, front)
  <2>1. writable \in Nat /\ writable < Len(data)
    BY <1>2, BufferAssumption DEF IsBuffer, writableBytes
  <2>2. front \in Seq(Byte) /\ back \in Seq(Byte) /\ Len(front) = writable
    BY <2>1
  <2>3. front \o back = data
    <3>1. front \o back = SubSeq(data, 1, Len(data))
      BY <2>1, ConcatAdjacentSubSeq
    <3> QED  BY <3>1, SubSeqFull
  <2>4. IsBuffer(W) /\ Readable(W) = Readable(B) \o front
    <3>1. Len(front) <= writableBytes(B)
      BY <2>1, <2>2
    <3> HIDE DEF front
    <3> QED  BY <2>2, <3>1, WriteAppends
  <2>5. ReadFd(B, data) = AppendBytes(W, back)
    BY <1>2 DEF ReadFd
  <2> HIDE DEF writable, front, back, W
  <2>6. IsBuffer(AppendBytes(W, back)) /\ Readable(AppendBytes(W, back)) = Readable(W) \o back
    BY <2>2, <2>4, AppendIsAppend
  <2>7. Readable(B) \in Seq(Byte)
    BY ReadableTyped
  <2>8. (Readable(B) \o front) \o back = Readable(B) \o (front \o back)
    BY <2>2, <2>7
  <2> QED  BY <2>3, <2>4, <2>5, <2>6, <2>8
<1> QED
  BY <1>1, <1>2

\* retrieve(): the first bytes go and the others stay, also when the last byte goes
\* and the indices return to the front.
THEOREM RetrieveIsDrop ==
  ASSUME NEW B, IsBuffer(B), NEW len \in 0..readableBytes(B)
  PROVE  /\ IsBuffer(Retrieve(B, len))
         /\ Readable(Retrieve(B, len)) = SubSeq(Readable(B), len + 1, readableBytes(B))
<1> USE BufferAssumption
<1>0. readableBytes(B) \in Nat /\ Len(Readable(B)) = readableBytes(B)
  BY ReadableTyped
<1>1. CASE len < readableBytes(B)
  <2> DEFINE R == [B EXCEPT !.readerIndex = @ + len]
  <2>1. Retrieve(B, len) = R
    BY <1>1 DEF Retrieve
  <2>2. /\ DOMAIN R = DOMAIN B /\ R.size = B.size /\ R.bytes = B.bytes
        /\ R.readerIndex = B.readerIndex + len /\ R.writerIndex = B.writerIndex
    BY DEF IsBuffer
  <2> HIDE DEF R
  <2>3. IsBuffer(R)
    BY <1>1, <2>2 DEF IsBuffer, readableBytes
  <2>4. readableBytes(R) = readableBytes(B) - len
    BY <1>0, <2>2 DEF readableBytes, IsBuffer
  <2>5. SubSeq(Readable(B), len + 1, readableBytes(B))
          = [i \in 1..(readableBytes(B) - len) |-> Readable(B)[len + i]]
    BY <1>0, ReadableTyped
  <2>6. \A i \in 1..(readableBytes(B) - len) :
          Readable(B)[len + i] = R.bytes[R.readerIndex + i - 1]
    BY <1>0, <2>2 DEF Readable, IsBuffer
  <2>7. Readable(R) = [i \in 1..(readableBytes(B) - len) |-> Readable(B)[len + i]]
    BY <2>4, <2>6 DEF Readable
  <2> QED  BY <2>1, <2>3, <2>5, <2>7
<1>2. CASE len = readableBytes(B)
  <2> DEFINE R == RetrieveAll(B)
  <2>1. Retrieve(B, len) = R
    BY <1>0, <1>2 DEF Retrieve
  <2>2. /\ DOMAIN R = DOMAIN B /\ R.size = B.size /\ R.bytes = B.bytes
        /\ R.readerIndex = kCheapPrepend /\ R.writerIndex = kCheapPrepend
    BY DEF RetrieveAll, IsBuffer
  <2> HIDE DEF R
  <2>3. IsBuffer(R)
    BY <2>2 DEF IsBuffer
  <2>4. readableBytes(R) = 0
    BY <2>2 DEF readableBytes
  <2>5. Readable(R) = <<>>
    BY <2>4 DEF Readable
  <2>6. SubSeq(Readable(B), len + 1, readableBytes(B)) = <<>>
    BY <1>0, <1>2, ReadableTyped
  <2> QED  BY <2>1, <2>3, <2>5, <2>6
<1> QED
  BY <1>0, <1>1, <1>2

-----------------------------------------------------------------------------
(* The connection. *)

\* What follows the same bytes is the same.
LEMMA Cancel ==
  \A S : \A a, b, c \in Seq(S) : a \o b = a \o c => b = c
<1> TAKE S
<1> TAKE a, b, c \in Seq(S)
<1> HAVE a \o b = a \o c
<1>1. /\ SubSeq(a \o b, Len(a) + 1, Len(a \o b)) = b
      /\ SubSeq(a \o c, Len(a) + 1, Len(a \o c)) = c
  BY InFront
<1> QED
  BY <1>1

\* Concatenation by a name that the provers leave unexpanded.
Then(a, b) == a \o b

\* What is needed of it.
LEMMA ThenRegroup ==
  \A S : \A a, b, c \in Seq(S) : /\ Then(a, b) \in Seq(S)
                                 /\ Then(Then(a, b), c) = Then(a, Then(b, c))
                                 /\ Then(a, b) = Then(a, c) => b = c
<1> TAKE S
<1> TAKE a, b, c \in Seq(S)
<1>1. (a \o b) \o c = a \o (b \o c)
  BY Regroup
<1>2. a \o b = a \o c => b = c
  BY Cancel
<1>3. a \o b \in Seq(S)
  OBVIOUS
<1> QED
  BY <1>1, <1>2, <1>3 DEF Then

\* What follows the second of two pieces, when it is known what follows the first.
LEMMA RestFollows ==
  \A S : \A a, b, c, d, r \in Seq(S) :
    a = Then(c, r) /\ Then(a, b) = Then(c, d) => Then(r, b) = d
<1> TAKE S
<1> TAKE a, b, c, d, r \in Seq(S)
<1> HAVE a = Then(c, r) /\ Then(a, b) = Then(c, d)
<1>1. Then(r, b) \in Seq(S) /\ Then(Then(c, r), b) = Then(c, Then(r, b))
  BY ThenRegroup
<1>2. Then(c, Then(r, b)) = Then(c, d)
  BY <1>1
<1> QED
  BY <1>1, <1>2, ThenRegroup

\* A sequence is its beginning and its rest.
LEMMA CutAt ==
  ASSUME NEW S, NEW s \in Seq(S), NEW n \in 0..Len(s)
  PROVE  /\ SubSeq(s, 1, n) \in Seq(S) /\ Len(SubSeq(s, 1, n)) = n
         /\ SubSeq(s, n + 1, Len(s)) \in Seq(S)
         /\ Len(SubSeq(s, n + 1, Len(s))) = Len(s) - n
         /\ s = SubSeq(s, 1, n) \o SubSeq(s, n + 1, Len(s))
<1>1. n \in Nat /\ Len(s) \in Nat /\ n <= Len(s)
  OBVIOUS
<1>2. /\ SubSeq(s, 1, n) \in Seq(S) /\ Len(SubSeq(s, 1, n)) = n
      /\ SubSeq(s, n + 1, Len(s)) \in Seq(S)
      /\ Len(SubSeq(s, n + 1, Len(s))) = Len(s) - n
  BY <1>1
<1>3. SubSeq(s, 1, n) \o SubSeq(s, n + 1, Len(s)) = SubSeq(s, 1, Len(s))
  <2>1. 1 \in 1..(Len(s) + 1) /\ n \in (1 - 1)..Len(s) /\ Len(s) \in n..Len(s)
    BY <1>1
  <2> QED  BY <2>1, ConcatAdjacentSubSeq
<1>4. SubSeq(s, 1, Len(s)) = s
  BY SubSeqFull
<1> QED
  BY <1>2, <1>3, <1>4

\* Two ways to cut a stream: of what has arrived, c is the beginning, and the rest of
\* it and what is on its way are what follows c.
LEMMA SplitAt ==
  ASSUME NEW S, NEW a \in Seq(S), NEW b \in Seq(S), NEW c \in Seq(S), NEW d \in Seq(S),
         a \o b = c \o d, Len(c) <= Len(a)
  PROVE  /\ SubSeq(a, 1, Len(c)) = c
         /\ d = SubSeq(a, Len(c) + 1, Len(a)) \o b
<1> DEFINE n == Len(c)
           f == SubSeq(a, 1, n)
           r == SubSeq(a, n + 1, Len(a))
<1>1. n \in 0..Len(a)
  OBVIOUS
<1>2. /\ f \in Seq(S) /\ Len(f) = n /\ r \in Seq(S) /\ a = f \o r
      /\ \A i \in 1..n : f[i] = a[i]
  <2>1. f \in Seq(S) /\ Len(f) = n /\ r \in Seq(S) /\ a = f \o r
    <3>1. n \in 0..Len(a)
      BY <1>1
    <3> HIDE DEF n
    <3> QED  BY <3>1, CutAt
  <2>2. \A i \in 1..n : f[i] = a[i]
    <3>1. n \in 0..Len(a)
      BY <1>1
    <3> HIDE DEF n
    <3> QED  BY <3>1
  <2> QED  BY <2>1, <2>2
<1>3. \A i \in 1..n : a[i] = c[i]
  <2>1. /\ \A i \in 1..Len(a) : (a \o b)[i] = a[i]
        /\ \A i \in 1..Len(c) : (c \o d)[i] = c[i]
    BY InFront
  <2>2. \A i \in 1..n : i \in 1..Len(a)
    OBVIOUS
  <2> QED  BY <2>1, <2>2
<1>4. f = c
  <2> HIDE DEF f
  <2>1. \A i \in 1..Len(c) : f[i] = c[i]
    BY <1>2, <1>3
  <2>2. Len(f) = Len(c) /\ f \in Seq(S)
    BY <1>2
  <2> QED  BY <2>1, <2>2, SeqEqual
<1>5. r \in Seq(S) /\ a = c \o r
  BY <1>2, <1>4
<1> HIDE DEF r
<1>6. Then(r, b) = d
  <2>1. a = Then(c, r) /\ Then(a, b) = Then(c, d)
    BY <1>5 DEF Then
  <2>2. r \in Seq(S)
    BY <1>5
  <2> QED  BY <2>1, <2>2, RestFollows
<1>7. r \o b = d
  BY <1>6 DEF Then
<1> QED
  BY <1>4, <1>7 DEF r

\* A stream is what has been taken from it, what has been received and what is on its way.
Streamed(all, taken, rcvd, coming) == all = taken \o (rcvd \o coming)

\* Bytes sent go to the end of it.
LEMMA StreamSent ==
  \A S : \A all, taken, rcvd, coming, more \in Seq(S) :
    Streamed(all, taken, rcvd, coming) => Streamed(all \o more, taken, rcvd, coming \o more)
<1> TAKE S
<1> TAKE all, taken, rcvd, coming, more \in Seq(S)
<1> HAVE Streamed(all, taken, rcvd, coming)
<1>1. all = Then(taken, Then(rcvd, coming))
  BY DEF Streamed, Then
<1>2. Then(rcvd, coming) \in Seq(S)
  BY ThenRegroup
<1>3. Then(all, more) = Then(taken, Then(Then(rcvd, coming), more))
  BY <1>1, <1>2, ThenRegroup
<1>4. Then(Then(rcvd, coming), more) = Then(rcvd, Then(coming, more))
  BY ThenRegroup
<1>5. Then(all, more) = Then(taken, Then(rcvd, Then(coming, more)))
  BY <1>3, <1>4
<1> QED
  BY <1>5 DEF Streamed, Then

\* Bytes that arrive go from what is on its way to what has been received.
LEMMA StreamArrived ==
  \A S : \A all, taken, rcvd, coming, first, others \in Seq(S) :
    Streamed(all, taken, rcvd, coming) /\ coming = first \o others =>
      Streamed(all, taken, rcvd \o first, others)
<1> TAKE S
<1> TAKE all, taken, rcvd, coming, first, others \in Seq(S)
<1> HAVE Streamed(all, taken, rcvd, coming) /\ coming = first \o others
<1>1. all = Then(taken, Then(rcvd, Then(first, others)))
  BY DEF Streamed, Then
<1>2. Then(Then(rcvd, first), others) = Then(rcvd, Then(first, others))
  BY ThenRegroup
<1>3. all = Then(taken, Then(Then(rcvd, first), others))
  BY <1>1, <1>2
<1> QED
  BY <1>3 DEF Streamed, Then

\* All of a frame in front of what is received and on its way is received.
Leads(front, rest, rcvd, coming) ==
  rcvd \o coming = front \o rest /\ Len(front) <= Len(rcvd)

\* Such a frame is taken.
Advances(S, all, taken, rcvd, coming, front) ==
  /\ SubSeq(rcvd, 1, Len(front)) = front
  /\ SubSeq(rcvd, Len(front) + 1, Len(rcvd)) \in Seq(S)
  /\ Streamed(all, taken \o front, SubSeq(rcvd, Len(front) + 1, Len(rcvd)), coming)

\* The stream goes on behind it.
LEMMA StreamTaken ==
  \A S : \A all, taken, rcvd, coming, front, rest \in Seq(S) :
    Streamed(all, taken, rcvd, coming) /\ Leads(front, rest, rcvd, coming) =>
      Advances(S, all, taken, rcvd, coming, front)
<1> SUFFICES
      ASSUME NEW S, NEW all \in Seq(S), NEW taken \in Seq(S), NEW rcvd \in Seq(S),
             NEW coming \in Seq(S), NEW front \in Seq(S), NEW rest \in Seq(S),
             Streamed(all, taken, rcvd, coming), Leads(front, rest, rcvd, coming)
      PROVE  Advances(S, all, taken, rcvd, coming, front)
  OBVIOUS
<1>0. rcvd \o coming = front \o rest /\ Len(front) <= Len(rcvd)
  BY DEF Leads
<1> DEFINE others == SubSeq(rcvd, Len(front) + 1, Len(rcvd))
<1>1. SubSeq(rcvd, 1, Len(front)) = front /\ rest = others \o coming
  BY <1>0, SplitAt
<1>2. others \in Seq(S)
  <2>1. Len(front) \in 0..Len(rcvd)
    <3>1. Len(front) <= Len(rcvd)
      BY DEF Leads
    <3>2. Len(front) \in Nat /\ Len(rcvd) \in Nat
      OBVIOUS
    <3> QED  BY ONLY <3>1, <3>2
  <2> DEFINE n == Len(front)
  <2>2. n \in 0..Len(rcvd)
    BY <2>1
  <2> HIDE DEF n
  <2>3. SubSeq(rcvd, n + 1, Len(rcvd)) \in Seq(S)
    BY <2>2, CutAt
  <2> QED  BY <2>3 DEF n
<1> HIDE DEF others
<1>3. all = Then(taken, Then(front, Then(others, coming)))
  <2>1. all = taken \o (rcvd \o coming)
    BY DEF Streamed
  <2>2. all = taken \o (front \o (others \o coming))
    BY ONLY <1>0, <1>1, <2>1
  <2> QED  BY ONLY <2>2 DEF Then
<1>4. Then(others, coming) \in Seq(S)
  BY ONLY <1>2, coming \in Seq(S), ThenRegroup
<1>5. all = Then(Then(taken, front), Then(others, coming))
  BY ONLY <1>3, <1>4, taken \in Seq(S), front \in Seq(S), ThenRegroup
<1>6. Streamed(all, taken \o front, others, coming)
  BY ONLY <1>5 DEF Streamed, Then
<1> QED
  BY <1>1, <1>2, <1>6 DEF Advances, others

\* A receiver that has been told of the first k frames, all of them proper, has taken
\* their bytes.
Stands(at, frames, told, up, rcvd, coming, k) ==
  /\ k \in 0..Len(frames)
  /\ \A i \in 1..k : ~Bad(frames[i])
  /\ told = ToldOf(at, frames, k)
  /\ up => Streamed(BytesOf(frames), BytesOf(SubSeq(frames, 1, k)), rcvd, coming)

\* So does the receiver of the connection.
AtFrame(k) == Stands(side, sent, handled, open, Received, wire, k)

\* What is so of every state, whatever the connection began with.
Typed ==
  /\ side \in Ends /\ open \in BOOLEAN /\ reading \in BOOLEAN
  /\ sent \in Seq(SoundFrames) /\ wire \in Seq(Byte)
  /\ ~open => wire = <<>>
  /\ reading => open
  /\ side = "server" => IsBuffer(buffer) /\ recvBuf = <<>> /\ leftover = <<>>
  /\ Clean => Received \in Seq(Byte)

\* The inductive invariant.
WireInv ==
  /\ Typed
  /\ Clean => /\ open /\ ~reading => ~HasFrame
              /\ \E k \in Nat : AtFrame(k)

\* The frame in front is the next of those sent.
LEMMA FrontFrame ==
  ASSUME Typed, Clean, open, NEW k \in Nat, AtFrame(k), HasHeader
  PROVE  /\ k \in 0..(Len(sent) - 1) /\ sent[k + 1] \in SoundFrames
         /\ FrontLength = TotalLen(sent[k + 1])
         /\ FrontType = sent[k + 1].message.type
         /\ \E rest \in Seq(Byte) : Received \o wire = FrameBytes(sent[k + 1]) \o rest
<1> DEFINE R == Received
           done == BytesOf(SubSeq(sent, 1, k))
<1>1. /\ R \in Seq(Byte) /\ wire \in Seq(Byte) /\ sent \in Seq(SoundFrames)
      /\ Len(R) >= 6 /\ k \in 0..Len(sent)
      /\ BytesOf(sent) = done \o (R \o wire)
  BY DEF Typed, AtFrame, Stands, Streamed, HasHeader, HEADER_SIZE
<1>2. SubSeq(sent, 1, k) \in Seq(SoundFrames)
  BY <1>1, CutAt
<1>3. done \in Seq(Byte)
  BY <1>2, BytesOfTyped
<1>4. R \o wire \in Seq(Byte) /\ R \o wire # <<>>
  <2> HIDE DEF R
  <2>1. R \in Seq(Byte) /\ wire \in Seq(Byte) /\ Len(R) >= 6
    BY <1>1
  <2> QED  BY <2>1
<1>5. k # Len(sent)
  <2>1. ASSUME k = Len(sent) PROVE FALSE
    <3>1. SubSeq(sent, 1, k) = sent
      BY <1>1, <2>1, SubSeqFull
    <3>2. BytesOf(sent) = done
      BY <3>1
    <3> DEFINE rw == R \o wire
    <3>3. rw \in Seq(Byte) /\ rw # <<>> /\ done = done \o rw
      BY <1>1, <1>4, <3>2
    <3> HIDE DEF rw, done
    <3>4. done \o <<>> = done /\ <<>> \in Seq(Byte)
      BY <1>3
    <3>5. done \o rw = done \o <<>>
      BY <3>3, <3>4
    <3>6. rw = <<>>
      <4>1. rw \in Seq(Byte) /\ <<>> \in Seq(Byte) /\ done \in Seq(Byte)
        BY <1>3, <3>3, <3>4
      <4> QED  BY <3>5, <4>1, Cancel
    <3> QED  BY <3>3, <3>6
  <2> QED  BY <2>1
<1>6. k \in 0..(Len(sent) - 1)
  <2>1. Len(sent) \in Nat
    BY <1>1
  <2> QED  BY <1>1, <1>5, <2>1
<1> DEFINE f == sent[k + 1]
<1>7. f \in SoundFrames
  BY <1>1, <1>6, FirstOf
<1>8. PICK rest \in Seq(Byte) : BytesOf(sent) = done \o (FrameBytes(f) \o rest)
  BY <1>1, <1>6, NextInStream
<1> HIDE DEF R, done, f
<1>9. FrameBytes(f) \in Seq(Byte) /\ Len(FrameBytes(f)) >= 6
  BY <1>7, FrameParts
<1>10. R \o wire = FrameBytes(f) \o rest
  <2> DEFINE x == R \o wire
             y == FrameBytes(f) \o rest
  <2>1. y \in Seq(Byte)
    BY <1>9
  <2>2. x \in Seq(Byte) /\ done \o x = done \o y
    BY <1>1, <1>4, <1>8
  <2> HIDE DEF x, y
  <2>3. x = y
    BY <1>3, <2>1, <2>2, Cancel
  <2> QED  BY <2>3 DEF x, y
<1>11. \A i \in 1..6 : R[i] = FrameBytes(f)[i]
  <2> DEFINE b == FrameBytes(f)
  <2>0. R \in Seq(Byte) /\ wire \in Seq(Byte) /\ b \in Seq(Byte) /\ rest \in Seq(Byte)
    BY <1>1, <1>9
  <2>1. Len(R) \in Nat /\ Len(b) \in Nat /\ Len(R) >= 6 /\ Len(b) >= 6 /\ R \o wire = b \o rest
    BY <1>1, <1>9, <1>10
  <2> HIDE DEF b
  <2>2. \A i \in 1..Len(R) : (R \o wire)[i] = R[i]
    BY <2>0, InFront
  <2>3. \A i \in 1..Len(b) : (b \o rest)[i] = b[i]
    BY <2>0, InFront
  <2>4. \A i \in 1..6 : i \in 1..Len(R) /\ i \in 1..Len(b)
    BY <2>1
  <2>5. \A i \in 1..6 : R[i] = b[i]
    BY <2>1, <2>2, <2>3, <2>4
  <2> QED  BY <2>5 DEF b
<1>12. /\ ReadUnsigned(R, 4) = TotalLen(f)
       /\ ReadUnsigned(SubSeq(R, 5, 6), 2) = MsgType[f.message.type]
  BY <1>1, <1>7, <1>11, HeaderIsRead
<1>13. FrontLength = TotalLen(f)
  BY <1>12 DEF FrontLength, Width, R
<1>14. FrontType = f.message.type
  <2> DEFINE code == ReadUnsigned(SubSeq(Received, Width["u32"] + 1, HEADER_SIZE), Width["u16"])
             types == {type \in DOMAIN MsgType : MsgType[type] = code}
  <2>1. FrontType = IF types = {} THEN "unknown" ELSE CHOOSE type \in types : TRUE
    BY DEF FrontType
  <2>4. code = MsgType[f.message.type]
    <3>1. Width["u32"] + 1 = 5 /\ HEADER_SIZE = 6 /\ Width["u16"] = 2
      BY DEF Width, HEADER_SIZE
    <3> QED  BY <1>12, <3>1 DEF R
  <2> HIDE DEF code
  <2>2. f.message.type \in DOMAIN MsgType
    BY <1>7, PayloadTyped DEF IsMessage
  <2>3. f.message.type \in types /\ \A type \in types : type = f.message.type
    BY <2>2, <2>4, CodesDiffer
  <2> HIDE DEF types
  <2> QED  BY <2>1, <2>3
<1> QED
  BY <1>6, <1>7, <1>10, <1>13, <1>14 DEF R, f

-----------------------------------------------------------------------------
(* The steps of a connection. *)

\* A frame more is sent.
LEMMA StandsSent ==
  ASSUME NEW at \in Ends, NEW frames \in Seq(SoundFrames), NEW told, NEW up,
         NEW rcvd \in Seq(Byte), NEW coming \in Seq(Byte), NEW k \in Nat,
         NEW frame \in SoundFrames, up, Stands(at, frames, told, up, rcvd, coming, k)
  PROVE  Stands(at, Append(frames, frame), told, up, rcvd, coming \o FrameBytes(frame), k)
<1> DEFINE more == Append(frames, frame)
           b == FrameBytes(frame)
           n == Len(frames)
<1>1. n \in Nat /\ k \in 0..n /\ \A i \in 1..k : ~Bad(frames[i])
  BY DEF Stands
<1>2. more \in Seq(SoundFrames) /\ Len(more) = n + 1 /\ \A i \in 1..n : more[i] = frames[i]
  OBVIOUS
<1> HIDE DEF more, n
<1>3. k \in 0..Len(more) /\ \A i \in 1..k : i \in 1..n
  BY <1>1, <1>2
<1>4. \A i \in 1..k : ~Bad(more[i])
  BY <1>1, <1>2, <1>3
<1>5. SubSeq(more, 1, k) = SubSeq(frames, 1, k)
  <2> DEFINE s == SubSeq(frames, 1, k)
             t == SubSeq(more, 1, k)
  <2>1. s \in Seq(SoundFrames) /\ Len(s) = k /\ \A i \in 1..k : s[i] = frames[i]
    BY <1>1 DEF n
  <2>2. t \in Seq(SoundFrames) /\ Len(t) = k /\ \A i \in 1..k : t[i] = more[i]
    BY <1>1, <1>2
  <2> HIDE DEF s, t
  <2>3. \A i \in 1..k : s[i] = t[i]
    BY <1>2, <1>3, <2>1, <2>2
  <2>4. s = t
    BY <2>1, <2>2, <2>3, SeqEqual
  <2> QED  BY <2>4 DEF s, t
<1>6. told = ToldOf(at, more, k)
  BY <1>5 DEF Stands, ToldOf
<1>7. Streamed(BytesOf(more), BytesOf(SubSeq(more, 1, k)), rcvd, coming \o b)
  <2> DEFINE B == BytesOf(frames)
             D == BytesOf(SubSeq(frames, 1, k))
  <2>1. Streamed(B, D, rcvd, coming)
    BY DEF Stands
  <2>2. B \in Seq(Byte) /\ b \in Seq(Byte)
    BY BytesOfTyped, FrameParts
  <2>3. D \in Seq(Byte)
    <3>1. SubSeq(frames, 1, k) \in Seq(SoundFrames)
      BY <1>1, CutAt DEF n
    <3> QED  BY <3>1, BytesOfTyped
  <2>4. BytesOf(more) = B \o b
    BY BytesOfAppend DEF more
  <2> HIDE DEF B, D, b
  <2>5. Streamed(B \o b, D, rcvd, coming \o b)
    BY <2>1, <2>2, <2>3, StreamSent
  <2> QED  BY <1>5, <2>4, <2>5 DEF D
<1> QED
  BY <1>3, <1>4, <1>6, <1>7 DEF Stands, more, b

\* Some of what is on its way arrives.
LEMMA StandsArrived ==
  ASSUME NEW at, NEW frames \in Seq(SoundFrames), NEW told, NEW up,
         NEW rcvd \in Seq(Byte), NEW coming \in Seq(Byte), NEW k \in Nat,
         NEW first \in Seq(Byte), NEW others \in Seq(Byte), coming = first \o others,
         Stands(at, frames, told, up, rcvd, coming, k)
  PROVE  Stands(at, frames, told, up, rcvd \o first, others, k)
<1> DEFINE B == BytesOf(frames)
           D == BytesOf(SubSeq(frames, 1, k))
<1>1. up => Streamed(B, D, rcvd, coming)
  BY DEF Stands
<1>2. B \in Seq(Byte)
  BY BytesOfTyped
<1>3. D \in Seq(Byte)
  <2>1. k \in 0..Len(frames)
    BY DEF Stands
  <2>2. SubSeq(frames, 1, k) \in Seq(SoundFrames)
    BY <2>1, CutAt
  <2> QED  BY <2>2, BytesOfTyped
<1>4. up => Streamed(B, D, rcvd \o first, others)
  <2> HIDE DEF B, D
  <2> QED  BY <1>1, <1>2, <1>3, StreamArrived
<1> QED
  BY <1>4 DEF Stands

\* The next frame is told and taken.
LEMMA StandsTaken ==
  ASSUME NEW at \in Ends, NEW frames \in Seq(SoundFrames), NEW told, NEW up,
         NEW rcvd \in Seq(Byte), NEW coming \in Seq(Byte), NEW k \in 0..(Len(frames) - 1),
         NEW rest \in Seq(Byte), up, Stands(at, frames, told, up, rcvd, coming, k),
         ~Bad(frames[k + 1]), rcvd \o coming = FrameBytes(frames[k + 1]) \o rest,
         Len(FrameBytes(frames[k + 1])) <= Len(rcvd)
  PROVE  LET l == Len(FrameBytes(frames[k + 1])) IN
         /\ SubSeq(rcvd, 1, l) = FrameBytes(frames[k + 1])
         /\ SubSeq(rcvd, l + 1, Len(rcvd)) \in Seq(Byte)
         /\ Stands(at, frames, Tell(at, told, frames[k + 1]), up,
                   SubSeq(rcvd, l + 1, Len(rcvd)), coming, k + 1)
<1> DEFINE f == frames[k + 1]
           b == FrameBytes(f)
           B == BytesOf(frames)
           D == BytesOf(SubSeq(frames, 1, k))
           D1 == BytesOf(SubSeq(frames, 1, k + 1))
           others == SubSeq(rcvd, Len(b) + 1, Len(rcvd))
<1>1. k + 1 \in 0..Len(frames) /\ k \in Nat /\ Len(frames) \in Nat
  OBVIOUS
<1>2. /\ SubSeq(frames, 1, k) \in Seq(SoundFrames) /\ f \in SoundFrames
      /\ SubSeq(frames, 1, k + 1) = Append(SubSeq(frames, 1, k), f)
  BY FirstOf
<1>3. B \in Seq(Byte) /\ D \in Seq(Byte) /\ b \in Seq(Byte)
  BY <1>2, BytesOfTyped, FrameParts
<1>4. D1 = D \o b
  BY <1>2, BytesOfAppend
<1>5. Streamed(B, D, rcvd, coming) /\ Leads(b, rest, rcvd, coming)
  BY DEF Stands, Leads
<1>6. Advances(Byte, B, D, rcvd, coming, b)
  <2> HIDE DEF B, D, b
  <2> QED  BY <1>3, <1>5, StreamTaken
<1>7. Streamed(B, D1, others, coming)
  BY <1>4, <1>6 DEF Advances
<1>8. told = ToldOf(at, frames, k) /\ \A i \in 1..k : ~Bad(frames[i])
  BY DEF Stands
<1>9. Tell(at, told, f) = ToldOf(at, frames, k + 1)
  BY <1>8, ToldNext
<1>10. \A i \in 1..(k + 1) : ~Bad(frames[i])
  <2> TAKE i \in 1..(k + 1)
  <2>1. i = k + 1 \/ i \in 1..k
    BY <1>1
  <2> QED  BY <1>8, <2>1
<1>11. Stands(at, frames, Tell(at, told, f), up, others, coming, k + 1)
  BY <1>1, <1>7, <1>9, <1>10 DEF Stands
<1> QED
  BY <1>6, <1>11 DEF Advances

\* A connection that has just been made.
LEMMA StandsNew ==
  ASSUME NEW at \in Ends, NEW up
  PROVE  Stands(at, <<>>, <<>>, up, <<>>, <<>>, 0)
<1>1. <<>> \in Seq(SoundFrames) /\ Len(<<>>) = 0 /\ SubSeq(<<>>, 1, 0) = <<>>
  OBVIOUS
<1>2. 0 \in 0..Len(<<>>) /\ \A i \in 1..0 : ~Bad(<<>>[i])
  OBVIOUS
<1>3. <<>> = ToldOf(at, <<>>, 0)
  BY <1>1, ToldNone DEF ToldOf
<1>4. Streamed(BytesOf(<<>>), BytesOf(SubSeq(<<>>, 1, 0)), <<>>, <<>>)
  <2>1. BytesOf(SubSeq(<<>>, 1, 0)) = <<>> /\ BytesOf(<<>>) = <<>>
    BY <1>1, BytesOfNone
  <2>2. <<>> = <<>> \o (<<>> \o <<>>)
    OBVIOUS
  <2> QED  BY <2>1, <2>2 DEF Streamed
<1> QED
  BY <1>2, <1>3, <1>4 DEF Stands

-----------------------------------------------------------------------------
(* The inductive invariant is kept. *)

\* What a sender's checks let through.
LEMMA SentIsSound ==
  ASSUME side \in Ends, NEW frame \in Frames, CanSend(frame)
  PROVE  frame \in SoundFrames
<1> DEFINE m == frame.message
           e == Encode(m)
<1>1. Encodable(m) /\ (frame.damage = "cut" => e # <<>>)
  BY DEF CanSend
<1>2. ASSUME side = "client" PROVE frame \in SoundFrames
  <2>1. PICK message \in Answers : frame = [message |-> message, damage |-> "none"]
    BY <1>2 DEF Frames, Intact
  <2>2. frame \in [message : Requests \cup Answers, damage : Damages] /\ frame.damage = "none"
    BY <2>1 DEF Damages
  <2>3. IsMessage(m)
    BY <2>2, WireAssumption
  <2>4. e \in Seq(Byte)
    BY <1>1, <2>3, EncodeTyped
  <2>5. Payload(frame) = e /\ ~Bad(frame)
    BY <2>2 DEF Payload, Bad
  <2>6. Len(e) <= MAX_FRAME - HEADER_SIZE
    BY <1>2 DEF CanSend
  <2>7. HEADER_SIZE + Len(e) <= MAX_FRAME
    <3>1. Len(e) \in Nat /\ MAX_FRAME \in Nat /\ HEADER_SIZE = 6
      BY <2>4, WireAssumption DEF HEADER_SIZE
    <3> HIDE DEF e
    <3> QED  BY <2>6, <3>1
  <2> QED  BY <1>1, <2>2, <2>5, <2>7 DEF SoundFrames, Sound, Damages
<1>3. ASSUME side # "client" PROVE frame \in SoundFrames
  <2>1. frame \in {[message |-> x, damage |-> d] : x \in Requests, d \in Damages}
    BY <1>3 DEF Frames
  <2>2. frame \in [message : Requests \cup Answers, damage : Damages] /\ m \in Requests
    BY <2>1
  <2>3. IsMessage(m) /\ m.type \notin Responses /\ HEADER_SIZE + Len(e) < MAX_FRAME
    BY <1>1, <2>2, WireAssumption
  <2>4. e \in Seq(Byte)
    BY <1>1, <2>3, EncodeTyped
  <2>5. Len(e) \in Nat /\ MAX_FRAME \in Nat /\ HEADER_SIZE = 6
    BY <2>4, WireAssumption DEF HEADER_SIZE
  <2>6. /\ frame.damage = "cut" => Payload(frame) = Front(e)
        /\ frame.damage = "longer" => Payload(frame) = Append(e, 1)
        /\ frame.damage \notin {"cut", "longer"} => Payload(frame) = e
    BY DEF Payload
  <2> HIDE DEF e
  <2>7. Len(Append(e, 1)) = Len(e) + 1
    BY <2>4
  <2>8. frame.damage = "cut" => Len(Front(e)) <= Len(e)
    <3>1. e # <<>> => Len(e) >= 1
      BY <2>4
    <3>2. Len(e) >= 1 => Len(Front(e)) = Len(e) - 1
      BY <2>4, FrontIs
    <3> QED  BY <1>1, <2>5, <3>1, <3>2
  <2>9. Len(Payload(frame)) = Len(e) \/ Len(Payload(frame)) = Len(e) + 1
          \/ (frame.damage = "cut" /\ Payload(frame) = Front(e))
    BY <2>6, <2>7
  <2>10. HEADER_SIZE + Len(Payload(frame)) <= MAX_FRAME
    <3> DEFINE l == Len(Payload(frame))
    <3>1. l = Len(e) \/ l = Len(e) + 1 \/ l = Len(e) - 1
      <4>1. e # <<>> => Len(e) >= 1
        BY <2>4
      <4>2. Len(e) >= 1 => Len(Front(e)) = Len(e) - 1
        BY <2>4, FrontIs
      <4> QED  BY <1>1, <2>9, <4>1, <4>2
    <3> HIDE DEF l
    <3>2. HEADER_SIZE + l <= MAX_FRAME
      BY <2>3, <2>5, <3>1
    <3> QED  BY <3>2 DEF l
  <2> QED  BY <1>1, <2>2, <2>3, <2>10 DEF SoundFrames, Sound, e
<1> QED
  BY <1>2, <1>3

\* What has been received is that of the side's buffer.
LEMMA SameReceived ==
  ASSUME UNCHANGED <<side, buffer, recvBuf>>
  PROVE  /\ Received' = Received /\ FrontLength' = FrontLength
         /\ HasHeader' = HasHeader /\ HasFrame' = HasFrame
<1>1. Received' = Received
  BY DEF Received
<1>2. FrontLength' = FrontLength /\ HasHeader' = HasHeader
  BY <1>1 DEF FrontLength, HasHeader
<1>3. HasFrame' = HasFrame
  BY <1>1, <1>2 DEF HasFrame, LengthIsValid
<1> QED
  BY <1>1, <1>2, <1>3

\* The first connection begins with nothing sent.
LEMMA InitWire == Init => WireInv
<1> SUFFICES ASSUME Init PROVE WireInv
  OBVIOUS
<1>1. side \in Ends /\ open = TRUE /\ reading = FALSE /\ sent = <<>> /\ wire = <<>>
      /\ handled = <<>> /\ buffer = NewBuffer /\ recvBuf = <<>> /\ leftover = <<>>
  BY DEF Init, Ends
<1>2. IsBuffer(buffer) /\ Received = <<>>
  BY <1>1, NewBufferIsEmpty DEF Received
<1>3. <<>> \in Seq(SoundFrames) /\ <<>> \in Seq(Byte)
  OBVIOUS
<1>4. Typed
  BY <1>1, <1>2, <1>3 DEF Typed
<1>5. ~HasFrame
  <2>1. Len(<<>>) = 0 /\ ~(0 >= 6)
    OBVIOUS
  <2> QED  BY <1>2, <2>1 DEF HasFrame, HasHeader, HEADER_SIZE
<1>6. AtFrame(0)
  BY <1>1, <1>2, StandsNew DEF AtFrame
<1>7. 0 \in Nat
  OBVIOUS
<1> QED
  BY <1>4, <1>5, <1>6, <1>7 DEF WireInv

\* A frame sent goes to the end of the stream.
LEMMA SendKeeps == ASSUME WireInv, Send PROVE WireInv'
<1>1. PICK frame \in Frames : /\ CanSend(frame)
                              /\ sent' = Append(sent, frame)
                              /\ wire' = wire \o FrameBytes(frame)
  BY DEF Send
<1>2. /\ open = TRUE
      /\ UNCHANGED <<side, connection, open, buffer, recvBuf, reading, handled, leftover>>
  BY DEF Send, WireInv, Typed
<1>3. Typed
  BY DEF WireInv
<1>4. frame \in SoundFrames
  BY <1>1, <1>3, SentIsSound DEF Typed
<1>5. sent \in Seq(SoundFrames) /\ wire \in Seq(Byte) /\ FrameBytes(frame) \in Seq(Byte) /\ side \in Ends
  BY <1>3, <1>4, FrameParts DEF Typed
<1>6. sent' \in Seq(SoundFrames) /\ wire' \in Seq(Byte)
  BY <1>1, <1>4, <1>5
<1>7. Received' = Received /\ HasFrame' = HasFrame
  BY <1>2, SameReceived
<1>8. Typed'
  BY <1>2, <1>3, <1>6, <1>7 DEF Typed, Clean
<1>9. ASSUME Clean, NEW k \in Nat, AtFrame(k) PROVE AtFrame(k)'
  <2>1. Received \in Seq(Byte)
    BY <1>3, <1>9 DEF Typed
  <2>2. Stands(side, sent, handled, open, Received, wire, k)
    BY <1>9 DEF AtFrame
  <2> DEFINE R == Received
  <2> HIDE DEF R
  <2>3. Stands(side, Append(sent, frame), handled, open, R, wire \o FrameBytes(frame), k)
    BY <1>2, <1>4, <1>5, <2>1, <2>2, StandsSent DEF R
  <2> QED  BY <1>1, <1>2, <1>7, <2>3 DEF AtFrame, R
<1> QED
  BY <1>2, <1>7, <1>8, <1>9 DEF WireInv, Clean

\* The loop ends only when what is left is no whole frame.
LEMMA AwaitMoreKeeps == ASSUME WireInv, AwaitMore PROVE WireInv'
<1>1. /\ HasHeader => LengthIsValid /\ Len(Received) < FrontLength
      /\ reading' = FALSE
      /\ UNCHANGED <<side, connection, open, sent, wire, buffer, recvBuf, handled, leftover>>
  BY DEF AwaitMore
<1>2. Received' = Received /\ HasFrame' = HasFrame
  BY <1>1, SameReceived
<1>3. Typed'
  BY <1>1, <1>2 DEF WireInv, Typed, Clean
<1>4. ASSUME Clean PROVE ~HasFrame
  <2>1. Received \in Seq(Byte)
    BY <1>4 DEF WireInv, Typed
  <2>2. HasFrame => HasHeader /\ Len(Received) >= FrontLength /\ FrontLength >= 6 /\ FrontLength <= MAX_FRAME
    BY DEF HasFrame, LengthIsValid, HEADER_SIZE
  <2>3. ASSUME HasFrame PROVE FALSE
    <3>1. Len(Received) < FrontLength /\ Len(Received) >= FrontLength
      BY <1>1, <2>2, <2>3
    <3>2. Len(Received) \in Nat
      BY <2>1
    <3>3. FrontLength \in Nat
      <4>1. Typed /\ open /\ HasHeader
        BY <2>2, <2>3 DEF AwaitMore, WireInv, Typed
      <4>2. PICK k \in Nat : AtFrame(k)
        BY <1>4 DEF WireInv
      <4>3. k \in 0..(Len(sent) - 1) /\ sent[k + 1] \in SoundFrames
            /\ FrontLength = TotalLen(sent[k + 1])
        BY <1>4, <4>1, <4>2, FrontFrame
      <4> QED  BY <4>3, TotalLenIs
    <3> QED  BY <3>1, <3>2, <3>3
  <2> QED  BY <2>3
<1>5. ASSUME NEW k \in Nat, AtFrame(k) PROVE AtFrame(k)'
  BY <1>1, <1>2, <1>5 DEF AtFrame
<1> QED
  BY <1>1, <1>2, <1>3, <1>4, <1>5 DEF WireInv, Clean

\* When the connection is lost, so is what is on its way, and nothing more is claimed of it.
LEMMA LoseKeeps == ASSUME WireInv, Lose PROVE WireInv'
<1>1. /\ open' = FALSE /\ wire' = <<>> /\ reading = FALSE
      /\ UNCHANGED <<side, connection, sent, buffer, recvBuf, reading, handled, leftover>>
  BY DEF Lose, WireInv, Typed
<1>2. Received' = Received
  BY <1>1, SameReceived
<1>3. <<>> \in Seq(Byte)
  OBVIOUS
<1>4. Typed'
  BY <1>1, <1>2, <1>3 DEF WireInv, Typed, Clean
<1>5. ASSUME NEW k \in Nat, AtFrame(k) PROVE AtFrame(k)'
  BY <1>1, <1>5 DEF AtFrame, Stands
<1> QED
  BY <1>1, <1>4, <1>5 DEF WireInv, Clean

\* A stutter keeps it.
LEMMA StutterKeeps == ASSUME WireInv, UNCHANGED vars PROVE WireInv'
<1>1. UNCHANGED <<side, connection, open, sent, wire, buffer, recvBuf, reading, handled, leftover>>
  BY DEF vars
<1>2. Received' = Received /\ HasFrame' = HasFrame
  BY <1>1, SameReceived
<1>3. Typed'
  BY <1>1, <1>2 DEF WireInv, Typed, Clean
<1>5. ASSUME NEW k \in Nat, AtFrame(k) PROVE AtFrame(k)'
  BY <1>1, <1>2, <1>5 DEF AtFrame
<1> QED
  BY <1>1, <1>2, <1>3, <1>5 DEF WireInv, Clean

\* A length that cannot be one leaves what was received where it is.
LEMMA RefuseLengthKeeps == ASSUME WireInv, RefuseLength PROVE WireInv'
<1>1. /\ ~LengthIsValid /\ reading' = FALSE
      /\ side = "client" => open' = FALSE /\ wire' = <<>>
      /\ side # "client" => UNCHANGED <<open, wire>>
      /\ UNCHANGED <<side, connection, sent, buffer, recvBuf, handled, leftover>>
  BY DEF RefuseLength
<1>2. Received' = Received /\ HasFrame' = HasFrame
  BY <1>1, SameReceived
<1>3. <<>> \in Seq(Byte)
  OBVIOUS
<1>4. Typed'
  <2>1. /\ open' \in BOOLEAN /\ wire' \in Seq(Byte) /\ (~open' => wire' = <<>>)
    <3>1. CASE side = "client"
      BY <1>1, <1>3, <3>1
    <3>2. CASE side # "client"
      BY <1>1, <3>2 DEF WireInv, Typed
    <3> QED  BY <3>1, <3>2
  <2>2. side = "server" => IsBuffer(buffer') /\ recvBuf' = <<>> /\ leftover' = <<>>
    BY <1>1 DEF WireInv, Typed
  <2>3. Clean' => Received' \in Seq(Byte)
    BY <1>1, <1>2 DEF WireInv, Typed, Clean
  <2>4. side' \in Ends /\ reading' \in BOOLEAN /\ sent' \in Seq(SoundFrames) /\ (reading' => open')
    BY <1>1 DEF WireInv, Typed
  <2> QED  BY <1>1, <2>1, <2>2, <2>3, <2>4 DEF Typed
<1>5. ~HasFrame
  BY <1>1 DEF HasFrame
<1>6. ASSUME NEW k \in Nat, AtFrame(k) PROVE AtFrame(k)'
  <2>1. CASE side = "client"
    BY <1>1, <1>6, <2>1 DEF AtFrame, Stands
  <2>2. CASE side # "client"
    BY <1>1, <1>2, <1>6, <2>2 DEF AtFrame
  <2> QED  BY <2>1, <2>2
<1> QED
  BY <1>1, <1>2, <1>4, <1>5, <1>6 DEF WireInv, Clean

\* A new connection begins with nothing received, unless the client had something left.
LEMMA ReconnectKeeps == ASSUME WireInv, Reconnect PROVE WireInv'
<1>1. /\ open = FALSE /\ open' = TRUE /\ sent' = <<>> /\ handled' = <<>>
      /\ buffer' = NewBuffer /\ leftover' = recvBuf
      /\ UNCHANGED <<side, wire, recvBuf, reading>>
      /\ side \in Ends /\ wire = <<>> /\ reading = FALSE
      /\ side = "server" => recvBuf = <<>>
  BY DEF Reconnect, WireInv, Typed
<1>2. IsBuffer(NewBuffer) /\ Readable(NewBuffer) = <<>>
  BY NewBufferIsEmpty
<1>3. Clean' => Received' = <<>>
  BY <1>1, <1>2 DEF Clean, Received
<1>4. <<>> \in Seq(SoundFrames) /\ <<>> \in Seq(Byte)
  OBVIOUS
<1>5. Typed'
  BY <1>1, <1>2, <1>3, <1>4 DEF Typed
<1>6. Clean' => ~HasFrame'
  <2>1. Len(<<>>) = 0 /\ ~(0 >= 6)
    OBVIOUS
  <2> QED  BY <1>3, <2>1 DEF HasFrame, HasHeader, HEADER_SIZE
<1>7. Clean' => AtFrame(0)'
  BY <1>1, <1>3, StandsNew DEF AtFrame
<1>8. 0 \in Nat
  OBVIOUS
<1> QED
  BY <1>5, <1>6, <1>7, <1>8 DEF WireInv

\* What arrives follows what was received.
LEMMA ReceiveKeeps == ASSUME WireInv, Receive PROVE WireInv'
<1>1. PICK n \in 1..Len(wire) :
        /\ side = "server" => buffer' = ReadFd(buffer, SubSeq(wire, 1, n)) /\ recvBuf' = recvBuf
        /\ side # "server" => recvBuf' = recvBuf \o SubSeq(wire, 1, n) /\ buffer' = buffer
        /\ wire' = SubSeq(wire, n + 1, Len(wire))
  BY DEF Receive
<1>2. /\ open = TRUE /\ reading' = TRUE
      /\ UNCHANGED <<side, connection, open, sent, handled, leftover>>
  BY DEF Receive, WireInv, Typed
<1>3. /\ Typed /\ wire \in Seq(Byte) /\ n \in 0..Len(wire) /\ side \in Ends
      /\ sent \in Seq(SoundFrames)
  BY DEF WireInv, Typed
<1> DEFINE first == SubSeq(wire, 1, n)
           others == SubSeq(wire, n + 1, Len(wire))
<1>4. first \in Seq(Byte) /\ others \in Seq(Byte) /\ wire = first \o others
  BY <1>3, CutAt
<1> HIDE DEF first, others
<1>5. ASSUME side = "server"
      PROVE  IsBuffer(buffer') /\ Received' = Received \o first
  <2>1. IsBuffer(buffer)
    BY <1>3, <1>5 DEF Typed
  <2>2. /\ IsBuffer(ReadFd(buffer, first))
        /\ Readable(ReadFd(buffer, first)) = Readable(buffer) \o first
    BY <1>4, <2>1, ReadFdIsAppend
  <2>3. buffer' = ReadFd(buffer, first)
    BY <1>1, <1>5 DEF first
  <2>4. Received' = Readable(buffer') /\ Received = Readable(buffer)
    BY <1>2, <1>5 DEF Received
  <2> QED  BY <2>2, <2>3, <2>4
<1>6. ASSUME side # "server" PROVE Received' = Received \o first
  BY <1>1, <1>2, <1>6 DEF Received, first
<1>7. Received' = Received \o first
  BY <1>5, <1>6
<1>8. Clean => Received \in Seq(Byte)
  BY <1>3 DEF Typed
<1>9. Clean => Received' \in Seq(Byte)
  <2> DEFINE R == Received
             Q == Received'
  <2>1. (Clean => R \in Seq(Byte)) /\ Q = R \o first
    BY <1>7, <1>8
  <2> HIDE DEF R, Q
  <2>2. Clean => Q \in Seq(Byte)
    BY <1>4, <2>1
  <2> QED  BY <2>2 DEF Q
<1>10. wire' = others
  BY <1>1 DEF others
<1>11. Typed'
  <2>1. wire' \in Seq(Byte)
    BY <1>4, <1>10
  <2>2. side = "server" => IsBuffer(buffer') /\ recvBuf' = <<>> /\ leftover' = <<>>
    BY <1>1, <1>2, <1>3, <1>5 DEF Typed
  <2>3. Clean' => Received' \in Seq(Byte)
    BY <1>2, <1>9 DEF Clean
  <2> QED  BY <1>2, <1>3, <2>1, <2>2, <2>3 DEF Typed
<1>12. ASSUME Clean, NEW k \in Nat, AtFrame(k) PROVE AtFrame(k)'
  <2> DEFINE R == Received
  <2>1. R \in Seq(Byte) /\ Stands(side, sent, handled, open, R, wire, k)
    BY <1>8, <1>12 DEF AtFrame
  <2> HIDE DEF R
  <2>2. Stands(side, sent, handled, open, R \o first, others, k)
    BY <1>3, <1>4, <2>1, StandsArrived
  <2> QED  BY <1>2, <1>7, <1>10, <2>2 DEF AtFrame, R
<1> QED
  BY <1>2, <1>11, <1>12 DEF WireInv, Clean

\* Taking a frame is dropping its bytes, header and payload at once.
LEMMA TakeFrameDrops ==
  ASSUME IsBuffer(buffer), NEW l \in Nat, l >= 6, l <= Len(Readable(buffer)), FrontLength = l
  PROVE  /\ IsBuffer(TakeFrame(buffer))
         /\ Readable(TakeFrame(buffer)) = SubSeq(Readable(buffer), l + 1, Len(Readable(buffer)))
<1> DEFINE R == Readable(buffer)
           B == Retrieve(buffer, 6)
           C == Retrieve(B, l - 6)
           n == Len(R)
<1>1. R \in Seq(Byte) /\ n \in Nat /\ n = readableBytes(buffer) /\ l <= n
  BY ReadableTyped
<1>2. IsBuffer(B) /\ Readable(B) = SubSeq(R, 7, n)
  <2>1. 6 \in 0..readableBytes(buffer) /\ 6 + 1 = 7
    BY <1>1
  <2>2. /\ IsBuffer(Retrieve(buffer, 6))
        /\ Readable(Retrieve(buffer, 6)) = SubSeq(Readable(buffer), 6 + 1, readableBytes(buffer))
    BY <2>1, RetrieveIsDrop
  <2> QED  BY <1>1, <2>1, <2>2
<1>3. Len(Readable(B)) = n - 6 /\ Len(Readable(B)) = readableBytes(B)
  <2>1. Len(SubSeq(R, 7, n)) = n - 6
    <3> HIDE DEF R, n
    <3>1. n = Len(R) /\ R \in Seq(Byte) /\ n >= 6 /\ n \in Nat
      BY <1>1 DEF n
    <3> QED  BY <3>1
  <2>2. Len(Readable(B)) = readableBytes(B)
    <3> HIDE DEF B
    <3> QED  BY <1>2, ReadableTyped
  <2> QED  BY <1>2, <2>1, <2>2
<1>4. /\ IsBuffer(C)
      /\ Readable(C) = SubSeq(Readable(B), (l - 6) + 1, n - 6)
  <2> HIDE DEF B
  <2>1. l - 6 \in 0..readableBytes(B)
    <3>1. l - 6 \in Nat /\ l - 6 <= n - 6
      BY <1>1
    <3> QED  BY <1>1, <1>3, <3>1
  <2>2. /\ IsBuffer(Retrieve(B, l - 6))
        /\ Readable(Retrieve(B, l - 6)) = SubSeq(Readable(B), (l - 6) + 1, readableBytes(B))
    BY <1>2, <2>1, RetrieveIsDrop
  <2> QED  BY <1>3, <2>2
<1>5. SubSeq(SubSeq(R, 7, n), (l - 6) + 1, n - 6) = SubSeq(R, l + 1, n)
  <2> HIDE DEF R, n
  <2> DEFINE s == SubSeq(R, 7, n)
             x == SubSeq(s, (l - 6) + 1, n - 6)
             y == SubSeq(R, l + 1, n)
  <2>0. n = Len(R) /\ R \in Seq(Byte) /\ n \in Nat /\ l \in Nat /\ 6 <= l /\ l <= n
    BY <1>1 DEF n
  <2>1. s \in Seq(Byte) /\ Len(s) = n - 6 /\ \A i \in 1..(n - 6) : s[i] = R[i + 6]
    BY <2>0
  <2>2. y \in Seq(Byte) /\ Len(y) = n - l /\ \A i \in 1..(n - l) : y[i] = R[i + l]
    BY <2>0
  <2> HIDE DEF s, y
  <2>3. x \in Seq(Byte) /\ Len(x) = n - l /\ \A i \in 1..(n - l) : x[i] = s[i + (l - 6)]
    BY <2>0, <2>1
  <2> HIDE DEF x
  <2>4. ASSUME NEW i \in 1..(n - l) PROVE x[i] = y[i]
    <3>1. i + (l - 6) \in 1..(n - 6) /\ (i + (l - 6)) + 6 = i + l
      BY <2>0
    <3>2. s[i + (l - 6)] = R[(i + (l - 6)) + 6]
      BY <2>1, <3>1
    <3> QED  BY <2>2, <2>3, <3>1, <3>2
  <2>5. x = y
    BY <2>2, <2>3, <2>4, SeqEqual
  <2> QED  BY <2>5 DEF x, y, s
<1>6. TakeFrame(buffer) = C
  BY DEF TakeFrame, HEADER_SIZE
<1> QED
  BY <1>2, <1>4, <1>5, <1>6

\* The frame in front is handled as what it means, and taken.
LEMMA HandleFrameKeeps == ASSUME WireInv, HandleFrame PROVE WireInv'
<1>1. /\ reading = TRUE /\ open = TRUE /\ HasFrame
      /\ handled' = Handle(FrontType, FrontPayload)
      /\ side = "server" => buffer' = TakeFrame(buffer) /\ recvBuf' = recvBuf
      /\ side # "server" => /\ recvBuf' = SubSeq(recvBuf, FrontLength + 1, Len(recvBuf))
                            /\ buffer' = buffer
      /\ UNCHANGED <<side, connection, open, sent, wire, reading, leftover>>
  BY DEF HandleFrame, WireInv, Typed
<1>2. Typed
  BY DEF WireInv
<1>3. ASSUME ~Clean PROVE WireInv'
  <2>1. side # "server" /\ ~Clean'
    BY <1>1, <1>2, <1>3 DEF Typed, Clean
  <2> QED  BY <1>1, <1>2, <2>1 DEF WireInv, Typed
<1>4. ASSUME Clean PROVE WireInv'
  <2>1. PICK k \in Nat : AtFrame(k)
    BY <1>4 DEF WireInv
  <2> DEFINE R == Received
             f == sent[k + 1]
             b == FrameBytes(f)
             l == Len(b)
             others == SubSeq(R, l + 1, Len(R))
  <2>2. /\ R \in Seq(Byte) /\ wire \in Seq(Byte) /\ sent \in Seq(SoundFrames) /\ side \in Ends
        /\ HasHeader /\ LengthIsValid /\ Len(R) >= FrontLength
    BY <1>1, <1>2, <1>4 DEF Typed, HasFrame
  <2>3. /\ k \in 0..(Len(sent) - 1) /\ f \in SoundFrames
        /\ FrontLength = TotalLen(f) /\ FrontType = f.message.type
        /\ \E rest \in Seq(Byte) : R \o wire = b \o rest
    BY <1>1, <1>2, <1>4, <2>1, <2>2, FrontFrame
  <2>4. ~Bad(f)
    BY <2>2, <2>3, TotalLenIs DEF LengthIsValid
  <2>5. FrontLength = l /\ l \in Nat /\ l >= 6 /\ l <= Len(R) /\ l = 6 + Len(Payload(f))
    <3>1. TotalLen(f) = 6 + Len(Payload(f))
      BY <2>3, <2>4, TotalLenIs DEF HEADER_SIZE
    <3>2. l = 6 + Len(Payload(f)) /\ Len(Payload(f)) \in Nat
      BY <2>3, FrameParts
    <3> HIDE DEF l, R
    <3>3. FrontLength = l /\ l \in Nat /\ l >= 6
      BY <2>3, <3>1, <3>2
    <3> QED  BY <2>2, <3>2, <3>3
  <2>6. PICK rest \in Seq(Byte) : R \o wire = b \o rest
    BY <2>3
  <2>7. /\ SubSeq(R, 1, l) = b
        /\ others \in Seq(Byte)
        /\ Stands(side, sent, Tell(side, handled, f), open, others, wire, k + 1)
    <3>1. Stands(side, sent, handled, open, R, wire, k)
      BY <2>1 DEF AtFrame
    <3> HIDE DEF R
    <3>2. /\ R \in Seq(Byte) /\ wire \in Seq(Byte) /\ sent \in Seq(SoundFrames) /\ side \in Ends
          /\ k \in 0..(Len(sent) - 1) /\ rest \in Seq(Byte)
      BY <2>2, <2>3
    <3>3. /\ open /\ ~Bad(sent[k + 1]) /\ R \o wire = FrameBytes(sent[k + 1]) \o rest
          /\ Len(FrameBytes(sent[k + 1])) <= Len(R)
      BY <1>1, <2>4, <2>5, <2>6
    <3> QED  BY ONLY <3>1, <3>2, <3>3, StandsTaken
  <2>8. FrontPayload = Payload(f)
    <3>1. SubSeq(b, 7, l) = Payload(f) /\ b \in Seq(Byte)
      BY <2>3, <2>5, FrameParts
    <3>2. FrontPayload = SubSeq(R, 7, l)
      BY <2>5 DEF FrontPayload, HEADER_SIZE
    <3>3. SubSeq(SubSeq(R, 1, l), 7, l) = SubSeq(R, 7, l)
      <4> HIDE DEF R, l
      <4>1. R \in Seq(Byte) /\ l \in Nat /\ l >= 6 /\ l <= Len(R)
        BY <2>2, <2>5
      <4> DEFINE s == SubSeq(R, 1, l)
                 x == SubSeq(s, 7, l)
                 y == SubSeq(R, 7, l)
      <4>2. s \in Seq(Byte) /\ Len(s) = l /\ \A i \in 1..l : s[i] = R[i]
        BY <4>1
      <4>3. y \in Seq(Byte) /\ Len(y) = l - 6 /\ \A i \in 1..(l - 6) : y[i] = R[i + 6]
        BY <4>1
      <4> HIDE DEF s, y
      <4>4. x \in Seq(Byte) /\ Len(x) = l - 6 /\ \A i \in 1..(l - 6) : x[i] = s[i + 6]
        BY <4>1, <4>2
      <4> HIDE DEF x
      <4>5. ASSUME NEW i \in 1..(l - 6) PROVE x[i] = y[i]
        <5>1. i + 6 \in 1..l
          BY <4>1
        <5> QED  BY <4>2, <4>3, <4>4, <5>1
      <4>6. x = y
        BY <4>3, <4>4, <4>5, SeqEqual
      <4> QED  BY <4>6 DEF x, y, s
    <3> HIDE DEF b, l, R
    <3> QED  BY <2>7, <3>1, <3>2, <3>3
  <2>9. handled' = Tell(side, handled, f)
    <3>1. Decode(f.message.type, Payload(f)) = Meaning(f)
      BY <2>3, <2>4, PayloadMeans
    <3> QED  BY <1>1, <2>3, <2>8, <3>1 DEF Handle, Tell
  <2>10. Received' = others /\ (side = "server" => IsBuffer(buffer'))
    <3>1. CASE side = "server"
      <4>1. R = Readable(buffer) /\ IsBuffer(buffer)
        BY <1>2, <3>1 DEF Received, Typed
      <4>2. /\ IsBuffer(TakeFrame(buffer))
            /\ Readable(TakeFrame(buffer)) = SubSeq(Readable(buffer), l + 1, Len(Readable(buffer)))
        <5> HIDE DEF l, R
        <5>1. l <= Len(Readable(buffer))
          BY <2>5, <4>1
        <5> QED  BY <2>5, <4>1, <5>1, TakeFrameDrops
      <4>3. Received' = Readable(buffer')
        BY <1>1, <3>1 DEF Received
      <4> QED  BY <1>1, <3>1, <4>1, <4>2, <4>3
    <3>2. CASE side # "server"
      <4>1. R = recvBuf /\ Received' = recvBuf'
        BY <1>1, <3>2 DEF Received
      <4> QED  BY <1>1, <2>5, <3>2, <4>1
    <3> QED  BY <3>1, <3>2
  <2>11. Typed'
    <3>1. side = "server" => IsBuffer(buffer') /\ recvBuf' = <<>> /\ leftover' = <<>>
      BY <1>1, <1>2, <2>10 DEF Typed
    <3>2. Received' \in Seq(Byte)
      BY <2>7, <2>10
    <3> QED  BY <1>1, <1>2, <3>1, <3>2 DEF Typed
  <2>12. AtFrame(k + 1)' /\ k + 1 \in Nat
    <3>1. k + 1 \in Nat
      OBVIOUS
    <3> HIDE DEF f, others
    <3>2. AtFrame(k + 1)'
      BY <1>1, <2>7, <2>9, <2>10 DEF AtFrame
    <3> QED  BY <3>1, <3>2
  <2> QED  BY <1>1, <2>11, <2>12 DEF WireInv
<1> QED
  BY <1>3, <1>4

-----------------------------------------------------------------------------
(* What the receiver's handlers are told. *)

\* Every step keeps the invariant.
LEMMA NextWire == ASSUME WireInv, [Next]_vars PROVE WireInv'
<1>1. CASE Send
  BY <1>1, SendKeeps
<1>2. CASE Receive
  BY <1>2, ReceiveKeeps
<1>3. CASE HandleFrame
  BY <1>3, HandleFrameKeeps
<1>4. CASE AwaitMore
  BY <1>4, AwaitMoreKeeps
<1>5. CASE RefuseLength
  BY <1>5, RefuseLengthKeeps
<1>6. CASE Lose
  BY <1>6, LoseKeeps
<1>7. CASE Reconnect
  BY <1>7, ReconnectKeeps
<1>8. CASE UNCHANGED vars
  BY <1>8, StutterKeeps
<1> QED
  BY <1>1, <1>2, <1>3, <1>4, <1>5, <1>6, <1>7, <1>8 DEF Next

\* On a connection that began clean the receiver stands at the beginning of a frame: it
\* has taken a number of whole, valid frames from the stream, its handlers have been told
\* of exactly these, and what it has received and what is on its way are the rest; it never
\* leaves its loop with a whole frame in front of it.
THEOREM WireInvariant == Spec => []WireInv
<1>1. Init => WireInv
  BY InitWire
<1>2. WireInv /\ [Next]_vars => WireInv'
  BY NextWire
<1> QED
  BY <1>1, <1>2, PTL DEF Spec

\* The frames handled are some of the proper ones, and what the handlers should be
\* told is that of all the proper ones.
LEMMA StandsAmongProper ==
  ASSUME WireInv, Clean
  PROVE  \E k, p \in Nat :
           /\ AtFrame(k) /\ k <= p /\ p <= Len(sent)
           /\ Len(Proper) = p /\ Proper = SubSeq(sent, 1, p)
           /\ p < Len(sent) => Bad(sent[p + 1])
           /\ handled = ToldOf(side, sent, k) /\ Expected = ToldOf(side, sent, p)
<1>1. sent \in Seq(SoundFrames) /\ Len(sent) \in Nat
  BY DEF WireInv, Typed
<1>2. PICK k \in Nat : AtFrame(k)
  BY DEF WireInv
<1>3. PICK p \in 0..Len(sent) : /\ Len(Proper) = p /\ Proper = SubSeq(sent, 1, p)
                                /\ \A i \in 1..p : ~Bad(sent[i])
                                /\ p < Len(sent) => Bad(sent[p + 1])
  BY <1>1, ProperIs
<1>4. /\ k \in 0..Len(sent) /\ handled = ToldOf(side, sent, k)
      /\ \A i \in 1..k : ~Bad(sent[i])
  BY <1>2 DEF AtFrame, Stands
<1>5. p \in Nat /\ p <= Len(sent) /\ k <= p
  <2>1. p \in Nat /\ p <= Len(sent) /\ k <= Len(sent)
    BY <1>1, <1>4
  <2>2. ASSUME p < k PROVE FALSE
    <3>1. p + 1 \in 1..k /\ p < Len(sent)
      BY <2>1, <2>2
    <3> QED  BY <1>3, <1>4, <3>1
  <2> QED  BY <2>1, <2>2
<1>6. Expected = ToldOf(side, sent, p)
  <2>1. Expected = Told(side, Proper)
    BY DEF Expected, Told
  <2> QED  BY <1>3, <2>1 DEF ToldOf
<1> QED
  BY <1>2, <1>3, <1>4, <1>5, <1>6

\* The handlers have been told a part of what they should be told.
LEMMA HandledIsSent == ASSUME WireInv PROVE HandledAsSent
<1> SUFFICES ASSUME Clean PROVE IsPrefix(handled, Expected)
  BY DEF HandledAsSent
<1>1. PICK k, p \in Nat :
           /\ k <= p /\ p <= Len(sent)
           /\ handled = ToldOf(side, sent, k) /\ Expected = ToldOf(side, sent, p)
  BY StandsAmongProper
<1>2. side \in Ends /\ sent \in Seq(SoundFrames) /\ Len(sent) \in Nat
  BY DEF WireInv, Typed
<1>3. k \in 0..Len(sent) /\ p \in 0..Len(sent)
  BY <1>1, <1>2
<1> QED
  BY <1>1, <1>2, <1>3, ToldBegins

\* All that was sent is taken, received or on its way.
LEMMA BytesAreConserved == ASSUME WireInv PROVE BytesConserved
<1> SUFFICES ASSUME Clean, open
             PROVE  \E k \in 0..Len(Proper) :
                      BytesOf(sent) = BytesOf(SubSeq(sent, 1, k)) \o Received \o wire
  BY DEF BytesConserved
<1>1. PICK k, p \in Nat : AtFrame(k) /\ k <= p /\ Len(Proper) = p /\ p <= Len(sent)
  BY StandsAmongProper
<1>2. k \in 0..Len(Proper)
  BY <1>1
<1> DEFINE B == BytesOf(sent)
           D == BytesOf(SubSeq(sent, 1, k))
           R == Received
<1>3. R \in Seq(Byte) /\ wire \in Seq(Byte) /\ sent \in Seq(SoundFrames) /\ k \in 0..Len(sent)
  BY <1>1 DEF WireInv, Typed, AtFrame, Stands
<1>4. D \in Seq(Byte)
  BY <1>3, CutAt, BytesOfTyped
<1>5. Streamed(B, D, R, wire)
  BY <1>1 DEF AtFrame, Stands
<1> HIDE DEF B, D, R
<1>6. B = Then(D, Then(R, wire))
  BY <1>5 DEF Streamed, Then
<1>7. B = Then(Then(D, R), wire)
  BY <1>3, <1>4, <1>6, ThenRegroup
<1>8. B = D \o R \o wire
  BY <1>7 DEF Then
<1> QED
  BY <1>2, <1>8 DEF B, D, R

\* With nothing on its way and the loop left, no frame is left either: the next would be
\* whole.
LEMMA NothingHeld == ASSUME WireInv PROVE NothingIsHeldBack
<1> SUFFICES ASSUME Clean, open, ~reading, wire = <<>> PROVE handled = Expected
  BY DEF NothingIsHeldBack
<1>1. PICK k, p \in Nat :
           /\ AtFrame(k) /\ k <= p /\ p <= Len(sent)
           /\ Len(Proper) = p /\ Proper = SubSeq(sent, 1, p)
           /\ handled = ToldOf(side, sent, k) /\ Expected = ToldOf(side, sent, p)
  BY StandsAmongProper
<1>2. /\ Typed /\ sent \in Seq(SoundFrames) /\ Len(sent) \in Nat /\ ~HasFrame
      /\ Received \in Seq(Byte) /\ wire \in Seq(Byte)
  BY DEF WireInv, Typed
<1>3. PICK q \in 0..Len(sent) : /\ Len(Proper) = q /\ \A i \in 1..q : ~Bad(sent[i])
  BY <1>2, ProperIs
<1>4. q = p
  BY <1>1, <1>3
<1>5. ASSUME k < p PROVE FALSE
  <2> DEFINE R == Received
             f == sent[k + 1]
             b == FrameBytes(f)
             D == BytesOf(SubSeq(sent, 1, k))
  <2>1. k \in 0..(Len(sent) - 1) /\ k + 1 \in 1..p /\ k \in 0..Len(sent)
    BY <1>1, <1>2, <1>5
  <2>2. ~Bad(f)
    BY <1>3, <1>4, <2>1
  <2>3. f \in SoundFrames
    BY <1>2, <2>1, FirstOf
  <2>4. PICK rest \in Seq(Byte) : BytesOf(sent) = D \o (b \o rest)
    BY <1>2, <2>1, NextInStream
  <2>5. b \in Seq(Byte) /\ Len(b) = 6 + Len(Payload(f)) /\ Len(Payload(f)) \in Nat
    BY <2>3, FrameParts
  <2>6. D \in Seq(Byte)
    BY <1>2, <2>1, CutAt, BytesOfTyped
  <2>7. BytesOf(sent) = D \o (R \o wire)
    BY <1>1 DEF AtFrame, Stands, Streamed
  <2> HIDE DEF R, D, b
  <2>8. R \o wire = b \o rest
    <3>1. Then(D, Then(b, rest)) = Then(D, Then(R, wire))
      BY ONLY <2>4, <2>7 DEF Then
    <3>2. R \in Seq(Byte)
      BY <1>2 DEF R
    <3>3. Then(b, rest) \in Seq(Byte) /\ Then(R, wire) \in Seq(Byte)
      BY <1>2, <2>4, <2>5, <3>2, ThenRegroup
    <3>4. Then(b, rest) = Then(R, wire)
      BY ONLY <2>6, <3>1, <3>3, ThenRegroup
    <3> QED  BY <3>4 DEF Then
  <2>9. R = b \o rest
    <3>1. R \o <<>> = R
      BY <1>2 DEF R
    <3> QED  BY ONLY <2>8, <3>1, wire = <<>>
  <2>10. Len(R) >= Len(b) /\ Len(R) \in Nat
    <3>1. Len(b \o rest) = Len(b) + Len(rest) /\ Len(b) \in Nat /\ Len(rest) \in Nat
      <4>1. b \in Seq(Byte)
        BY <2>5
      <4> QED  BY <4>1
    <3> QED  BY <2>9, <3>1
  <2>11. HasHeader
    BY <2>5, <2>10 DEF HasHeader, HEADER_SIZE, R
  <2>12. FrontLength = TotalLen(f)
    BY <1>1, <1>2, <2>11, FrontFrame
  <2>13. LengthIsValid /\ TotalLen(f) = Len(b)
    BY <2>2, <2>3, <2>5, <2>12, TotalLenIs DEF LengthIsValid, HEADER_SIZE
  <2>14. HasFrame
    BY <2>10, <2>11, <2>12, <2>13 DEF HasFrame, R
  <2> QED  BY <1>2, <2>14
<1>6. k = p
  BY <1>1, <1>5
<1> QED
  BY <1>1, <1>6

\* However TCP cuts the stream, and for any messages, field values, sizes and number of
\* frames, the handlers of either end are told what was sent, in order and with its values.
THEOREM HandlersAreToldWhatWasSent == Spec => []HandledAsSent
BY WireInvariant, HandledIsSent, PTL

\* No byte is lost, doubled or moved between the sender and the handlers, whatever the
\* buffer does with its space.
THEOREM BytesAreNeitherLostNorMoved == Spec => []BytesConserved
BY WireInvariant, BytesAreConserved, PTL

\* A frame that has arrived whole has been handled when the loop is left.
THEOREM NoFrameIsHeldBack == Spec => []NothingIsHeldBack
BY WireInvariant, NothingHeld, PTL

=============================================================================
