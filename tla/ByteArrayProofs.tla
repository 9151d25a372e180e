--------------------------- MODULE ByteArrayProofs --------------------------
(***************************************************************************)
(* Theorems about ByteArray: whatever is appended to an array, its size is *)
(* that of its block, and its bytes are those before and those appended.   *)
(***************************************************************************)
EXTENDS ByteArray, NatRecursion

-----------------------------------------------------------------------------

\* ByteArrayNew: a new array is empty and well formed.
THEOREM NewWellFormed == WellFormed(ByteArrayNew) /\ Content(ByteArrayNew) = <<>>
<1>1. <<0>> \in Seq(Byte) /\ Len(<<0>>) = 1
  BY DEF Byte
<1>2. SubSeq(<<0>>, 1, 0) = <<>>
  OBVIOUS
<1> QED
  BY <1>1, <1>2 DEF WellFormed, Content, ByteArrayNew

\* Zeros are bytes.
LEMMA ZerosOK ==
  ASSUME NEW n \in Nat
  PROVE  Zeros(n) \in Seq(Byte) /\ Len(Zeros(n)) = n
<1>1. Zeros(n) \in [1..n -> Byte]
  BY DEF Zeros, Byte
<1> QED
  BY <1>1

\* A sequence behind another.
LEMMA ConcatOK ==
  ASSUME NEW s \in Seq(Byte), NEW t \in Seq(Byte)
  PROVE  /\ s \o t \in Seq(Byte)
         /\ Len(s \o t) = Len(s) + Len(t)
         /\ \A i \in 1..Len(s) : (s \o t)[i] = s[i]
         /\ \A i \in (Len(s) + 1)..(Len(s) + Len(t)) : (s \o t)[i] = t[i - Len(s)]
  OBVIOUS

\* Two sequences with the same elements.
LEMMA SameElements ==
  ASSUME NEW s \in Seq(Byte), NEW t \in Seq(Byte), Len(s) = Len(t),
         \A i \in 1..Len(s) : s[i] = t[i]
  PROVE  s = t
  OBVIOUS

\* The bytes of an array are as many as its length says.
LEMMA ContentOK ==
  ASSUME NEW a, WellFormed(a)
  PROVE  /\ Content(a) \in Seq(Byte)
         /\ Len(Content(a)) = a.dlen
         /\ \A i \in 1..a.dlen : Content(a)[i] = a.data[i]
  BY DEF WellFormed, Content

\* ByteArrayClear: the array is empty, and keeps its block.
THEOREM ClearWellFormed ==
  ASSUME NEW a, WellFormed(a)
  PROVE  /\ WellFormed(ByteArrayClear(a))
         /\ Content(ByteArrayClear(a)) = <<>>
<1>1. a.size \in Nat
  BY DEF WellFormed
<1>2. Zeros(a.size) \in Seq(Byte) /\ Len(Zeros(a.size)) = a.size
  BY <1>1, ZerosOK
<1>3. SubSeq(Zeros(a.size), 1, 0) = <<>>
  BY <1>2
<1> QED
  BY <1>1, <1>2, <1>3 DEF WellFormed, ByteArrayClear, Content

\* The bytes fit into the block.
LEMMA CopiedOK ==
  ASSUME NEW a, WellFormed(a), NEW s \in Seq(Byte), a.dlen + Len(s) <= a.size
  PROVE  /\ Copied(a, s) \in Seq(Byte)
         /\ Len(Copied(a, s)) = a.size
         /\ SubSeq(Copied(a, s), 1, a.dlen + Len(s)) = Content(a) \o s
<1> DEFINE n == a.dlen + Len(s)
           t == Copied(a, s)
<1>1. /\ a.dlen \in Nat /\ a.size \in Nat /\ Len(s) \in Nat
      /\ a.data \in Seq(Byte) /\ Len(a.data) = a.size
  BY DEF WellFormed
<1>2. t \in [1..a.size -> Byte]
  BY <1>1 DEF Copied
<1>3. t \in Seq(Byte) /\ Len(t) = a.size
  BY <1>1, <1>2
<1>4. Content(a) \in Seq(Byte) /\ Len(Content(a)) = a.dlen
  BY ContentOK
<1>5. Content(a) \o s \in Seq(Byte) /\ Len(Content(a) \o s) = n
  BY <1>4, ConcatOK
<1>6. \A i \in 1..n : t[i] = (Content(a) \o s)[i]
  <2> SUFFICES ASSUME NEW i \in 1..n PROVE t[i] = (Content(a) \o s)[i]
    OBVIOUS
  <2>1. i \in 1..a.size /\ 1..Len(a.data) = 1..a.size
    BY <1>1
  <2>2. CASE i \in 1..a.dlen
    <3>1. t[i] = a.data[i]
      BY <2>1, <2>2, <1>1 DEF Copied
    <3>2. (Content(a) \o s)[i] = Content(a)[i]
      BY <2>2, <1>4, ConcatOK
    <3> QED
      BY <2>2, <3>1, <3>2, ContentOK
  <2>3. CASE i \in (a.dlen + 1)..n
    <3>1. t[i] = s[i - a.dlen]
      BY <2>1, <2>3 DEF Copied
    <3>2. (Content(a) \o s)[i] = s[i - a.dlen]
      BY <2>3, <1>4, ConcatOK
    <3> QED
      BY <3>1, <3>2
  <2>4. i \in 1..a.dlen \/ i \in (a.dlen + 1)..n
    <3>1. a.dlen \in Nat /\ Len(s) \in Nat
      BY <1>1
    <3> QED
      BY <3>1
  <2> QED
    BY <2>2, <2>3, <2>4
<1>7. SubSeq(t, 1, n) \in Seq(Byte) /\ Len(SubSeq(t, 1, n)) = n
      /\ \A i \in 1..n : SubSeq(t, 1, n)[i] = t[i]
  <2> HIDE DEF t
  <2> QED
    BY <1>1, <1>3
<1> HIDE DEF t
<1>8. SubSeq(t, 1, n) = Content(a) \o s
  BY <1>5, <1>6, <1>7, SameElements
<1> QED
  BY <1>3, <1>8 DEF t

\* ByteArrayAppendNChar: the array stays well formed, whether the bytes fit or a
\* larger block is allocated, and holds the old bytes and then the new ones.
THEOREM AppendWellFormed ==
  ASSUME NEW a, WellFormed(a), NEW s \in Seq(Byte)
  PROVE  /\ WellFormed(ByteArrayAppendNChar(a, s))
         /\ Content(ByteArrayAppendNChar(a, s)) = Content(a) \o s
<1> DEFINE n == a.dlen + Len(s)
<1>1. a.dlen \in Nat /\ a.size \in Nat /\ Len(s) \in Nat /\ n \in Nat
  BY DEF WellFormed
<1>2. CASE n <= a.size
  <2> DEFINE t == Copied(a, s)
  <2>1. /\ t \in Seq(Byte) /\ Len(t) = a.size
        /\ SubSeq(t, 1, n) = Content(a) \o s
    BY <1>2, CopiedOK
  <2>2. ByteArrayAppendNChar(a, s) = [data |-> t, dlen |-> n, size |-> a.size]
    BY <1>2 DEF ByteArrayAppendNChar
  <2> HIDE DEF t
  <2>3. WellFormed([data |-> t, dlen |-> n, size |-> a.size])
    BY <1>1, <1>2, <2>1 DEF WellFormed
  <2>4. Content([data |-> t, dlen |-> n, size |-> a.size]) = Content(a) \o s
    BY <2>1 DEF Content
  <2> QED
    BY <2>2, <2>3, <2>4
<1>3. CASE ~(n <= a.size)
  <2> DEFINE t == Content(a) \o s
             u == t \o Zeros(Reserved)
  <2>1. t \in Seq(Byte) /\ Len(t) = n
    <3>1. Content(a) \in Seq(Byte) /\ Len(Content(a)) = a.dlen
      BY ContentOK
    <3> QED
      BY <3>1, ConcatOK
  <2>2. Reserved \in Nat /\ Zeros(Reserved) \in Seq(Byte) /\ Len(Zeros(Reserved)) = Reserved
    BY ReservedAssumption, ZerosOK
  <2>3. u \in Seq(Byte) /\ Len(u) = n + Reserved
    BY <2>1, <2>2, ConcatOK
  <2>4. SubSeq(u, 1, n) = t
    <3>1. \A i \in 1..n : u[i] = t[i]
      BY <2>1, <2>2, ConcatOK
    <3>2. /\ SubSeq(u, 1, n) \in Seq(Byte) /\ Len(SubSeq(u, 1, n)) = n
          /\ \A i \in 1..n : SubSeq(u, 1, n)[i] = u[i]
      <4> HIDE DEF u
      <4> QED
        BY <1>1, <2>2, <2>3
    <3> HIDE DEF u, t
    <3> QED
      BY <2>1, <3>1, <3>2, SameElements
  <2>5. ByteArrayAppendNChar(a, s)
          = [data |-> u, dlen |-> n, size |-> n + Reserved]
    BY <1>3 DEF ByteArrayAppendNChar
  <2> HIDE DEF u, t
  <2>6. WellFormed([data |-> u, dlen |-> n, size |-> n + Reserved])
    BY <1>1, <2>2, <2>3 DEF WellFormed
  <2>7. Content([data |-> u, dlen |-> n, size |-> n + Reserved]) = t
    BY <2>4 DEF Content
  <2> QED
    BY <2>5, <2>6, <2>7 DEF t
<1> QED
  BY <1>2, <1>3

\* ByteArrayAppendArray: the bytes of another array are appended, and its block is
\* of no matter.
THEOREM AppendArrayWellFormed ==
  ASSUME NEW a, WellFormed(a), NEW b, WellFormed(b)
  PROVE  /\ WellFormed(ByteArrayAppendArray(a, b))
         /\ Content(ByteArrayAppendArray(a, b)) = Content(a) \o Content(b)
  BY ContentOK, AppendWellFormed DEF ByteArrayAppendArray
=============================================================================
