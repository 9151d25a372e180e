------------------------------ MODULE ByteArray -----------------------------
(***************************************************************************)
(* The byte arrays of dm_common.c, in which the configuration of a         *)
(* service, the request of an item and the key of security access are      *)
(* built: an allocated block (data), the bytes of it that count (dlen) and *)
(* the size the array takes its block to have.  Allocation succeeds.       *)
(*                                                                         *)
(* Pure operators: each maps an array before a call to the array after it. *)
(***************************************************************************)
EXTENDS Integers, Sequences

CONSTANT Reserved   \* BYTE_ARRAY_RESERVED_SIZE, the slack of a new block

ASSUME ReservedAssumption == Reserved \in Nat

Byte == 0..255

Zeros(n) == [i \in 1..n |-> 0]

\* What the functions rely on: the size is that of the block.
WellFormed(a) ==
  /\ DOMAIN a = {"data", "dlen", "size"}
  /\ a.data \in Seq(Byte)
  /\ a.dlen \in 0..a.size
  /\ a.size = Len(a.data)

\* ByteArrayConstData and ByteArrayCount: the bytes that count.
Content(a) == SubSeq(a.data, 1, a.dlen)

ByteArrayNew == [data |-> <<0>>, dlen |-> 0, size |-> 1]

\* The block is kept.
ByteArrayClear(a) == [data |-> Zeros(a.size), dlen |-> 0, size |-> a.size]

\* memcpy behind the bytes that count.
Copied(a, s) ==
  [i \in 1..Len(a.data) |->
     IF i \in (a.dlen + 1)..(a.dlen + Len(s)) THEN s[i - a.dlen] ELSE a.data[i]]

\* Mutant: the array does not learn the size of its new block.
ByteArrayAppendNCharStale(a, s) ==
  IF a.dlen + Len(s) <= a.size
  THEN [data |-> Copied(a, s), dlen |-> a.dlen + Len(s), size |-> a.size]
  ELSE [data |-> (Content(a) \o s) \o Zeros(Reserved), dlen |-> a.dlen + Len(s),
        size |-> a.size]

\* The bytes fit, or all of them move to a larger block.
ByteArrayAppendNChar(a, s) ==
  IF a.dlen + Len(s) <= a.size
  THEN [data |-> Copied(a, s), dlen |-> a.dlen + Len(s), size |-> a.size]
  ELSE [data |-> (Content(a) \o s) \o Zeros(Reserved), dlen |-> a.dlen + Len(s),
        size |-> (a.dlen + Len(s)) + Reserved]

ByteArrayAppendChar(a, c) == ByteArrayAppendNChar(a, <<c>>)

ByteArrayAppendArray(a, b) == ByteArrayAppendNChar(a, Content(b))

ByteArrayCharEqual(a, s) == a.dlen = Len(s) /\ Content(a) = s
=============================================================================
