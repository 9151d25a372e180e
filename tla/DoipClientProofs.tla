--------------------------- MODULE DoipClientProofs ---------------------------
(***************************************************************************)
(* Theorems about a DoIP client, its sockets and its messages, for every   *)
(* configuration, every length of its buffers and every number of          *)
(* connections.                                                            *)
(***************************************************************************)
EXTENDS DoipClient, SequenceTheorems, TLAPS

-----------------------------------------------------------------------------
(***************************************************************************)
(* Numbers and their bytes                                                 *)
(***************************************************************************)

\* Division with remainder.
LEMMA DivMod ==
  ASSUME NEW v \in Int, NEW w \in Int, w = v \div 256, NEW r \in Int, r = v % 256
  PROVE  v = 256 * w + r
OBVIOUS

\* To shift by two and three bytes is to shift by one repeatedly.
LEMMA DivDiv ==
  ASSUME NEW n \in Nat
  PROVE  /\ n \div 65536 = (n \div 256) \div 256
         /\ n \div 16777216 = ((n \div 256) \div 256) \div 256
<1>1. PICK w \in Nat : w = n \div 256  OBVIOUS
<1>2. PICK r \in 0..255 : r = n % 256  OBVIOUS
<1>3. PICK w2 \in Nat : w2 = w \div 256  OBVIOUS
<1>4. PICK r2 \in 0..255 : r2 = w % 256  OBVIOUS
<1>5. PICK w3 \in Nat : w3 = w2 \div 256  OBVIOUS
<1>6. PICK r3 \in 0..255 : r3 = w2 % 256  OBVIOUS
<1>7. n = 256 * w + r /\ w = 256 * w2 + r2 /\ w2 = 256 * w3 + r3
  BY <1>1, <1>2, <1>3, <1>4, <1>5, <1>6, DivMod
<1>8. n = 65536 * w2 + (256 * r2 + r)  BY <1>7
<1>9. n = 16777216 * w3 + (65536 * r3 + 256 * r2 + r)  BY <1>7
<1>10. n \div 65536 = w2  BY <1>8
<1>11. n \div 16777216 = w3  BY <1>9
<1> QED  BY <1>1, <1>3, <1>5, <1>10, <1>11

\* A number that its field can hold.
Fits(n, size) ==
  /\ n \in Nat
  /\ size = 1 => n < 256
  /\ size = 2 => n < 65536
  /\ size = 4 => n < 4294967296

\* A number is in the bytes at an offset.
Holds(b, offset, size, n) == \A i \in 1..size : b[offset + i] = Ipc!Digits(n)[i]

\* r is b, but that a number is written over the bytes at an offset.
Written(r, b, len, offset, size, n) ==
  /\ r \in [1..len -> Int]
  /\ \A i \in 1..len : (i <= offset \/ i > offset + size) => r[i] = b[i]
  /\ offset + size <= len => Holds(r, offset, size, n)

\* A number is written over the bytes at its offset, and over no other.
LEMMA PutNumberIs ==
  ASSUME NEW len \in Nat, NEW b, b \in [1..len -> Int], NEW offset \in Nat, NEW size \in {1, 2, 4},
         NEW n \in Nat, NEW r, r = Ipc!PutNumber(b, offset, size, n)
  PROVE  Written(r, b, len, offset, size, n)
<1>1. b \in Seq(Int) /\ Len(b) = len  OBVIOUS
<1>2. PICK d : d = Ipc!Digits(n)  OBVIOUS
<1>3. d \in Seq(Int) /\ Len(d) = 4 /\ \A i \in 1..4 : d[i] \in Int  BY <1>2 DEF Ipc!Digits
<1>4. PICK l : l = SubSeq(d, 1, size)  OBVIOUS
<1>5. Len(l) = size  BY <1>3, <1>4
<1>6. \A i \in 1..size : l[i] = d[i]  BY <1>3, <1>4
<1>7. \A i \in 1..size : l[i] \in Int  BY <1>3, <1>6
<1>8. r = [i \in 1..len |->
     IF i \in (offset + 1)..(offset + size) THEN l[i - offset] ELSE b[i]]
  BY <1>1, <1>2, <1>4, <1>5 DEF Ipc!PutNumber, Ipc!Put, Ipc!Little
<1>9. \A i \in 1..len : r[i] \in Int  BY <1>7, <1>8
<1>10. \A i \in 1..size : offset + size <= len =>
         offset + i \in (offset + 1)..(offset + size) /\ offset + i \in 1..len /\ (offset + i) - offset = i
  OBVIOUS
<1>11. \A i \in 1..size : offset + size <= len => r[offset + i] = l[i]  BY <1>8, <1>10
<1>12. \A i \in 1..size : offset + size <= len => r[offset + i] = Ipc!Digits(n)[i]
  BY <1>2, <1>6, <1>11
<1>13. \A i \in 1..len : (i <= offset \/ i > offset + size) => r[i] = b[i]  BY <1>8
<1> QED  BY <1>8, <1>9, <1>12, <1>13 DEF Written, Holds

\* The bytes of a number make the number again.
LEMMA DigitsIs ==
  ASSUME NEW n \in Nat, NEW d, d = Ipc!Digits(n)
  PROVE  /\ \A i \in 1..4 : d[i] \in 0..255
         /\ n < 256 => n = d[1]
         /\ n < 65536 => n = d[1] + 256 * d[2]
         /\ n < 4294967296 => n = d[1] + 256 * d[2] + 65536 * d[3] + 16777216 * d[4]
<1>1. PICK w \in Nat : w = n \div 256  OBVIOUS
<1>2. PICK w2 \in Nat : w2 = w \div 256  OBVIOUS
<1>3. PICK w3 \in Nat : w3 = w2 \div 256  OBVIOUS
<1>4. PICK w4 \in Nat : w4 = w3 \div 256  OBVIOUS
<1>5. PICK r1 \in 0..255 : r1 = n % 256  OBVIOUS
<1>6. PICK r2 \in 0..255 : r2 = w % 256  OBVIOUS
<1>7. PICK r3 \in 0..255 : r3 = w2 % 256  OBVIOUS
<1>8. PICK r4 \in 0..255 : r4 = w3 % 256  OBVIOUS
<1>9. n \div 65536 = w2 /\ n \div 16777216 = w3  BY <1>1, <1>2, <1>3, DivDiv
<1>10. d = <<r1, r2, r3, r4>>  BY <1>1, <1>5, <1>6, <1>7, <1>8, <1>9 DEF Ipc!Digits
<1>11. n = 256 * w + r1  BY <1>1, <1>5, DivMod
<1>12. w = 256 * w2 + r2  BY <1>2, <1>6, DivMod
<1>13. w2 = 256 * w3 + r3  BY <1>3, <1>7, DivMod
<1>14. w3 = 256 * w4 + r4  BY <1>4, <1>8, DivMod
<1>15. n < 256 => n = r1  BY <1>11
<1>16. n < 65536 => n = r1 + 256 * r2  BY <1>11, <1>12
<1>17. n < 4294967296 => w4 = 0  BY <1>11, <1>12, <1>13, <1>14
<1>18. n < 4294967296 => n = r1 + 256 * r2 + 65536 * r3 + 16777216 * r4
  BY <1>11, <1>12, <1>13, <1>14, <1>17
<1> QED  BY <1>10, <1>15, <1>16, <1>18

\* A number is read where it was written.
LEMMA GetNumberIs ==
  ASSUME NEW len \in Nat, NEW b, b \in [1..len -> Int], NEW offset \in Nat, NEW size \in {1, 2, 4},
         NEW n, Fits(n, size), offset + size <= len,
         Holds(b, offset, size, n)
  PROVE  Ipc!GetNumber(b, offset, size) = n
<1>1. b \in Seq(Int) /\ Len(b) = len  OBVIOUS
<1>2. PICK g : g = Ipc!Get(b, offset, size)  OBVIOUS
<1>3. PICK d : d = Ipc!Digits(n)  OBVIOUS
<1>4. \A i \in 1..size : g[i] = d[i]
  <2>1. \A i \in 1..size : g[i] = b[offset + i]  BY <1>1, <1>2 DEF Ipc!Get
  <2> QED  BY <1>3, <2>1 DEF Holds
<1>5. /\ n < 256 => n = d[1]
      /\ n < 65536 => n = d[1] + 256 * d[2]
      /\ n < 4294967296 => n = d[1] + 256 * d[2] + 65536 * d[3] + 16777216 * d[4]
  BY <1>3, DigitsIs, SMT DEF Fits
<1>6. CASE size = 1  BY <1>2, <1>4, <1>5, <1>6, SMT DEF Ipc!GetNumber, Fits
<1>7. CASE size = 2  BY <1>2, <1>4, <1>5, <1>7, SMT DEF Ipc!GetNumber, Fits
<1>8. CASE size = 4  BY <1>2, <1>4, <1>5, <1>8, SMT DEF Ipc!GetNumber, Fits
<1> QED  BY <1>6, <1>7, <1>8

\* A number of 32 bits fits four bytes.
LEMMA DWordFits ==
  ASSUME NEW n \in DWord
  PROVE  Fits(n, 4)
<1>1. n \in Nat /\ n \div 16777216 < 256  BY SMT DEF DWord, Byte
<1>2. n < 4294967296  BY <1>1, SMT
<1> QED  BY <1>1, <1>2, SMT DEF Fits

\* A number of 16 bits fits two bytes.
LEMMA WordFits ==
  ASSUME NEW n \in Word
  PROVE  Fits(n, 2)
<1>1. n \in Nat /\ n < 65536  BY SMT DEF Word
<1> QED  BY <1>1, SMT DEF Fits

\* A configuration is its six fields, and each fits the bytes it is written to.
LEMMA ConfigFits ==
  ASSUME NEW c \in Config
  PROVE  /\ c = [ver |-> c.ver, sa_addr |-> c.sa_addr, src_ip |-> c.src_ip,
                  src_port |-> c.src_port, dst_ip |-> c.dst_ip, dst_port |-> c.dst_port]
         /\ Fits(c.ver, 1) /\ Fits(c.sa_addr, 2) /\ Fits(c.src_ip, 4)
         /\ Fits(c.src_port, 2) /\ Fits(c.dst_ip, 4) /\ Fits(c.dst_port, 2)
<1>1. c = [ver |-> c.ver, sa_addr |-> c.sa_addr, src_ip |-> c.src_ip,
           src_port |-> c.src_port, dst_ip |-> c.dst_ip, dst_port |-> c.dst_port]
  BY Zenon DEF Config
<1>2. /\ c.ver \in Byte /\ c.sa_addr \in Word /\ c.src_ip \in DWord
      /\ c.src_port \in Word /\ c.dst_ip \in DWord /\ c.dst_port \in Word
  BY Zenon DEF Config
<1>3. Fits(c.ver, 1)  BY <1>2, SMT DEF Byte, Fits
<1>4. Fits(c.sa_addr, 2) /\ Fits(c.src_port, 2) /\ Fits(c.dst_port, 2)
  BY <1>2, WordFits, Zenon
<1>5. Fits(c.src_ip, 4) /\ Fits(c.dst_ip, 4)  BY <1>2, DWordFits, Zenon
<1> QED  BY <1>1, <1>3, <1>4, <1>5, Zenon

\* What is asked for arrives: no field of a configuration is written over another,
\* cut, or read where another is (dm_api_doipc_create and the handler of the diag
\* master).
THEOREM ConfigArrives ==
  \A c \in Configs : Ipc!DoipcCreateFields(Ipc!DoipcCreateMessage(c)) = c
<1> SUFFICES ASSUME NEW c \in Configs
             PROVE  Ipc!DoipcCreateFields(Ipc!DoipcCreateMessage(c)) = c
  OBVIOUS
<1> USE DEF Ipc!MsgSize, Ipc!VersionOffset, Ipc!SourceAddrOffset, Ipc!ClientIpOffset,
            Ipc!ClientPortOffset, Ipc!ServerIpOffset, Ipc!ServerPortOffset, Ipc!DoipcCreateSize
<1>1. c \in Config  BY DoipAssumption, Zenon
<1>2. /\ c = [ver |-> c.ver, sa_addr |-> c.sa_addr, src_ip |-> c.src_ip,
              src_port |-> c.src_port, dst_ip |-> c.dst_ip, dst_port |-> c.dst_port]
      /\ Fits(c.ver, 1) /\ Fits(c.sa_addr, 2) /\ Fits(c.src_ip, 4)
      /\ Fits(c.src_port, 2) /\ Fits(c.dst_ip, 4) /\ Fits(c.dst_port, 2)
  BY <1>1, ConfigFits, Zenon
<1>3. /\ c.ver \in Nat /\ c.sa_addr \in Nat /\ c.src_ip \in Nat
      /\ c.src_port \in Nat /\ c.dst_ip \in Nat /\ c.dst_port \in Nat
  BY <1>2, SMT DEF Fits
<1>4. /\ 33 \in Nat /\ 18 \in Nat /\ 19 \in Nat /\ 21 \in Nat /\ 25 \in Nat /\ 27 \in Nat
      /\ 31 \in Nat /\ 0 \in Nat /\ 4 \in Nat /\ 8 \in Nat /\ Ipc!DoipcCreate \in Nat
      /\ 1 \in {1, 2, 4} /\ 2 \in {1, 2, 4} /\ 4 \in {1, 2, 4}
      /\ 18 + 1 <= 33 /\ 19 + 2 <= 33 /\ 21 + 4 <= 33 /\ 25 + 2 <= 33 /\ 27 + 4 <= 33
      /\ 31 + 2 <= 33
  BY SMT DEF Ipc!DoipcCreate
<1>5. PICK b0 : b0 = Ipc!Buffer(33)  OBVIOUS
<1>6. b0 \in [1..33 -> Int]  BY <1>5 DEF Ipc!Buffer
<1>7. PICK b1 : b1 = Ipc!PutNumber(b0, 18, 1, c.ver)  OBVIOUS
<1>8. PICK b2 : b2 = Ipc!PutNumber(b1, 19, 2, c.sa_addr)  OBVIOUS
<1>9. PICK b3 : b3 = Ipc!PutNumber(b2, 21, 4, c.src_ip)  OBVIOUS
<1>10. PICK b4 : b4 = Ipc!PutNumber(b3, 25, 2, c.src_port)  OBVIOUS
<1>11. PICK b5 : b5 = Ipc!PutNumber(b4, 27, 4, c.dst_ip)  OBVIOUS
<1>12. PICK b6 : b6 = Ipc!PutNumber(b5, 31, 2, c.dst_port)  OBVIOUS
<1>13. PICK h0 : h0 = Ipc!Put(b6, 0, [i \in 1..18 |-> 0])  OBVIOUS
<1>14. PICK h1 : h1 = Ipc!PutNumber(h0, 0, 4, Ipc!DoipcCreate)  OBVIOUS
<1>15. PICK h2 : h2 = Ipc!PutNumber(h1, 4, 4, 0)  OBVIOUS
<1>16. PICK h3 : h3 = Ipc!PutNumber(h2, 8, 2, 0)  OBVIOUS
<1>17. Ipc!DoipcCreateMessage(c) = h3
  BY <1>5, <1>7, <1>8, <1>9, <1>10, <1>11, <1>12, <1>13, <1>14, <1>15, <1>16
  DEF Ipc!DoipcCreateMessage, Ipc!Headed
<1>18. Written(b1, b0, 33, 18, 1, c.ver)  BY <1>3, <1>4, <1>6, <1>7, PutNumberIs, Zenon
<1>19. b1 \in [1..33 -> Int]  BY <1>18, Zenon DEF Written
<1>20. Written(b2, b1, 33, 19, 2, c.sa_addr)
  BY <1>3, <1>4, <1>19, <1>8, PutNumberIs, Zenon
<1>21. b2 \in [1..33 -> Int]  BY <1>20, Zenon DEF Written
<1>22. Written(b3, b2, 33, 21, 4, c.src_ip)
  BY <1>3, <1>4, <1>21, <1>9, PutNumberIs, Zenon
<1>23. b3 \in [1..33 -> Int]  BY <1>22, Zenon DEF Written
<1>24. Written(b4, b3, 33, 25, 2, c.src_port)
  BY <1>3, <1>4, <1>23, <1>10, PutNumberIs, Zenon
<1>25. b4 \in [1..33 -> Int]  BY <1>24, Zenon DEF Written
<1>26. Written(b5, b4, 33, 27, 4, c.dst_ip)
  BY <1>3, <1>4, <1>25, <1>11, PutNumberIs, Zenon
<1>27. b5 \in [1..33 -> Int]  BY <1>26, Zenon DEF Written
<1>28. Written(b6, b5, 33, 31, 2, c.dst_port)
  BY <1>3, <1>4, <1>27, <1>12, PutNumberIs, Zenon
<1>29. b6 \in [1..33 -> Int]  BY <1>28, Zenon DEF Written
<1>30. h0 \in [1..33 -> Int] /\ \A i \in 1..33 : i > 18 => h0[i] = b6[i]
  <2>1. Len(b6) = 33  BY <1>29, SMT
  <2>2. PICK z : z = [i \in 1..18 |-> 0]  OBVIOUS
  <2>3. Len(z) = 18 /\ \A i \in 1..18 : z[i] = 0  BY <2>2, SMT
  <2>4. h0 = [i \in 1..33 |-> IF i \in (0 + 1)..(0 + 18) THEN z[i - 0] ELSE b6[i]]
    BY <1>13, <2>1, <2>2, <2>3, SMT DEF Ipc!Put
  <2>5. \A i \in 1..33 : i > 18 => h0[i] = b6[i]  BY <2>4, SMT
  <2>6. \A i \in 1..33 : i <= 18 => h0[i] = 0  BY <2>3, <2>4, SMT
  <2>7. \A i \in 1..33 : h0[i] \in Int  BY <1>29, <2>5, <2>6, SMT
  <2> QED  BY <2>4, <2>5, <2>7, SMT
<1>31. Written(h1, h0, 33, 0, 4, Ipc!DoipcCreate)
  BY <1>4, <1>30, <1>14, PutNumberIs, Zenon
<1>32. h1 \in [1..33 -> Int]  BY <1>31, Zenon DEF Written
<1>33. Written(h2, h1, 33, 4, 4, 0)  BY <1>4, <1>32, <1>15, PutNumberIs, Zenon
<1>34. h2 \in [1..33 -> Int]  BY <1>33, Zenon DEF Written
<1>35. Written(h3, h2, 33, 8, 2, 0)  BY <1>4, <1>34, <1>16, PutNumberIs, Zenon
<1>36. h3 \in [1..33 -> Int]  BY <1>35, Zenon DEF Written
<1>37. \A i \in 19..33 : h3[i] = b6[i]  BY <1>30, <1>31, <1>33, <1>35, SMT DEF Written
<1>38. /\ \A i \in 19..31 : h3[i] = b5[i]
       /\ \A i \in 19..27 : h3[i] = b4[i]
       /\ \A i \in 19..25 : h3[i] = b3[i]
       /\ \A i \in 19..21 : h3[i] = b2[i]
       /\ h3[19] = b1[19]
  BY <1>20, <1>22, <1>24, <1>26, <1>28, <1>37, SMT DEF Written
<1>39. Ipc!GetNumber(h3, 18, 1) = c.ver
  <2>1. Holds(h3, 18, 1, c.ver)  BY <1>18, <1>37, <1>38, SMT DEF Written, Holds
  <2> QED  BY <1>2, <1>4, <1>36, <2>1, GetNumberIs, Zenon
<1>40. Ipc!GetNumber(h3, 19, 2) = c.sa_addr
  <2>1. Holds(h3, 19, 2, c.sa_addr)  BY <1>20, <1>37, <1>38, SMT DEF Written, Holds
  <2> QED  BY <1>2, <1>4, <1>36, <2>1, GetNumberIs, Zenon
<1>41. Ipc!GetNumber(h3, 21, 4) = c.src_ip
  <2>1. Holds(h3, 21, 4, c.src_ip)  BY <1>22, <1>37, <1>38, SMT DEF Written, Holds
  <2> QED  BY <1>2, <1>4, <1>36, <2>1, GetNumberIs, Zenon
<1>42. Ipc!GetNumber(h3, 25, 2) = c.src_port
  <2>1. Holds(h3, 25, 2, c.src_port)  BY <1>24, <1>37, <1>38, SMT DEF Written, Holds
  <2> QED  BY <1>2, <1>4, <1>36, <2>1, GetNumberIs, Zenon
<1>43. Ipc!GetNumber(h3, 27, 4) = c.dst_ip
  <2>1. Holds(h3, 27, 4, c.dst_ip)  BY <1>26, <1>37, <1>38, SMT DEF Written, Holds
  <2> QED  BY <1>2, <1>4, <1>36, <2>1, GetNumberIs, Zenon
<1>44. Ipc!GetNumber(h3, 31, 2) = c.dst_port
  <2>1. Holds(h3, 31, 2, c.dst_port)  BY <1>28, <1>37, <1>38, SMT DEF Written, Holds
  <2> QED  BY <1>2, <1>4, <1>36, <2>1, GetNumberIs, Zenon
<1> QED
  <2>1. Ipc!DoipcCreateFields(h3)
          = [ver |-> c.ver, sa_addr |-> c.sa_addr, src_ip |-> c.src_ip,
             src_port |-> c.src_port, dst_ip |-> c.dst_ip, dst_port |-> c.dst_port]
    <3>1. 18 + 1 = 19 /\ 18 + 3 = 21 /\ 18 + 7 = 25 /\ 18 + 9 = 27 /\ 18 + 13 = 31  BY SMT
    <3> QED
      BY <1>39, <1>40, <1>41, <1>42, <1>43, <1>44, <3>1, Zenon DEF Ipc!DoipcCreateFields
  <2> QED  BY <1>2, <1>17, <2>1, Zenon

-----------------------------------------------------------------------------
(***************************************************************************)
(* Messages                                                                *)
(***************************************************************************)

\* Sequences concatenated.
LEMMA CatType ==
  ASSUME NEW S, NEW s \in Seq(S), NEW t \in Seq(S)
  PROVE  s \o t \in Seq(S)
OBVIOUS

\* Two bytes of a number.
LEMMA TwoBytesIs ==
  ASSUME NEW n \in Nat, NEW t, t = TwoBytes(n), NEW d, d = Ipc!Digits(n)
  PROVE  /\ t \in Seq(Byte) /\ Len(t) = 2
         /\ t[1] = d[2] /\ t[2] = d[1]
<1>1. PICK a \in Byte : a = (n \div 256) % 256 BY SMT DEF Byte
<1>2. PICK b \in Byte : b = n % 256 BY SMT DEF Byte
<1>3. t = <<a, b>>  BY <1>1, <1>2, Zenon DEF TwoBytes
<1>4. d[1] = b /\ d[2] = a  BY <1>1, <1>2, SMT DEF Ipc!Digits
<1> QED BY <1>3, <1>4, SMT

\* Four bytes of a number.
LEMMA FourBytesIs ==
  ASSUME NEW n \in Nat, NEW t, t = FourBytes(n), NEW d, d = Ipc!Digits(n)
  PROVE  /\ t \in Seq(Byte) /\ Len(t) = 4
         /\ t[1] = d[4] /\ t[2] = d[3] /\ t[3] = d[2] /\ t[4] = d[1]
<1>1. PICK a \in Byte : a = (n \div 16777216) % 256 BY SMT DEF Byte
<1>2. PICK b \in Byte : b = (n \div 65536) % 256 BY SMT DEF Byte
<1>3. PICK c \in Byte : c = (n \div 256) % 256 BY SMT DEF Byte
<1>4. PICK e \in Byte : e = n % 256 BY SMT DEF Byte
<1>5. t = <<a, b, c, e>>  BY <1>1, <1>2, <1>3, <1>4, SMT DEF FourBytes
<1>6. d[1] = e /\ d[2] = c /\ d[3] = b /\ d[4] = a
  BY <1>1, <1>2, <1>3, <1>4, SMT DEF Ipc!Digits
<1> QED BY <1>5, <1>6, SMT

\* A header is eight bytes, with the type and the length of the message where they are read.
LEMMA HeaderIs ==
  ASSUME NEW ver \in Byte, NEW type \in Nat, NEW len \in Nat
  PROVE  LET h == HeaderEncode(ver, type, len)
             t == Ipc!Digits(type)
             l == Ipc!Digits(len)
         IN  /\ h \in Seq(Byte)
             /\ Len(h) = 8
             /\ h[3] = t[2] /\ h[4] = t[1]
             /\ h[5] = l[4] /\ h[6] = l[3] /\ h[7] = l[2] /\ h[8] = l[1]
<1>1. PICK h : h = HeaderEncode(ver, type, len)  OBVIOUS
<1>2. PICK t : t = Ipc!Digits(type)  OBVIOUS
<1>3. PICK l : l = Ipc!Digits(len)  OBVIOUS
<1>4. PICK v \in Byte : v = 255 - ver BY SMT DEF Byte
<1>5. PICK x : x = <<ver, v>> OBVIOUS
<1>6. x \in Seq(Byte)  BY <1>5, SMT
<1>7. Len(x) = 2  BY <1>5, SMT
<1>8. PICK y : y = TwoBytes(type) OBVIOUS
<1>9. y \in Seq(Byte)  BY <1>8, <1>2, TwoBytesIs, Zenon
<1>10. Len(y) = 2 /\ y[1] = t[2] /\ y[2] = t[1]  BY <1>8, <1>2, TwoBytesIs, ZenonT(30)
<1>11. PICK z : z = FourBytes(len) OBVIOUS
<1>12. z \in Seq(Byte)  BY <1>11, <1>3, FourBytesIs, SMT
<1>13. Len(z) = 4 /\ z[1] = l[4] /\ z[2] = l[3] /\ z[3] = l[2] /\ z[4] = l[1]
  BY <1>11, <1>3, FourBytesIs, SMT
<1>14. PICK w : w = x \o y OBVIOUS
<1>15. w \in Seq(Byte)  BY <1>6, <1>9, <1>14, CatType, Zenon
<1>16. Len(w) = 4 /\ w[3] = y[1] /\ w[4] = y[2]
  <2>1. Len(w) = Len(x) + Len(y)  BY <1>6, <1>9, <1>14, SMT
  <2>2. \A i \in 1..Len(y) : w[Len(x) + i] = y[i]  BY <1>6, <1>9, <1>14, SMT
  <2> QED  BY <1>7, <1>10, <2>1, <2>2, SMT
<1>17. h = w \o z  BY <1>1, <1>4, <1>5, <1>8, <1>11, <1>14, Zenon DEF HeaderEncode
<1>18. h \in Seq(Byte)  BY <1>12, <1>15, <1>17, CatType, Zenon
<1>19. /\ Len(h) = 8 /\ h[3] = w[3] /\ h[4] = w[4]
       /\ h[5] = z[1] /\ h[6] = z[2] /\ h[7] = z[3] /\ h[8] = z[4]
  <2>1. Len(h) = Len(w) + Len(z)  BY <1>12, <1>15, <1>17, SMT
  <2>2. \A i \in 1..Len(w) : h[i] = w[i]  BY <1>12, <1>15, <1>17, SMT
  <2>3. \A i \in 1..Len(z) : h[Len(w) + i] = z[i]  BY <1>12, <1>15, <1>17, SMT
  <2> QED  BY <1>13, <1>16, <2>1, <2>2, <2>3, SMT
<1> QED BY <1>1, <1>2, <1>3, <1>10, <1>13, <1>16, <1>18, <1>19, Zenon

\* A number of 16 bits is read from its two bytes.
LEMMA TwoDigits ==
  ASSUME NEW n \in Word, NEW d, d = Ipc!Digits(n)
  PROVE  n = 256 * d[2] + d[1]
<1>1. n \in Nat /\ n < 65536  BY SMT DEF Word
<1>2. PICK w \in Nat : w = n \div 256  BY <1>1, SMT
<1>3. PICK r \in 0..255 : r = n % 256  BY <1>1, SMT
<1>4. n = 256 * w + r  BY <1>1, <1>2, <1>3, DivMod, SMT
<1>5. w % 256 = w  BY <1>1, <1>2, <1>3, <1>4, SMT
<1>6. d[1] = r /\ d[2] = w  BY <1>2, <1>3, <1>5, SMT DEF Ipc!Digits
<1> QED BY <1>4, <1>6, SMT

\* A number of 32 bits is read from its four bytes.
LEMMA FourDigits ==
  ASSUME NEW n, Fits(n, 4), NEW d, d = Ipc!Digits(n)
  PROVE  n = 16777216 * d[4] + 65536 * d[3] + 256 * d[2] + d[1]
<1>1. n < 4294967296 => n = d[1] + 256 * d[2] + 65536 * d[3] + 16777216 * d[4]
  BY DigitsIs, SMT DEF Fits
<1>2. n \in Nat  BY SMT DEF Fits
<1>3. d[1] \in Int /\ d[2] \in Int /\ d[3] \in Int /\ d[4] \in Int
  BY <1>2, SMT DEF Ipc!Digits
<1>4. n < 4294967296  BY SMT DEF Fits
<1> QED BY <1>1, <1>3, <1>4, SMT

\* The provers take this more easily than the definition.
LEMMA WordIsNat == \A n \in Word : n \in Nat
BY SMT DEF Word

\* A header is read from the first eight bytes.
LEMMA HeaderSame ==
  ASSUME NEW h, NEW r, \A i \in 1..8 : r[i] = h[i]
  PROVE  HeaderType(r) = HeaderType(h) /\ HeaderLength(r) = HeaderLength(h)
BY SMT DEF HeaderType, HeaderLength, LengthOffset, TypeOffset, InvVersionOffset, VersionOffset

\* A header is read as it was, whatever follows it.
LEMMA HeaderLonger ==
  ASSUME NEW S, NEW h \in Seq(S), HasHeader(h), NEW t \in Seq(S), NEW r, r = h \o t
  PROVE  /\ HasHeader(r) /\ HeaderType(r) = HeaderType(h) /\ HeaderLength(r) = HeaderLength(h)
<1> USE DEF HeaderLen, LengthOffset, TypeOffset, InvVersionOffset, VersionOffset
<1>1. Len(r) = Len(h) + Len(t)  BY SMT
<1>2. \A i \in 1..Len(h) : r[i] = h[i]  BY SMT
<1>3. Len(h) \in Nat /\ Len(t) \in Nat /\ Len(h) >= 8  BY SMT DEF HasHeader
<1>4. \A i \in 1..8 : r[i] = h[i]  BY <1>2, <1>3, SMT
<1>5. HasHeader(r)  BY <1>1, <1>3, SMT DEF HasHeader
<1> QED BY <1>4, <1>5, HeaderSame, Zenon

\* The type and the length of a header are read as they were written.
LEMMA HeaderReads ==
  ASSUME NEW type \in Word, NEW len \in Nat, NEW h, h = HeaderEncode(Version, type, len)
  PROVE  /\ h \in Seq(Byte) /\ Len(h) = 8
         /\ HeaderType(h) = type
         /\ len \in DWord => HeaderLength(h) = len
<1> USE DEF HeaderLen, LengthOffset, TypeOffset, InvVersionOffset, VersionOffset
<1>1. Version \in Byte  BY SMT DEF Version, Byte
<1>2. type \in Nat  BY WordIsNat, Zenon
<1>3. PICK t : t = Ipc!Digits(type)  OBVIOUS
<1>4. PICK l : l = Ipc!Digits(len)  OBVIOUS
<1>5. h \in Seq(Byte)  BY <1>1, <1>2, <1>3, <1>4, HeaderIs, Zenon
<1>6. Len(h) = 8  BY <1>1, <1>2, <1>3, <1>4, HeaderIs, Zenon
<1>7. h[3] = t[2] /\ h[4] = t[1]  BY <1>1, <1>2, <1>3, <1>4, HeaderIs, Zenon
<1>8. h[5] = l[4] /\ h[6] = l[3] /\ h[7] = l[2] /\ h[8] = l[1]
   BY <1>1, <1>2, <1>3, <1>4, HeaderIs, Zenon
<1>9. HeaderType(h) = type
  <2>1. type = 256 * t[2] + t[1]  BY <1>3, TwoDigits, SMT
  <2> QED BY <1>7, <2>1, SMT DEF HeaderType
<1>10. ASSUME len \in DWord  PROVE HeaderLength(h) = len
  <2>1. Fits(len, 4)  BY <1>10, DWordFits, Zenon
  <2>2. len = 16777216 * l[4] + 65536 * l[3] + 256 * l[2] + l[1]  BY <1>4, <2>1, FourDigits, SMT
  <2> QED BY <1>8, <2>2, SMT DEF HeaderLength
<1> QED BY <1>5, <1>9, <1>10, <1>6, Zenon

\* A message with a header and two bytes of address is read as it was made.
LEMMA AddressedIs ==
  ASSUME NEW type \in Word, NEW len \in Nat, NEW sa \in Word
  PROVE  LET b == HeaderEncode(Version, type, len) \o TwoBytes(sa)
         IN  /\ b \in Seq(Byte)
             /\ Len(b) = 10
             /\ HeaderType(b) = type /\ Tester(b) = sa
             /\ len \in DWord => HeaderLength(b) = len
<1>1. PICK b : b = HeaderEncode(Version, type, len) \o TwoBytes(sa)  OBVIOUS
<1> USE DEF HeaderLen, LengthOffset, TypeOffset, InvVersionOffset, VersionOffset
<1>2. PICK h : h = HeaderEncode(Version, type, len)  OBVIOUS
<1>3. PICK t : t = TwoBytes(sa)  OBVIOUS
<1>4. PICK d : d = Ipc!Digits(sa)  OBVIOUS
<1>5. sa \in Nat  BY WordIsNat, Zenon
<1>6. t \in Seq(Byte)  BY <1>3, <1>5, TwoBytesIs, Zenon
<1>7. Len(t) = 2 /\ t[1] = d[2] /\ t[2] = d[1]  BY <1>3, <1>4, <1>5, TwoBytesIs, ZenonT(30)
<1>8. h \in Seq(Byte)  BY <1>2, HeaderReads, Zenon
<1>9. Len(h) = 8 /\ HeaderType(h) = type /\ (len \in DWord => HeaderLength(h) = len)
  BY <1>2, HeaderReads, Zenon
<1>10. b = h \o t  BY <1>2, <1>3, <1>1, Zenon
<1>11. b \in Seq(Byte)  BY <1>6, <1>8, <1>10, CatType, Zenon
<1>12. Len(b) = Len(h) + Len(t) /\ \A i \in 1..Len(t) : b[Len(h) + i] = t[i]
  BY <1>6, <1>8, <1>10, SMT
<1>13. Len(b) = 10 /\ b[9] = t[1] /\ b[10] = t[2]  BY <1>7, <1>9, <1>12, SMT
<1>14. HasHeader(h)  BY <1>9, SMT DEF HasHeader
<1>15. HeaderType(b) = HeaderType(h) /\ HeaderLength(b) = HeaderLength(h)
  BY <1>6, <1>8, <1>10, <1>14, HeaderLonger, Zenon
<1>16. Tester(b) = sa
  <2>1. sa = 256 * d[2] + d[1]  BY <1>4, TwoDigits, SMT
  <2> QED  BY <1>7, <1>13, <2>1, SMT DEF Tester, DiagSourceOffset
<1> QED  BY <1>9, <1>11, <1>13, <1>15, <1>16, <1>1, Zenon

\* It is read so, too, when more follows.
LEMMA BodyLonger ==
  ASSUME NEW b \in Seq(Byte), Len(b) >= DiagTargetOffset, NEW t \in Seq(Byte)
  PROVE  LET r == b \o t
         IN  /\ r \in Seq(Byte)
             /\ Len(r) = Len(b) + Len(t)
             /\ Tester(r) = Tester(b) /\ HeaderType(r) = HeaderType(b)
             /\ HeaderLength(r) = HeaderLength(b)
<1> USE DEF HeaderLen, LengthOffset, TypeOffset, InvVersionOffset, VersionOffset,
            DiagTargetOffset, DiagSourceOffset
<1>1. PICK r : r = b \o t  OBVIOUS
<1>2. r \in Seq(Byte)  BY <1>1, CatType, Zenon
<1>3. Len(r) = Len(b) + Len(t)  BY <1>1, SMT
<1>4. \A i \in 1..Len(b) : r[i] = b[i]  BY <1>1, SMT
<1>5. Len(b) \in Nat /\ Len(b) >= 10  BY SMT
<1>6. r[9] = b[9] /\ r[10] = b[10]  BY <1>4, <1>5, SMT
<1>7. Tester(r) = Tester(b)  BY <1>6, SMT DEF Tester
<1>8. HasHeader(b)  BY <1>5, SMT DEF HasHeader
<1>9. HeaderType(r) = HeaderType(b) /\ HeaderLength(r) = HeaderLength(b)
  BY <1>1, <1>8, HeaderLonger, Zenon
<1> QED  BY <1>1, <1>2, <1>3, <1>7, <1>9, Zenon

\* The payload types are numbers of 16 bits.
LEMMA TypesAreWords ==
  /\ RoutingActivationRequest \in Word /\ RoutingActivationResponse \in Word
  /\ AliveCheckRequest \in Word /\ AliveCheckResponse \in Word /\ DiagnosticMessage \in Word
BY SMT DEF Word, RoutingActivationRequest, RoutingActivationResponse, AliveCheckRequest,
           AliveCheckResponse, DiagnosticMessage

\* The part of a message that is reserved.
LEMMA FourZeros == FourBytes(0) \in Seq(Byte) /\ Len(FourBytes(0)) = 4
<1>1. 0 \in Nat  BY SMT
<1> QED  BY <1>1, FourBytesIs, Zenon

\* A message of the client: what a server reads of it.
IsOf(m, sa, type) ==
  /\ m \in Seq(Byte) /\ Len(m) >= DiagTargetOffset
  /\ Tester(m) = sa /\ HeaderType(m) = type

\* The answer to an alive check has the address of the client.
LEMMA AliveResponseIs ==
  ASSUME NEW sa \in Word
  PROVE  IsOf(AliveResponse(sa), sa, AliveCheckResponse)
<1>1. PICK b : b = AliveResponse(sa)  OBVIOUS
<1>2. b = HeaderEncode(Version, AliveCheckResponse, 2) \o TwoBytes(sa)
  BY <1>1, Zenon DEF AliveResponse
<1>3. 2 \in Nat  BY SMT
<1>4. b \in Seq(Byte)  BY <1>2, <1>3, AddressedIs, TypesAreWords, Zenon
<1>5. HeaderType(b) = AliveCheckResponse /\ Tester(b) = sa
  BY <1>2, <1>3, AddressedIs, TypesAreWords, ZenonT(30)
<1>6. Len(b) = 10  BY <1>2, <1>3, AddressedIs, TypesAreWords, Zenon
<1>7. Len(b) >= DiagTargetOffset
  BY <1>6, SMT DEF DiagTargetOffset, DiagSourceOffset, HeaderLen, LengthOffset, TypeOffset,
                   InvVersionOffset, VersionOffset
<1> QED  BY <1>1, <1>7, <1>4, <1>5, Zenon DEF IsOf

\* A message the client makes has its address and its type.
LEMMA RequestIs ==
  ASSUME NEW type \in Word, NEW len \in Nat, NEW sa \in Word, NEW t \in Seq(Byte), NEW m,
         m = HeaderEncode(Version, type, len) \o TwoBytes(sa) \o t
  PROVE  IsOf(m, sa, type)
<1> USE DEF DiagTargetOffset, DiagSourceOffset, HeaderLen, LengthOffset, TypeOffset,
            InvVersionOffset, VersionOffset
<1>1. PICK b : b = HeaderEncode(Version, type, len) \o TwoBytes(sa)  OBVIOUS
<1>2. b \in Seq(Byte) /\ HeaderType(b) = type /\ Tester(b) = sa  BY <1>1, AddressedIs, Zenon
<1>3. Len(b) = 10  BY <1>1, AddressedIs, Zenon
<1>4. Len(b) >= DiagTargetOffset  BY <1>3, SMT
<1>5. m = b \o t  BY <1>1, Zenon
<1>6. /\ m \in Seq(Byte) /\ Len(m) = Len(b) + Len(t) /\ Tester(m) = Tester(b)
      /\ HeaderType(m) = HeaderType(b)
  BY <1>2, <1>4, <1>5, BodyLonger, Zenon
<1>7. Len(t) \in Nat  BY SMT
<1>8. Len(m) >= DiagTargetOffset  BY <1>3, <1>6, <1>7, SMT
<1> QED  BY <1>2, <1>6, <1>8, Zenon DEF IsOf

\* The request to activate routing has the address of the client.
LEMMA RoutingRequestIs ==
  ASSUME NEW sa \in Word
  PROVE  IsOf(RoutingRequest(sa), sa, RoutingActivationRequest)
<1>1. PICK len : len = ActivationReqOemOffset - HeaderLen  OBVIOUS
<1>2. len \in Nat
  BY <1>1, SMT DEF ActivationReqOemOffset, ActivationReqIsoOffset, ActivationReqTypeOffset, HeaderLen,
                   LengthOffset, TypeOffset, InvVersionOffset, VersionOffset
<1>3. PICK b : b = HeaderEncode(Version, RoutingActivationRequest, len) \o TwoBytes(sa)  OBVIOUS
<1>4. b \in Seq(Byte)  BY <1>2, <1>3, AddressedIs, TypesAreWords, Zenon
<1>5. PICK z : z = <<0>>  OBVIOUS
<1>6. z \in Seq(Byte)  BY <1>5, SMT DEF Byte
<1>7. PICK f : f = FourBytes(0)  OBVIOUS
<1>8. f \in Seq(Byte)  BY <1>7, FourZeros, Zenon
<1>9. RoutingRequest(sa) = b \o z \o f
  BY <1>1, <1>3, <1>5, <1>7, Zenon DEF RoutingRequest
<1>10. b \o z \o f = b \o (z \o f)  BY <1>4, <1>6, <1>8, SMT
<1>11. z \o f \in Seq(Byte)  BY <1>6, <1>8, CatType, Zenon
<1> QED  BY <1>2, <1>3, <1>9, <1>10, <1>11, RequestIs, TypesAreWords, Zenon

\* So has a diagnostic message.
LEMMA DiagnosticRequestIs ==
  ASSUME NEW sa \in Word, NEW ta, NEW msg \in Seq(Byte)
  PROVE  IsOf(DiagnosticRequest(sa, ta, msg), sa, DiagnosticMessage)
<1>1. PICK len : len = Len(msg) + DiagTargetOffset - HeaderLen  OBVIOUS
<1>2. len \in Nat
  BY <1>1, SMT DEF DiagTargetOffset, DiagSourceOffset, HeaderLen,
                   LengthOffset, TypeOffset, InvVersionOffset, VersionOffset
<1>3. DiagnosticRequest(sa, ta, msg) = HeaderEncode(Version, DiagnosticMessage, len) \o TwoBytes(sa) \o msg
  BY <1>1, Zenon DEF DiagnosticRequest
<1> QED  BY <1>2, <1>3, RequestIs, TypesAreWords, Zenon

\* A message of the server: the client finds its type, and its end.
IsWhole(m, type) ==
  /\ m \in Seq(Byte) /\ HasHeader(m)
  /\ MessageEnd(m) = Len(m) /\ HeaderType(m) = type

\* An alive check of the server is one whole message.
LEMMA AliveRequestIs == IsWhole(AliveRequest, AliveCheckRequest)
<1> USE DEF HeaderLen, LengthOffset, TypeOffset, InvVersionOffset, VersionOffset
<1>1. 0 \in Nat /\ 0 \in DWord  BY SMT DEF DWord, Byte
<1>2. PICK h : h = AliveRequest  OBVIOUS
<1>3. h = HeaderEncode(Version, AliveCheckRequest, 0)  BY <1>2, Zenon DEF AliveRequest
<1>4. h \in Seq(Byte)  BY <1>1, <1>3, HeaderReads, TypesAreWords, Zenon
<1>5. Len(h) = 8 /\ HeaderType(h) = AliveCheckRequest
  BY <1>1, <1>3, HeaderReads, TypesAreWords, Zenon
<1>6. HeaderLength(h) = 0  BY <1>1, <1>3, HeaderReads, TypesAreWords, Zenon
<1>7. HasHeader(h) /\ MessageEnd(h) = Len(h)  BY <1>5, <1>6, SMT DEF HasHeader, MessageEnd
<1> QED  BY <1>2, <1>4, <1>5, <1>7, Zenon DEF IsWhole

\* Behind its first n bytes m is t.
Carries(m, n, t) == Len(m) = n + Len(t) /\ \A i \in 1..Len(t) : m[n + i] = t[i]

\* Two addresses behind a header, and what follows them.
LEMMA WholeIs ==
  ASSUME NEW type \in Word, NEW len \in Nat, NEW sa \in Word, NEW ta \in Word,
         NEW t \in Seq(Byte), len = Len(t) + 4, len \in DWord
  PROVE  LET m == HeaderEncode(Version, type, len) \o TwoBytes(sa) \o (TwoBytes(ta) \o t)
         IN  IsWhole(m, type) /\ Carries(m, 12, t)
<1> USE DEF DiagTargetOffset, DiagSourceOffset, HeaderLen, LengthOffset, TypeOffset,
            InvVersionOffset, VersionOffset
<1>1. PICK b : b = HeaderEncode(Version, type, len) \o TwoBytes(sa)  OBVIOUS
<1>2. b \in Seq(Byte)  BY <1>1, AddressedIs, Zenon
<1>3. Len(b) = 10  BY <1>1, AddressedIs, SMT
<1>4. HeaderType(b) = type /\ HeaderLength(b) = len  BY <1>1, AddressedIs, ZenonT(30)
<1>5. PICK a : a = TwoBytes(ta)  OBVIOUS
<1>6. a \in Seq(Byte)  BY <1>5, WordIsNat, TwoBytesIs, Zenon
<1>7. Len(a) = 2  BY <1>5, WordIsNat, TwoBytesIs, Zenon
<1>8. PICK r : r = a \o t  OBVIOUS
<1>9. r \in Seq(Byte)  BY <1>6, <1>8, CatType, Zenon
<1>10. Len(r) = Len(a) + Len(t) /\ \A i \in 1..Len(t) : r[Len(a) + i] = t[i]
  BY <1>6, <1>8, SMT
<1>11. PICK m : m = b \o r  OBVIOUS
<1>12. Len(b) >= DiagTargetOffset  BY <1>3, SMT
<1>13. m \in Seq(Byte) /\ HeaderType(m) = type /\ HeaderLength(m) = len
  BY <1>2, <1>4, <1>9, <1>11, <1>12, BodyLonger, Zenon
<1>14. Len(m) = Len(b) + Len(r) /\ \A i \in 1..Len(r) : m[Len(b) + i] = r[i]
  BY <1>2, <1>9, <1>11, SMT
<1>15. Len(t) \in Nat  BY SMT
<1>16. Len(m) = 12 + Len(t)  BY <1>3, <1>7, <1>10, <1>14, <1>15, SMT
<1>17. \A i \in 1..Len(t) : m[12 + i] = t[i]
  <2> TAKE i \in 1..Len(t)
  <2>1. r[2 + i] = t[i]  BY <1>7, <1>10, SMT
  <2>2. 2 + i \in 1..Len(r)  BY <1>7, <1>10, <1>15, SMT
  <2>3. m[10 + (2 + i)] = r[2 + i]  BY <1>3, <1>14, <2>2, SMT
  <2>4. 10 + (2 + i) = 12 + i  BY SMT
  <2> QED  BY <2>1, <2>3, <2>4, Zenon
<1>18. HasHeader(m) /\ MessageEnd(m) = Len(m)
  BY <1>13, <1>15, <1>16, SMT DEF HasHeader, MessageEnd
<1>19. IsWhole(m, type)  BY <1>13, <1>18, Zenon DEF IsWhole
<1>20. Carries(m, 12, t)  BY <1>16, <1>17, Zenon DEF Carries
<1> QED  BY <1>1, <1>5, <1>8, <1>11, <1>19, <1>20, Zenon

\* An answer to a request to activate routing is one whole message, with its code.
LEMMA RoutingResponseIs ==
  ASSUME NEW tester \in Word, NEW entity \in Word, NEW code \in Byte
  PROVE  LET m == RoutingResponse(tester, entity, code)
         IN  /\ IsWhole(m, RoutingActivationResponse)
             /\ MessageEnd(m) > ActivationResCodeOffset
             /\ m[ActivationResCodeOffset + 1] = code
<1> USE DEF HeaderLen, LengthOffset, TypeOffset, InvVersionOffset, VersionOffset, ActivationResCodeOffset
<1>1. PICK len : len = 9  OBVIOUS
<1>2. len \in Nat /\ len \in DWord  BY <1>1, SMT DEF DWord, Byte
<1>3. PICK f : f = FourBytes(0)  OBVIOUS
<1>4. f \in Seq(Byte)  BY <1>3, FourZeros, Zenon
<1>5. Len(f) = 4  BY <1>3, FourZeros, Zenon
<1>6. PICK c : c = <<code>>  OBVIOUS
<1>7. c \in Seq(Byte)  BY <1>6, SMT
<1>8. Len(c) = 1 /\ c[1] = code  BY <1>6, SMT
<1>9. PICK t : t = c \o f  OBVIOUS
<1>10. t \in Seq(Byte)  BY <1>4, <1>7, <1>9, CatType, Zenon
<1>11. Len(t) = Len(c) + Len(f) /\ \A i \in 1..Len(c) : t[i] = c[i]  BY <1>4, <1>7, <1>9, SMT
<1>12. Len(t) = 5 /\ t[1] = code  BY <1>5, <1>8, <1>11, SMT
<1>13. PICK m : m = HeaderEncode(Version, RoutingActivationResponse, len) \o TwoBytes(tester)
                      \o (TwoBytes(entity) \o t)
  OBVIOUS
<1>14. len = Len(t) + 4  BY <1>12, <1>1, SMT
<1>15. IsWhole(m, RoutingActivationResponse)
  BY <1>2, <1>10, <1>13, <1>14, TypesAreWords, WholeIs, Zenon
<1>16. Carries(m, 12, t)  BY <1>2, <1>10, <1>13, <1>14, TypesAreWords, WholeIs, Zenon
<1>17. m[13] = code /\ Len(m) = 17  BY <1>12, <1>16, SMT DEF Carries
<1>18. MessageEnd(m) = Len(m)  BY <1>15, Zenon DEF IsWhole
<1>19. MessageEnd(m) > ActivationResCodeOffset /\ m[ActivationResCodeOffset + 1] = code
  BY <1>17, <1>18, SMT
<1>20. RoutingResponse(tester, entity, code) = m
  <2>1. PICK b : b = HeaderEncode(Version, RoutingActivationResponse, len) \o TwoBytes(tester)  OBVIOUS
  <2>2. b \in Seq(Byte)  BY <1>2, <2>1, AddressedIs, TypesAreWords, Zenon
  <2>3. PICK a : a = TwoBytes(entity)  OBVIOUS
  <2>4. a \in Seq(Byte)  BY <2>3, WordIsNat, TwoBytesIs, Zenon
  <2>5. RoutingResponse(tester, entity, code) = b \o a \o c \o f
    BY <1>3, <1>6, <1>1, <2>1, <2>3, Zenon DEF RoutingResponse
  <2>6. m = b \o (a \o (c \o f))  BY <1>9, <1>13, <2>1, <2>3, Zenon
  <2>7. b \o a \o c \o f = b \o a \o (c \o f)
    <3>1. b \o a \in Seq(Byte)  BY <2>2, <2>4, CatType, Zenon
    <3> QED  BY <1>4, <1>7, <3>1, SMT
  <2>8. b \o a \o (c \o f) = b \o (a \o (c \o f))
    <3>1. c \o f \in Seq(Byte)  BY <1>4, <1>7, CatType, Zenon
    <3> QED  BY <2>2, <2>4, <3>1, SMT
  <2> QED  BY <2>5, <2>6, <2>7, <2>8, Zenon
<1> QED  BY <1>15, <1>19, <1>20, Zenon

\* A response of an ECU, passed on by the server, is one whole message.
LEMMA DiagnosticResponseIs ==
  ASSUME NEW tester \in Word, NEW entity \in Word, NEW msg \in DiagResponses
  PROVE  IsWhole(DiagnosticResponse(entity, tester, msg), DiagnosticMessage)
<1> USE DEF DiagDataOffset, DiagTargetOffset, DiagSourceOffset, HeaderLen, LengthOffset, TypeOffset,
            InvVersionOffset, VersionOffset
<1>1. msg \in Seq(Byte)  BY DoipAssumption, SMT
<1>2. PICK len : len = Len(msg) + DiagDataOffset - HeaderLen  OBVIOUS
<1>3. len \in DWord  BY <1>2, DoipAssumption, Zenon
<1>4. len = Len(msg) + 4 /\ len \in Nat  BY <1>1, <1>2, SMT
<1>5. PICK b : b = HeaderEncode(Version, DiagnosticMessage, len) \o TwoBytes(entity)  OBVIOUS
<1>6. b \in Seq(Byte)  BY <1>4, <1>5, AddressedIs, TypesAreWords, Zenon
<1>7. PICK a : a = TwoBytes(tester)  OBVIOUS
<1>8. a \in Seq(Byte)  BY <1>7, WordIsNat, TwoBytesIs, Zenon
<1>9. DiagnosticResponse(entity, tester, msg) = b \o a \o msg
  BY <1>2, <1>5, <1>7, Zenon DEF DiagnosticResponse
<1>10. b \o a \o msg = b \o (a \o msg)  BY <1>1, <1>6, <1>8, SMT
<1>11. IsWhole(b \o (a \o msg), DiagnosticMessage)
  BY <1>1, <1>3, <1>4, <1>5, <1>7, TypesAreWords, WholeIs, Zenon
<1> QED  BY <1>9, <1>10, <1>11, Zenon

-----------------------------------------------------------------------------
(***************************************************************************)
(* Streams                                                                 *)
(***************************************************************************)

\* What follows an offset of a stream.
LEMMA FromIs ==
  ASSUME NEW s \in Seq(Byte), NEW p \in 0..Len(s)
  PROVE  LET f == From(s, p)
         IN  /\ f \in Seq(Byte)
             /\ Len(f) = Len(s) - p
             /\ \A i \in 1..(Len(s) - p) : f[i] = s[p + i]
BY SMT DEF From

\* From the beginning it is all of the stream.
LEMMA FromZero ==
  ASSUME NEW s \in Seq(Byte)
  PROVE  From(s, 0) = s
BY SMT DEF From

\* Offsets add up.
LEMMA FromFrom ==
  ASSUME NEW s \in Seq(Byte), NEW n \in 0..Len(s), NEW q \in 0..(Len(s) - n)
  PROVE  From(From(s, n), q) = From(s, n + q)
<1>1. PICK f : f = From(s, n)  OBVIOUS
<1>2. f \in Seq(Byte)  BY <1>1, FromIs, Zenon
<1>3. Len(f) = Len(s) - n  BY <1>1, FromIs, Zenon
<1>4. \A i \in 1..(Len(s) - n) : f[i] = s[n + i]  BY <1>1, FromIs, Zenon
<1>5. q \in 0..Len(f) /\ n + q \in 0..Len(s)  BY <1>3, SMT
<1>6. PICK g : g = From(f, q)  OBVIOUS
<1>7. g \in Seq(Byte)  BY <1>2, <1>5, <1>6, FromIs, Zenon
<1>8. Len(g) = Len(f) - q  BY <1>2, <1>5, <1>6, FromIs, Zenon
<1>9. \A i \in 1..(Len(f) - q) : g[i] = f[q + i]  BY <1>2, <1>5, <1>6, FromIs, Zenon
<1>10. PICK h : h = From(s, n + q)  OBVIOUS
<1>11. h \in Seq(Byte)  BY <1>5, <1>10, FromIs, Zenon
<1>12. Len(h) = Len(s) - (n + q)  BY <1>5, <1>10, FromIs, Zenon
<1>13. \A i \in 1..(Len(s) - (n + q)) : h[i] = s[(n + q) + i]  BY <1>5, <1>10, FromIs, Zenon
<1>14. Len(s) \in Nat  BY SMT
<1>15. Len(g) = Len(h)  BY <1>3, <1>8, <1>12, <1>14, SMT
<1>16. \A i \in 1..Len(g) : g[i] = h[i]
  <2> TAKE i \in 1..Len(g)
  <2>1. i \in 1..(Len(f) - q) /\ q + i \in 1..(Len(s) - n) /\ i \in 1..(Len(s) - (n + q))
    BY <1>3, <1>8, <1>12, <1>14, <1>15, SMT
  <2>2. n + (q + i) = (n + q) + i  BY <2>1, SMT
  <2> QED  BY <1>4, <1>9, <1>13, <2>1, <2>2, Zenon
<1>17. g = h  BY <1>7, <1>11, <1>15, <1>16, SeqEqual, SMT
<1> QED  BY <1>1, <1>6, <1>10, <1>17, Zenon

\* What follows an offset of a longer stream.
LEMMA FromCat ==
  ASSUME NEW s \in Seq(Byte), NEW m \in Seq(Byte), NEW p \in 0..Len(s)
  PROVE  From(s \o m, p) = From(s, p) \o m
<1>1. PICK f : f = From(s, p)  OBVIOUS
<1>2. f \in Seq(Byte)  BY <1>1, FromIs, Zenon
<1>3. Len(f) = Len(s) - p  BY <1>1, FromIs, Zenon
<1>4. \A i \in 1..(Len(s) - p) : f[i] = s[p + i]  BY <1>1, FromIs, Zenon
<1>5. PICK c : c = s \o m  OBVIOUS
<1>6. c \in Seq(Byte)  BY <1>5, CatType, Zenon
<1>7. Len(c) = Len(s) + Len(m) /\ (\A i \in 1..Len(s) : c[i] = s[i])
      /\ \A i \in 1..Len(m) : c[Len(s) + i] = m[i]
  BY <1>5, SMT
<1>8. p \in 0..Len(c)  BY <1>7, SMT
<1>9. PICK g : g = From(c, p)  OBVIOUS
<1>10. g \in Seq(Byte)  BY <1>6, <1>8, <1>9, FromIs, Zenon
<1>11. Len(g) = Len(c) - p  BY <1>6, <1>8, <1>9, FromIs, Zenon
<1>12. \A i \in 1..(Len(c) - p) : g[i] = c[p + i]  BY <1>6, <1>8, <1>9, FromIs, Zenon
<1>13. PICK h : h = f \o m  OBVIOUS
<1>14. h \in Seq(Byte)  BY <1>2, <1>13, CatType, Zenon
<1>15. Len(h) = Len(f) + Len(m) /\ (\A i \in 1..Len(f) : h[i] = f[i])
      /\ \A i \in 1..Len(m) : h[Len(f) + i] = m[i]
  BY <1>2, <1>13, SMT
<1>16. Len(s) \in Nat /\ Len(m) \in Nat  BY SMT
<1>17. Len(g) = Len(h)  BY <1>3, <1>7, <1>11, <1>15, <1>16, SMT
<1>18. \A i \in 1..Len(g) : g[i] = h[i]
  <2> TAKE i \in 1..Len(g)
  <2>1. g[i] = c[p + i]  BY <1>11, <1>12, SMT
  <2>2. CASE i <= Len(f)
    <3>1. i \in 1..Len(f) /\ p + i \in 1..Len(s)  BY <1>3, <1>16, <2>2, SMT
    <3>2. f[i] = s[p + i]  BY <1>3, <1>4, <3>1, SMT
    <3> QED  BY <1>7, <1>15, <2>1, <3>1, <3>2, Zenon
  <2>3. CASE i > Len(f)
    <3>1. PICK j : j = i - Len(f)  OBVIOUS
    <3>2. j \in 1..Len(m) /\ i = Len(f) + j /\ p + i = Len(s) + j
      BY <1>3, <1>7, <1>11, <1>16, <2>3, <3>1, SMT
    <3> QED  BY <1>7, <1>15, <2>1, <3>2, Zenon
  <2> QED  BY <1>3, <1>16, <2>2, <2>3, SMT
<1>19. g = h  BY <1>10, <1>14, <1>17, <1>18, SeqEqual, SMT
<1> QED  BY <1>1, <1>5, <1>9, <1>13, <1>19, Zenon

\* What was added to a stream follows its old end.
LEMMA FromEnd ==
  ASSUME NEW s \in Seq(Byte), NEW m \in Seq(Byte)
  PROVE  From(s \o m, Len(s)) = m
<1>1. Len(s) \in 0..Len(s)  BY SMT
<1>2. PICK e : e = From(s, Len(s))  OBVIOUS
<1>3. e \in Seq(Byte)  BY <1>1, <1>2, FromIs, Zenon
<1>4. Len(e) = Len(s) - Len(s)  BY <1>1, <1>2, FromIs, Zenon
<1>5. Len(s) \in Nat  BY SMT
<1>6. Len(e) = 0  BY <1>4, <1>5, SMT
<1>7. e = <<>>  BY <1>3, <1>6, SMT
<1>8. e \o m = m  BY <1>7, SMT
<1> QED  BY <1>1, <1>2, <1>8, FromCat, Zenon

\* A message is no shorter than its header.
LEMMA EndIsNat ==
  ASSUME NEW s \in Seq(Byte), HasHeader(s)
  PROVE  MessageEnd(s) \in Nat /\ MessageEnd(s) >= 8
<1> USE DEF HeaderLen, LengthOffset, TypeOffset, InvVersionOffset, VersionOffset
<1>1. Len(s) >= 8  BY SMT DEF HasHeader
<1>2. Len(s) \in Nat /\ \A i \in 1..Len(s) : s[i] \in Byte  BY SMT
<1>3. \A b \in Byte : b \in Nat  BY SMT DEF Byte
<1>4. 5 \in 1..Len(s) /\ 6 \in 1..Len(s) /\ 7 \in 1..Len(s) /\ 8 \in 1..Len(s)
  BY <1>1, <1>2, SMT
<1>5. s[5] \in Nat /\ s[6] \in Nat /\ s[7] \in Nat /\ s[8] \in Nat  BY <1>2, <1>3, <1>4, Zenon
<1>6. PICK l : l = HeaderLength(s)  OBVIOUS
<1>7. l \in Nat
  <2>1. PICK a \in Nat : a = s[5]  BY <1>5, Zenon
  <2>2. PICK b \in Nat : b = s[6]  BY <1>5, Zenon
  <2>3. PICK c \in Nat : c = s[7]  BY <1>5, Zenon
  <2>4. PICK d \in Nat : d = s[8]  BY <1>5, Zenon
  <2>5. l = 16777216 * s[5] + 65536 * s[6] + 256 * s[7] + s[8]  BY <1>6, SMT DEF HeaderLength
  <2>6. l = 16777216 * a + 65536 * b + 256 * c + d
    BY <2>1, <2>2, <2>3, <2>4, <2>5, SMT
  <2>7. a \in Nat /\ b \in Nat /\ c \in Nat /\ d \in Nat  BY <2>1, <2>2, <2>3, <2>4, Zenon
  <2> QED  BY <2>6, <2>7, SMT
<1>8. PICK e : e = MessageEnd(s)  OBVIOUS
<1>9. e = HeaderLen + l  BY <1>6, <1>8, Zenon DEF MessageEnd
<1> QED  BY <1>7, <1>8, <1>9, SMT

\* The first message of a stream lies in it, and before any other.
LEMMA FirstMessage ==
  ASSUME NEW s \in Seq(Byte), s # <<>>, NEW starts, Framing(s, starts)
  PROVE  /\ HasHeader(s)
         /\ MessageEnd(s) \in starts \cup {Len(s)}
         /\ MessageEnd(s) \in 1..Len(s)
         /\ IsResponse(s) => MessageEnd(s) > ActivationResCodeOffset
         /\ \A n \in starts \cup {Len(s)} : 0 < n => MessageEnd(s) <= n
<1>1. 0 \in starts  BY Zenon DEF Framing
<1>2. From(s, 0) = s  BY FromZero, Zenon
<1>3. HasHeader(s)  BY <1>1, <1>2, Zenon DEF Framing
<1>4. IsResponse(s) => MessageEnd(s) > ActivationResCodeOffset  BY <1>1, <1>2, Zenon DEF Framing
<1>5. 0 + MessageEnd(s) \in starts \cup {Len(s)}  BY <1>1, <1>2, Zenon DEF Framing
<1>6. PICK e : e = MessageEnd(s)  OBVIOUS
<1>7. e \in Nat /\ e >= 8  BY <1>3, <1>6, EndIsNat, Zenon
<1>8. e \in starts \cup {Len(s)}  BY <1>5, <1>6, <1>7, SMT
<1>9. starts \subseteq 0..Len(s)  BY Zenon DEF Framing
<1>10. e \in 1..Len(s)  BY <1>7, <1>8, <1>9, SMT
<1>11. ASSUME NEW n \in starts \cup {Len(s)}, 0 < n  PROVE e <= n
  <2>1. CASE n \in starts
    <3>1. 0 + e <= n  BY <1>1, <1>2, <1>6, <1>11, <2>1, Zenon DEF Framing
    <3> QED  BY <1>7, <3>1, SMT
  <2>2. CASE n = Len(s)  BY <1>10, <2>2, SMT
  <2> QED  BY <2>1, <2>2
<1> QED  BY <1>3, <1>4, <1>6, <1>8, <1>10, <1>11, Zenon

\* Behind a message a stream is framed, too.
LEMMA FramingRest ==
  ASSUME NEW s \in Seq(Byte), NEW starts, Framing(s, starts), NEW n \in starts \cup {Len(s)},
         NEW rest, rest = {q \in 0..(Len(s) - n) : n + q \in starts}
  PROVE  Framing(From(s, n), rest)
<1>1. n \in starts \cup {Len(s)}  OBVIOUS
<1>2. Len(s) \in Nat  BY SMT
<1>3. n \in 0..Len(s)
  <2>1. starts \subseteq 0..Len(s)  BY Zenon DEF Framing
  <2> QED  BY <1>1, <1>2, <2>1, SMT
<1>4. PICK f : f = From(s, n)  OBVIOUS
<1>5. f \in Seq(Byte)  BY <1>3, <1>4, FromIs, Zenon
<1>6. Len(f) = Len(s) - n  BY <1>3, <1>4, FromIs, Zenon
<1>7. rest \subseteq 0..Len(f)  BY <1>6, SMT
<1>8. ASSUME f # <<>>  PROVE 0 \in rest
  <2>1. Len(f) # 0  BY <1>5, <1>8, SMT
  <2>2. n # Len(s)  BY <1>2, <1>3, <1>6, <2>1, SMT
  <2>3. n \in starts  BY <1>1, <2>2, Zenon
  <2>4. n + 0 = n /\ 0 \in 0..(Len(s) - n)  BY <1>2, <1>3, SMT
  <2> QED  BY <2>3, <2>4, Zenon
<1>9. ASSUME NEW q \in rest
      PROVE  /\ HasHeader(From(f, q))
             /\ IsResponse(From(f, q)) => MessageEnd(From(f, q)) > ActivationResCodeOffset
             /\ q + MessageEnd(From(f, q)) \in rest \cup {Len(f)}
             /\ \A r \in rest : q < r => q + MessageEnd(From(f, q)) <= r
  <2>1. q \in 0..(Len(s) - n) /\ n + q \in starts  BY <1>9, Zenon
  <2>2. From(f, q) = From(s, n + q)  BY <1>3, <1>4, <2>1, FromFrom, Zenon
  <2>3. PICK e : e = MessageEnd(From(s, n + q))  OBVIOUS
  <2>4. /\ HasHeader(From(s, n + q))
        /\ IsResponse(From(s, n + q)) => e > ActivationResCodeOffset
        /\ (n + q) + e \in starts \cup {Len(s)}
    BY <2>1, <2>3, Zenon DEF Framing
  <2>5. e \in Nat
    <3>1. PICK g : g = From(s, n + q)  OBVIOUS
    <3>2. n + q \in 0..Len(s)  BY <1>2, <1>3, <2>1, SMT
    <3>3. g \in Seq(Byte)  BY <3>1, <3>2, FromIs, Zenon
    <3> QED  BY <2>3, <2>4, <3>1, <3>3, EndIsNat, Zenon
  <2>6. q + e \in rest \cup {Len(f)}
    <3>1. (n + q) + e = n + (q + e)  BY <1>3, <2>1, <2>5, SMT
    <3>2. CASE (n + q) + e = Len(s)
      <4>1. q + e = Len(f)  BY <1>2, <1>3, <1>6, <2>1, <2>5, <3>1, <3>2, SMT
      <4> QED  BY <4>1, Zenon
    <3>3. CASE (n + q) + e \in starts
      <4>1. (n + q) + e \in 0..Len(s)  BY <3>3, Zenon DEF Framing
      <4>2. q + e \in 0..(Len(s) - n)  BY <1>2, <1>3, <2>1, <2>5, <4>1, SMT
      <4> QED  BY <3>1, <3>3, <4>2, Zenon
    <3> QED  BY <2>4, <3>2, <3>3, Zenon
  <2>7. ASSUME NEW r \in rest, q < r  PROVE q + e <= r
    <3>1. r \in 0..(Len(s) - n) /\ n + r \in starts  BY <2>7, Zenon
    <3>2. n + q < n + r  BY <1>2, <1>3, <2>1, <2>7, <3>1, SMT
    <3>3. (n + q) + e <= n + r  BY <2>1, <2>3, <3>1, <3>2, Zenon DEF Framing
    <3> QED  BY <1>2, <1>3, <2>1, <2>5, <3>1, <3>3, SMT
  <2> QED  BY <2>2, <2>3, <2>4, <2>6, <2>7, Zenon
<1> QED  BY <1>4, <1>7, <1>8, <1>9, Zenon DEF Framing

\* What is read of a message in a stream is read of it in a longer one.
LEMMA MessageLonger ==
  ASSUME NEW s \in Seq(Byte), NEW starts, Framing(s, starts), NEW p \in starts, NEW m \in Seq(Byte)
  PROVE  /\ HasHeader(From(s \o m, p))
         /\ HeaderType(From(s \o m, p)) = HeaderType(From(s, p))
         /\ MessageEnd(From(s \o m, p)) = MessageEnd(From(s, p))
         /\ IsResponse(From(s, p)) =>
              From(s \o m, p)[ActivationResCodeOffset + 1] = From(s, p)[ActivationResCodeOffset + 1]
<1>1. p \in 0..Len(s)  BY Zenon DEF Framing
<1>2. PICK f : f = From(s, p)  OBVIOUS
<1>3. f \in Seq(Byte)  BY <1>1, <1>2, FromIs, Zenon
<1>4. Len(f) = Len(s) - p  BY <1>1, <1>2, FromIs, Zenon
<1>5. PICK g : g = f \o m  OBVIOUS
<1>6. From(s \o m, p) = g  BY <1>1, <1>2, <1>5, FromCat, Zenon
<1>7. HasHeader(f)  BY <1>2, Zenon DEF Framing
<1>8. HasHeader(g) /\ HeaderType(g) = HeaderType(f) /\ HeaderLength(g) = HeaderLength(f)
  BY <1>3, <1>5, <1>7, HeaderLonger, Zenon
<1>9. MessageEnd(g) = MessageEnd(f)  BY <1>8, Zenon DEF MessageEnd
<1>10. ASSUME IsResponse(f)
       PROVE  g[ActivationResCodeOffset + 1] = f[ActivationResCodeOffset + 1]
  <2>1. PICK e : e = MessageEnd(f)  OBVIOUS
  <2>2. e > ActivationResCodeOffset /\ p + e \in starts \cup {Len(s)}
    BY <1>2, <1>10, <2>1, Zenon DEF Framing
  <2>3. e \in Nat  BY <1>3, <1>7, <2>1, EndIsNat, Zenon
  <2>4. p + e \in 0..Len(s)
    <3>1. starts \subseteq 0..Len(s)  BY Zenon DEF Framing
    <3>2. Len(s) \in 0..Len(s)  BY SMT
    <3> QED  BY <2>2, <3>1, <3>2, Zenon
  <2>5. Len(s) \in Nat  BY SMT
  <2>6. Len(f) >= 13
    <3>1. ActivationResCodeOffset = 12
      BY SMT DEF ActivationResCodeOffset, HeaderLen, LengthOffset, TypeOffset, InvVersionOffset,
                 VersionOffset
    <3>2. e > 12  BY <2>2, <3>1, Zenon
    <3>3. PICK l \in Nat : l = Len(s)  BY <2>5, Zenon
    <3>4. p \in 0..l /\ p + e \in 0..l  BY <1>1, <2>4, <3>3, Zenon
    <3>5. l - p >= 13  BY <2>3, <3>2, <3>3, <3>4, SMT
    <3> QED  BY <1>4, <3>3, <3>5, Zenon
  <2>7. \A i \in 1..Len(f) : g[i] = f[i]  BY <1>3, <1>5, SMT
  <2>8. Len(f) \in Nat  BY <1>3, SMT
  <2>9. ActivationResCodeOffset + 1 \in 1..Len(f)
    BY <2>6, <2>8, SMT
    DEF ActivationResCodeOffset, HeaderLen, LengthOffset, TypeOffset, InvVersionOffset, VersionOffset
  <2> QED  BY <2>7, <2>9, Zenon
<1> QED  BY <1>2, <1>6, <1>8, <1>9, <1>10, Zenon

\* A stream with one more message is framed.
LEMMA FramingLonger ==
  ASSUME NEW s \in Seq(Byte), NEW starts, Framing(s, starts), NEW type, NEW m, IsWhole(m, type),
         IsResponse(m) => MessageEnd(m) > ActivationResCodeOffset
  PROVE  Framing(s \o m, starts \cup {Len(s)})
<1>1. m \in Seq(Byte) /\ HasHeader(m) /\ MessageEnd(m) = Len(m)  BY Zenon DEF IsWhole
<1>2. PICK r : r = s \o m  OBVIOUS
<1>3. PICK n : n = Len(s)  OBVIOUS
<1>4. n \in Nat /\ Len(m) \in Nat  BY <1>1, <1>3, SMT
<1>5. Len(r) = n + Len(m)  BY <1>1, <1>2, <1>3, SMT
<1>6. starts \subseteq 0..n  BY <1>3, Zenon DEF Framing
<1>7. starts \cup {n} \subseteq 0..Len(r)  BY <1>4, <1>5, <1>6, SMT
<1>8. 0 \in starts \cup {n}
  <2>1. CASE s = <<>>  BY <1>3, <2>1, SMT
  <2>2. CASE s # <<>>  BY <2>2, Zenon DEF Framing
  <2> QED  BY <2>1, <2>2
<1>9. ASSUME NEW p \in starts
      PROVE  /\ HasHeader(From(r, p))
             /\ IsResponse(From(r, p)) => MessageEnd(From(r, p)) > ActivationResCodeOffset
             /\ p + MessageEnd(From(r, p)) \in (starts \cup {n}) \cup {Len(r)}
             /\ \A q \in starts \cup {n} : p < q => p + MessageEnd(From(r, p)) <= q
  <2>1. /\ HasHeader(From(r, p))
        /\ HeaderType(From(r, p)) = HeaderType(From(s, p))
        /\ MessageEnd(From(r, p)) = MessageEnd(From(s, p))
    BY <1>1, <1>2, MessageLonger, Zenon
  <2>2. IsResponse(From(s, p)) => MessageEnd(From(s, p)) > ActivationResCodeOffset
    BY Zenon DEF Framing
  <2>3. PICK e : e = p + MessageEnd(From(s, p))  OBVIOUS
  <2>4. e \in starts \cup {n}  BY <1>3, <2>3, Zenon DEF Framing
  <2>5. \A q \in starts : p < q => e <= q  BY <2>3, Zenon DEF Framing
  <2>6. e <= n  BY <1>4, <1>6, <2>4, SMT
  <2> QED  BY <2>1, <2>2, <2>3, <2>4, <2>5, <2>6, Zenon DEF IsResponse
<1>10. From(r, n) = m  BY <1>1, <1>2, <1>3, FromEnd, Zenon
<1>11. n + MessageEnd(m) = Len(r)  BY <1>1, <1>5, Zenon
<1>12. Framing(r, starts \cup {n})
  <2>1. ASSUME NEW p \in starts \cup {n}
        PROVE  /\ HasHeader(From(r, p))
               /\ IsResponse(From(r, p)) => MessageEnd(From(r, p)) > ActivationResCodeOffset
               /\ p + MessageEnd(From(r, p)) \in (starts \cup {n}) \cup {Len(r)}
               /\ \A q \in starts \cup {n} : p < q => p + MessageEnd(From(r, p)) <= q
    <3>1. CASE p \in starts  BY <1>9, <3>1, Zenon
    <3>2. CASE p = n
      <4>1. \A q \in starts \cup {n} : ~(p < q)  BY <1>4, <1>6, <3>2, SMT
      <4> QED  BY <1>1, <1>10, <1>11, <3>2, <4>1, Zenon
    <3> QED  BY <3>1, <3>2, Zenon
  <2> QED  BY <1>7, <1>8, <2>1, Zenon DEF Framing
<1> QED  BY <1>2, <1>3, <1>12, Zenon

-----------------------------------------------------------------------------
(***************************************************************************)
(* The client, its sockets and watchers                                    *)
(***************************************************************************)

\* No descriptor stands for there is none.
LEMMA NoFdIsNone == NoFd \notin Fds
BY DoipAssumption, SMT DEF NoFd

\* A configuration has the fields of the zeroed one.
LEMMA ConfigHasFields ==
  ASSUME NEW c \in Config
  PROVE  /\ [c EXCEPT !.ver = Version].sa_addr = c.sa_addr
         /\ DOMAIN [c EXCEPT !.ver = Version] = DOMAIN NoConfig
BY SMT DEF Config, NoConfig

\* What the user asks for.
LEMMA AskedOK ==
  ASSUME TypeOK, ConnectAsked
  PROVE  /\ created' = TRUE /\ isactive' = FALSE
         /\ asked' \in Configs \cup {NoConfig}
         /\ DOMAIN config' = DOMAIN NoConfig
         /\ config'.sa_addr = asked'.sa_addr
         /\ rxbuf' \in [1..RxLen -> Byte]
         /\ connects' \in 0..MaxConnects
         /\ made' \in 0..MaxMessages
         /\ NoConnection
<1>1. PICK c \in Configs : asked' = c /\ config' = [Arriving[c] EXCEPT !.ver = Version]
  BY Zenon DEF ConnectAsked
<1>2. Arriving[c] = c  BY <1>1, ConfigArrives, SMT DEF Arriving
<1>3. c \in Config  BY <1>1, DoipAssumption, Zenon
<1>4. config' = [c EXCEPT !.ver = Version]  BY <1>1, <1>2, Zenon
<1>5. DOMAIN config' = DOMAIN NoConfig /\ config'.sa_addr = asked'.sa_addr
  BY <1>1, <1>3, <1>4, ConfigHasFields, Zenon
<1>6. rxbuf' \in [1..RxLen -> Byte]
  BY SMT DEF ConnectAsked, TypeOK, Byte
<1>7. connects' \in 0..MaxConnects /\ made' \in 0..MaxMessages
  BY DoipAssumption, SMT DEF ConnectAsked, TypeOK
<1> QED  BY <1>1, <1>5, <1>6, <1>7, Zenon DEF ConnectAsked

\* The address the user asks for has 16 bits.
LEMMA AskedIsWord ==
  ASSUME TypeOK
  PROVE  asked.sa_addr \in Word
<1>1. \A c \in Config : c.sa_addr \in Word  BY Zenon DEF Config
<1>2. NoConfig \in Config
  <2>1. 0 \in Byte /\ 0 \in Word /\ 0 \in DWord  BY SMT DEF Byte, Word, DWord
  <2> QED  BY <2>1, Zenon DEF NoConfig, Config
<1>3. asked \in Config  BY <1>2, DoipAssumption, Zenon DEF TypeOK
<1> QED  BY <1>1, <1>3, Zenon

\* A connection that is gone carries nothing.
LEMMA FreshIs ==
  ASSUME NoConnection, config'.sa_addr = asked'.sa_addr
  PROVE  /\ toClient' \in Seq(Byte) /\ toServer' \in Seq(Seq(Byte))
         /\ granted' \in BOOLEAN /\ begins' \subseteq Nat /\ framed' \in BOOLEAN
         /\ Addressed'
         /\ toClient' = <<>> /\ toServer' = <<>> /\ begins' = {} /\ ~granted'
<1>1. /\ toClient' = <<>> /\ toServer' = <<>> /\ granted' = FALSE
      /\ begins' = {} /\ framed' = TRUE
  BY Zenon DEF NoConnection
<1>2. Len(toServer') = 0  BY <1>1, SMT
<1>3. 1..Len(toServer') = {}  BY <1>2, SMT
<1>4. Addressed'  BY <1>3, Zenon DEF Addressed
<1>5. toClient' \in Seq(Byte) /\ toServer' \in Seq(Seq(Byte))  BY <1>1, EmptySeq, Zenon
<1> QED  BY <1>1, <1>4, <1>5, Zenon

\* What the client sends has its address.
LEMMA SendIs ==
  ASSUME TypeOK, Addressed, NEW type, NEW m, IsOf(m, asked.sa_addr, type), Send(m),
         asked' = asked, config' = config
  PROVE  /\ toServer' \in Seq(Seq(Byte))
         /\ Addressed'
         /\ tcp # "open" => toServer' = toServer
<1>1. CASE toServer' = toServer
  BY <1>1, Zenon DEF Addressed, TypeOK
<1>2. CASE tcp = "open" /\ toServer' = Append(toServer, m)
  <2>1. m \in Seq(Byte) /\ Len(m) >= DiagTargetOffset /\ Tester(m) = asked.sa_addr
    BY Zenon DEF IsOf
  <2>2. toServer \in Seq(Seq(Byte))  BY Zenon DEF TypeOK
  <2>3. PICK q : q = Append(toServer, m)  OBVIOUS
  <2>4. q \in Seq(Seq(Byte))  BY <2>1, <2>2, <2>3, SMT
  <2>5. Len(q) = Len(toServer) + 1 /\ q[Len(toServer) + 1] = m
        /\ \A k \in 1..Len(toServer) : q[k] = toServer[k]
    BY <2>1, <2>2, <2>3, SMT
  <2>6. Len(toServer) \in Nat  BY <2>2, SMT
  <2>7. ASSUME NEW k \in 1..Len(q)
        PROVE  Len(q[k]) >= DiagTargetOffset /\ Tester(q[k]) = asked.sa_addr
    <3>1. CASE k \in 1..Len(toServer)  BY <2>5, <3>1, Zenon DEF Addressed
    <3>2. CASE k = Len(toServer) + 1  BY <2>1, <2>5, <3>2, Zenon
    <3> QED  BY <2>5, <2>6, <3>1, <3>2, SMT
  <2>8. toServer' = q  BY <1>2, <2>3, Zenon
  <2>9. Addressed'  BY <2>7, <2>8, Zenon DEF Addressed
  <2> QED  BY <1>2, <2>4, <2>8, <2>9, Zenon
<1> QED  BY <1>1, <1>2, Zenon DEF Send

\* A client that does not exist.
LEMMA ClientInit == Init => ClientInv
<1> SUFFICES ASSUME Init PROVE ClientInv  OBVIOUS
<1>1. toServer = <<>> /\ toClient = <<>>  BY Zenon DEF Init
<1>2. Len(toServer) = 0  BY <1>1, SMT
<1>3. 1..Len(toServer) = {}  BY <1>2, SMT
<1>4. Addressed  BY <1>3, Zenon DEF Addressed, Init
<1>5. toServer \in Seq(Seq(Byte)) /\ toClient \in Seq(Byte)  BY <1>1, EmptySeq, Zenon
<1>6. rxbuf \in [1..RxLen -> Byte]  BY SMT DEF Init, Byte
<1>7. connects \in 0..MaxConnects /\ made \in 0..MaxMessages  BY DoipAssumption, SMT DEF Init
<1>8. TypeOK  BY <1>5, <1>6, <1>7, Zenon DEF Init, TypeOK
<1>9. DescriptorsHeld  BY SMT DEF Init, DescriptorsHeld
<1>10. WatchersHeld  BY Zenon DEF Init, WatchersHeld
<1>11. ConnectionIsFresh  BY Zenon DEF Init, ConnectionIsFresh
<1> QED  BY <1>4, <1>8, <1>9, <1>10, <1>11, Zenon DEF ClientInv

\* Disconnecting closes both sockets and stops both watchers (dm_doipc_disconnect_server).
LEMMA DisconnectStep ==
  ASSUME ClientInv, Disconnect, created' \in BOOLEAN, asked' \in Configs \cup {NoConfig},
         DOMAIN config' = DOMAIN NoConfig, config'.sa_addr = asked'.sa_addr,
         rxbuf' \in [1..RxLen -> Byte], connects' \in 0..MaxConnects, made' \in 0..MaxMessages
  PROVE  ClientInv'
<1>1. TypeOK /\ DescriptorsHeld  BY Zenon DEF ClientInv
<1>2. /\ isactive' = FALSE /\ con_stat' = "DISCONNECT" /\ tcprecv' = NoFd /\ tcpsend' = NoFd
      /\ tcp_sfd' = NoFd /\ udp_sfd' = NoFd /\ open' = Closed /\ tcp' = "none" /\ NoConnection
  BY Zenon DEF Disconnect
<1>3. open' = {}  BY <1>1, <1>2, SMT DEF DescriptorsHeld, Closed
<1>4. /\ toClient' \in Seq(Byte) /\ toServer' \in Seq(Seq(Byte))
      /\ granted' \in BOOLEAN /\ begins' \subseteq Nat /\ framed' \in BOOLEAN
      /\ Addressed'
      /\ toClient' = <<>> /\ toServer' = <<>> /\ begins' = {} /\ ~granted'
  BY <1>2, FreshIs, Zenon
<1>5. TypeOK'  BY <1>2, <1>3, <1>4, Zenon DEF TypeOK
<1>6. DescriptorsHeld'  BY <1>2, <1>3, SMT DEF DescriptorsHeld
<1>7. WatchersHeld'  BY <1>2, Zenon DEF WatchersHeld
<1>8. ConnectionIsFresh'  BY <1>2, <1>4, Zenon DEF ConnectionIsFresh
<1> QED  BY <1>4, <1>5, <1>6, <1>7, <1>8, Zenon DEF ClientInv

\* The new sockets are all that is open, for the old ones were closed.
LEMMA SocketsIs ==
  ASSUME TypeOK, DescriptorsHeld, NEW tcpfd \in Fds, NEW udpfd \in Fds, Sockets(tcpfd, udpfd)
  PROVE  /\ tcp_sfd' = tcpfd /\ udp_sfd' = udpfd
         /\ open' \subseteq Fds /\ DescriptorsHeld' /\ tcp_sfd' # NoFd
<1>1. Closed = {}  BY SMT DEF DescriptorsHeld, Closed
<1>2. tcp_sfd' = tcpfd /\ udp_sfd' = udpfd /\ open' = Closed \cup {tcpfd, udpfd}
  BY Zenon DEF Sockets
<1>3. tcpfd # NoFd /\ udpfd # NoFd  BY NoFdIsNone, Zenon
<1> QED  BY <1>1, <1>2, <1>3, SMT DEF DescriptorsHeld

\* Connecting, however far it gets.
LEMMA ConnectStep ==
  ASSUME ClientInv, Connect
  PROVE  ClientInv'
<1>1. TypeOK /\ DescriptorsHeld  BY Zenon DEF ClientInv
<1>2. ConnectAsked
  BY Zenon DEF Connect, ConnectNoSocket, ConnectRefused, ConnectInProgress, ConnectAtOnce
<1>3. /\ created' = TRUE /\ isactive' = FALSE
      /\ asked' \in Configs \cup {NoConfig}
      /\ DOMAIN config' = DOMAIN NoConfig
      /\ config'.sa_addr = asked'.sa_addr
      /\ rxbuf' \in [1..RxLen -> Byte]
      /\ connects' \in 0..MaxConnects
      /\ made' \in 0..MaxMessages
      /\ NoConnection
  BY <1>1, <1>2, AskedOK, Zenon
<1>4. /\ toClient' \in Seq(Byte) /\ toServer' \in Seq(Seq(Byte))
      /\ granted' \in BOOLEAN /\ begins' \subseteq Nat /\ framed' \in BOOLEAN
      /\ Addressed'
      /\ toClient' = <<>> /\ toServer' = <<>> /\ begins' = {} /\ ~granted'
  BY <1>3, FreshIs, Zenon
<1>5. CASE ConnectNoSocket
  <2>1. /\ con_stat' = "DISCONNECT" /\ tcprecv' = NoFd /\ tcpsend' = NoFd /\ udp_sfd' = NoFd
        /\ tcp' = "none"
    BY <1>5, Zenon DEF ConnectNoSocket
  <2>2. Closed = {}  BY <1>1, SMT DEF DescriptorsHeld, Closed
  <2>3. \/ tcp_sfd' = NoFd /\ open' = {}
        \/ \E fd \in Fds : tcp_sfd' = fd /\ open' = {fd}
    BY <1>5, <2>2, SMT DEF ConnectNoSocket
  <2>4. tcp_sfd' \in Fds \cup {NoFd} /\ open' \subseteq Fds /\ DescriptorsHeld'
    BY <2>1, <2>3, NoFdIsNone, SMT DEF DescriptorsHeld
  <2>5. TypeOK'  BY <1>3, <1>4, <2>1, <2>4, Zenon DEF TypeOK
  <2>6. WatchersHeld'  BY <2>1, Zenon DEF WatchersHeld
  <2>7. ConnectionIsFresh'  BY <1>3, <1>4, <2>1, Zenon DEF ConnectionIsFresh
  <2> QED  BY <1>4, <2>4, <2>5, <2>6, <2>7, Zenon DEF ClientInv
<1>6. CASE ConnectRefused
  <2>1. Disconnect  BY <1>6, Zenon DEF ConnectRefused
  <2> QED  BY <1>3, <2>1, DisconnectStep, Zenon
<1>7. ASSUME NEW tcpfd \in Fds, NEW udpfd \in Fds, ConnectInProgress(tcpfd, udpfd)
      PROVE  ClientInv'
  <2>1. /\ con_stat' = "PROCESS" /\ tcprecv' = tcpfd /\ tcpsend' = tcpfd /\ tcp' = "syn"
        /\ Sockets(tcpfd, udpfd)
    BY <1>7, Zenon DEF ConnectInProgress
  <2>2. /\ tcp_sfd' = tcpfd /\ udp_sfd' = udpfd
        /\ open' \subseteq Fds /\ DescriptorsHeld' /\ tcp_sfd' # NoFd
    BY <1>1, <2>1, SocketsIs, Zenon
  <2>3. TypeOK'  BY <1>3, <1>4, <2>1, <2>2, Zenon DEF TypeOK
  <2>4. WatchersHeld'  BY <1>3, <2>1, <2>2, Zenon DEF WatchersHeld
  <2>5. ConnectionIsFresh'  BY <1>3, <1>4, <2>1, Zenon DEF ConnectionIsFresh
  <2> QED  BY <1>4, <2>2, <2>3, <2>4, <2>5, Zenon DEF ClientInv
<1>8. ASSUME NEW tcpfd \in Fds, NEW udpfd \in Fds, ConnectAtOnce(tcpfd, udpfd)
      PROVE  ClientInv'
  <2>1. /\ con_stat' = "SUCCESS" /\ tcprecv' = tcpfd /\ tcpsend' = NoFd /\ tcp' = "open"
        /\ Sockets(tcpfd, udpfd)
    BY <1>8, Zenon DEF ConnectAtOnce
  <2>2. /\ tcp_sfd' = tcpfd /\ udp_sfd' = udpfd
        /\ open' \subseteq Fds /\ DescriptorsHeld' /\ tcp_sfd' # NoFd
    BY <1>1, <2>1, SocketsIs, Zenon
  <2>3. TypeOK'  BY <1>3, <1>4, <2>1, <2>2, Zenon DEF TypeOK
  <2>4. WatchersHeld'  BY <1>3, <2>1, <2>2, Zenon DEF WatchersHeld
  <2>5. ConnectionIsFresh'  BY <1>3, <1>4, <2>1, Zenon DEF ConnectionIsFresh
  <2> QED  BY <1>4, <2>2, <2>3, <2>4, <2>5, Zenon DEF ClientInv
<1> QED  BY <1>5, <1>6, <1>7, <1>8, Zenon DEF Connect

\* The client is given back.
LEMMA DestoryStep ==
  ASSUME ClientInv, Destory
  PROVE  ClientInv'
<1>1. TypeOK /\ Addressed  BY Zenon DEF ClientInv
<1>2. Disconnect /\ created' = FALSE /\ UNCHANGED <<config, rxbuf, asked, connects, made>>
  BY Zenon DEF Destory
<1>3. /\ asked' \in Configs \cup {NoConfig}
      /\ DOMAIN config' = DOMAIN NoConfig /\ config'.sa_addr = asked'.sa_addr
      /\ rxbuf' \in [1..RxLen -> Byte] /\ connects' \in 0..MaxConnects /\ made' \in 0..MaxMessages
  BY <1>1, <1>2, Zenon DEF TypeOK, Addressed
<1> QED  BY <1>2, <1>3, DisconnectStep, Zenon

\* The connection is not made, or lost.
LEMMA GoneStep ==
  ASSUME ClientInv, ConnectFailed \/ ConnectionLost
  PROVE  ClientInv'
<1>1. TypeOK /\ Addressed  BY Zenon DEF ClientInv
<1>2. Disconnect /\ UNCHANGED <<created, config, rxbuf, asked, connects, made>>
  BY Zenon DEF ConnectFailed, ConnectionLost
<1>3. /\ created' \in BOOLEAN /\ asked' \in Configs \cup {NoConfig}
      /\ DOMAIN config' = DOMAIN NoConfig /\ config'.sa_addr = asked'.sa_addr
      /\ rxbuf' \in [1..RxLen -> Byte] /\ connects' \in 0..MaxConnects /\ made' \in 0..MaxMessages
  BY <1>1, <1>2, Zenon DEF TypeOK, Addressed
<1> QED  BY <1>2, <1>3, DisconnectStep, Zenon

\* The connection is made.
LEMMA SucceededStep ==
  ASSUME ClientInv, ConnectSucceeded
  PROVE  ClientInv'
<1>1. TypeOK /\ DescriptorsHeld /\ WatchersHeld /\ ConnectionIsFresh /\ Addressed
  BY Zenon DEF ClientInv
<1>2. /\ con_stat = "PROCESS" /\ con_stat' = "SUCCESS" /\ tcpsend' = NoFd
      /\ UNCHANGED <<created, config, isactive, tcp_sfd, udp_sfd, tcprecv, rxbuf, kernel,
                     toClient, granted, begins, framed, asked, connects, made>>
      /\ tcp \in {"open", "closed"}
  BY Zenon DEF ConnectSucceeded
<1>3. ~isactive  BY <1>1, <1>2, Zenon DEF ConnectionIsFresh
<1>4. Send(RoutingRequest(config.sa_addr))  BY <1>3, Zenon DEF ConnectSucceeded
<1>5. config.sa_addr = asked.sa_addr /\ asked.sa_addr \in Word
  BY <1>1, AskedIsWord, Zenon DEF Addressed
<1>6. IsOf(RoutingRequest(config.sa_addr), asked.sa_addr, RoutingActivationRequest)
  BY <1>5, RoutingRequestIs, Zenon
<1>7. /\ toServer' \in Seq(Seq(Byte)) /\ Addressed'
      /\ tcp # "open" => toServer' = toServer
  BY <1>1, <1>2, <1>4, <1>6, SendIs, Zenon
<1>8. TypeOK'  BY <1>1, <1>2, <1>7, Zenon DEF TypeOK, kernel
<1>9. DescriptorsHeld'  BY <1>1, <1>2, Zenon DEF DescriptorsHeld, kernel
<1>10. WatchersHeld'  BY <1>1, <1>2, Zenon DEF WatchersHeld
<1>11. ConnectionIsFresh'  BY <1>1, <1>2, <1>7, Zenon DEF ConnectionIsFresh, kernel
<1> QED  BY <1>7, <1>8, <1>9, <1>10, <1>11, Zenon DEF ClientInv

\* A read leaves bytes in the buffer and in the stream.
LEMMA ReadIs ==
  ASSUME TypeOK, NEW n, Read(n)
  PROVE  /\ rxbuf' \in [1..RxLen -> Byte]
         /\ toClient' = From(toClient, n) /\ toClient' \in Seq(Byte)
         /\ n \in 1..Len(toClient)
         /\ begins' \subseteq Nat
<1>1. n \in 1..Len(toClient) /\ toClient' = SubSeq(toClient, n + 1, Len(toClient)) /\ rxbuf' = Filled(n)
  BY Zenon DEF Read
<1>2. PICK s : s = toClient  OBVIOUS
<1>3. s \in Seq(Byte) /\ rxbuf \in [1..RxLen -> Byte]  BY <1>2, Zenon DEF TypeOK
<1>4. toClient' = From(s, n)  BY <1>1, <1>2, Zenon DEF From
<1>5. n \in 0..Len(s)  BY <1>1, <1>2, SMT
<1>6. toClient' \in Seq(Byte)  BY <1>3, <1>4, <1>5, FromIs, Zenon
<1>7. rxbuf' = [i \in 1..RxLen |-> IF i <= n THEN s[i] ELSE rxbuf[i]]
  BY <1>1, <1>2, Zenon DEF Filled
<1>8. \A i \in 1..RxLen : i <= n => s[i] \in Byte
  <2>1. Len(s) \in Nat /\ \A i \in 1..Len(s) : s[i] \in Byte  BY <1>3, SMT
  <2>2. RxLen \in Nat  BY DoipAssumption, SMT
  <2>3. \A i \in 1..RxLen : i <= n => i \in 1..Len(s)  BY <1>5, <2>1, <2>2, SMT
  <2> QED  BY <2>1, <2>3, Zenon
<1>9. \A i \in 1..RxLen : (IF i <= n THEN s[i] ELSE rxbuf[i]) \in Byte  BY <1>3, <1>8, SMT
<1>10. rxbuf' \in [1..RxLen -> Byte]  BY <1>7, <1>9, SMT
<1>11. begins' \subseteq Nat
  <2>1. begins' = {p \in 0..(Len(toClient) - n) : n + p \in begins}  BY Zenon DEF Read
  <2>2. \A p \in 0..(Len(s) - n) : p \in Nat  BY SMT
  <2> QED  BY <1>2, <2>1, <2>2, Zenon
<1> QED  BY <1>1, <1>2, <1>4, <1>6, <1>10, <1>11, Zenon

\* A read, whatever the client makes of the message.
LEMMA ReadStep ==
  ASSUME ClientInv, NEW n, Read(n), isactive' \in BOOLEAN,
         \/ toServer' = toServer
         \/ \E type, m : IsOf(m, asked.sa_addr, type) /\ Send(m)
  PROVE  ClientInv'
<1>1. TypeOK /\ DescriptorsHeld /\ WatchersHeld /\ ConnectionIsFresh /\ Addressed
  BY Zenon DEF ClientInv
<1>2. /\ con_stat = "SUCCESS" /\ framed' = (framed /\ n \in begins \cup {Len(toClient)})
      /\ UNCHANGED <<created, config, con_stat, tcp_sfd, udp_sfd, tcprecv, tcpsend,
                     kernel, granted, asked, connects, made>>
  BY Zenon DEF Read
<1>3. /\ rxbuf' \in [1..RxLen -> Byte] /\ toClient' \in Seq(Byte)
      /\ begins' \subseteq Nat
  BY <1>1, ReadIs, Zenon
<1>4. /\ toServer' \in Seq(Seq(Byte)) /\ Addressed'
      /\ tcp # "open" => toServer' = toServer
  <2>1. CASE toServer' = toServer  BY <1>1, <1>2, <2>1, Zenon DEF TypeOK, Addressed
  <2>2. CASE \E type, m : IsOf(m, asked.sa_addr, type) /\ Send(m)
    BY <1>1, <1>2, <2>2, SendIs, Zenon
  <2> QED  BY <2>1, <2>2, Zenon
<1>5. framed' \in BOOLEAN  BY <1>2, Zenon
<1>6. TypeOK'  BY <1>1, <1>2, <1>3, <1>4, <1>5, Zenon DEF TypeOK, kernel
<1>7. DescriptorsHeld'  BY <1>1, <1>2, Zenon DEF DescriptorsHeld, kernel
<1>8. WatchersHeld'  BY <1>1, <1>2, Zenon DEF WatchersHeld
<1>9. ConnectionIsFresh'
  <2>1. tcp # "syn"  BY <1>1, <1>2, Zenon DEF ConnectionIsFresh
  <2> QED  BY <1>1, <1>2, <1>4, <2>1, Zenon DEF ConnectionIsFresh, kernel
<1> QED  BY <1>4, <1>6, <1>7, <1>8, <1>9, Zenon DEF ClientInv

\* The event loop.
LEMMA LoopStep ==
  ASSUME ClientInv, Loop
  PROVE  ClientInv'
<1>1. CASE ConnectSucceeded \/ ConnectFailed \/ ConnectionLost
  BY <1>1, SucceededStep, GoneStep, Zenon
<1>2. ASSUME NEW n, RoutingAnswered(n)  PROVE ClientInv'
  <2>1. Read(n) /\ isactive' \in BOOLEAN /\ toServer' = toServer
    BY <1>2, Zenon DEF RoutingAnswered
  <2> QED  BY <2>1, ReadStep, Zenon
<1>3. ASSUME NEW n, ReadIgnored(n)  PROVE ClientInv'
  <2>1. Read(n) /\ isactive' = isactive /\ toServer' = toServer  BY <1>3, Zenon DEF ReadIgnored
  <2>2. isactive' \in BOOLEAN  BY <2>1, Zenon DEF ClientInv, TypeOK
  <2> QED  BY <2>1, <2>2, ReadStep, Zenon
<1>4. ASSUME NEW n, AliveChecked(n)  PROVE ClientInv'
  <2>1. /\ Read(n) /\ isactive' = isactive
        /\ toServer' = toServer \/ Send(AliveResponse(config.sa_addr))
    BY <1>4, Zenon DEF AliveChecked
  <2>2. isactive' \in BOOLEAN  BY <2>1, Zenon DEF ClientInv, TypeOK
  <2>3. config.sa_addr = asked.sa_addr /\ asked.sa_addr \in Word
    BY AskedIsWord, Zenon DEF ClientInv, Addressed
  <2>4. IsOf(AliveResponse(config.sa_addr), asked.sa_addr, AliveCheckResponse)
    BY <2>3, AliveResponseIs, Zenon
  <2> QED  BY <2>1, <2>2, <2>4, ReadStep, Zenon
<1> QED  BY <1>1, <1>2, <1>3, <1>4, Zenon DEF Loop

\* The types of the client's own variables.
ClientTypeOK ==
  /\ created \in BOOLEAN
  /\ DOMAIN config = DOMAIN NoConfig
  /\ con_stat \in {"DISCONNECT", "PROCESS", "SUCCESS"}
  /\ isactive \in BOOLEAN
  /\ tcp_sfd \in Fds \cup {NoFd}
  /\ udp_sfd \in Fds \cup {NoFd}
  /\ tcprecv \in Fds \cup {NoFd}
  /\ tcpsend \in Fds \cup {NoFd}
  /\ rxbuf \in [1..RxLen -> Byte]

\* A step of another actor leaves the types of these.
LEMMA ClientSame ==
  ASSUME TypeOK, UNCHANGED client
  PROVE  ClientTypeOK'
<1>1. ClientTypeOK  BY Zenon DEF TypeOK, ClientTypeOK
<1>2. UNCHANGED <<created, config, con_stat, isactive, tcp_sfd, udp_sfd, tcprecv, tcpsend, rxbuf>>
  BY Zenon DEF client
<1> QED  BY <1>1, <1>2, Zenon DEF ClientTypeOK

\* A request of the UDS client is sent.
LEMMA DiagRequestStep ==
  ASSUME ClientInv, NEW ta, NEW msg \in DiagRequests, DiagRequest(ta, msg)
  PROVE  ClientInv'
<1>1. TypeOK /\ DescriptorsHeld /\ WatchersHeld /\ ConnectionIsFresh /\ Addressed
  BY Zenon DEF ClientInv
<1>2. /\ made < MaxMessages /\ made' = made + 1
      /\ Send(DiagnosticRequest(config.sa_addr, ta, msg))
      /\ UNCHANGED <<client, kernel, toClient, granted, begins, framed, asked, connects>>
  BY Zenon DEF DiagRequest
<1>3. config.sa_addr = asked.sa_addr /\ asked.sa_addr \in Word
  BY <1>1, AskedIsWord, Zenon DEF Addressed
<1>4. msg \in Seq(Byte)  BY DoipAssumption, Zenon
<1>5. IsOf(DiagnosticRequest(config.sa_addr, ta, msg), asked.sa_addr, DiagnosticMessage)
  BY <1>3, <1>4, DiagnosticRequestIs, Zenon
<1>6. asked' = asked /\ config' = config  BY <1>2, Zenon DEF client
<1>7. /\ toServer' \in Seq(Seq(Byte)) /\ Addressed'
      /\ tcp # "open" => toServer' = toServer
  BY <1>1, <1>2, <1>5, <1>6, SendIs, Zenon
<1>8. made' \in 0..MaxMessages  BY <1>1, <1>2, DoipAssumption, SMT DEF TypeOK
<1>9. TypeOK'
  <2>1. TypeOK /\ UNCHANGED client  BY <1>1, <1>2, Zenon
  <2>2. ClientTypeOK'  BY <2>1, ClientSame, Zenon
  <2>3. UNCHANGED <<open, tcp, toClient, granted, begins, framed, asked, connects>>
    BY <1>2, Zenon DEF kernel
  <2>4. toServer' \in Seq(Seq(Byte))  BY <1>7, Zenon
  <2> QED  BY <1>8, <2>1, <2>2, <2>3, <2>4, Zenon DEF TypeOK, ClientTypeOK
<1>10. DescriptorsHeld'  BY <1>1, <1>2, Zenon DEF DescriptorsHeld, client, kernel
<1>11. WatchersHeld'  BY <1>1, <1>2, Zenon DEF WatchersHeld, client
<1>12. ConnectionIsFresh'  BY <1>1, <1>2, <1>7, Zenon DEF ConnectionIsFresh, client, kernel
<1> QED  BY <1>7, <1>9, <1>10, <1>11, <1>12, Zenon DEF ClientInv

\* A queue without its head.
LEMMA TailIs ==
  ASSUME NEW S, NEW q \in Seq(S), q # <<>>
  PROVE  /\ Tail(q) \in Seq(S)
         /\ \A k \in 1..Len(Tail(q)) : k + 1 \in 1..Len(q) /\ Tail(q)[k] = q[k + 1]
         /\ 1 \in 1..Len(q) /\ Head(q) = q[1]
BY SMT

\* The codes of an answer.
LEMMA CodesAreBytes == Denied \in Byte /\ Activated \in Byte
BY SMT DEF Denied, Activated, Byte

\* The answer of the server to a request, if the client asks for one.
LEMMA ServerReadsIs ==
  ASSUME ClientInv, ServerReads
  PROVE  /\ tcp = "open" /\ toServer # <<>> /\ toServer' = Tail(toServer)
         /\ \/ /\ ~IsRequest(1)
               /\ toClient' = toClient /\ begins' = begins /\ granted' = granted
            \/ \E code \in {Denied, Activated} : \E m :
                 /\ IsRequest(1)
                 /\ IsWhole(m, RoutingActivationResponse)
                 /\ MessageEnd(m) > ActivationResCodeOffset
                 /\ m[ActivationResCodeOffset + 1] = code
                 /\ toClient' = toClient \o m
                 /\ begins' = begins \cup {Len(toClient)}
                 /\ granted' = (code = Activated)
<1>1. TypeOK /\ Addressed  BY Zenon DEF ClientInv
<1>2. tcp = "open" /\ toServer # <<>> /\ toServer' = Tail(toServer)  BY Zenon DEF ServerReads
<1>3. toServer \in Seq(Seq(Byte))  BY <1>1, Zenon DEF TypeOK
<1>4. 1 \in 1..Len(toServer) /\ Head(toServer) = toServer[1]  BY <1>2, <1>3, TailIs, Zenon
<1>5. IsRequest(1) <=> HeaderType(Head(toServer)) = RoutingActivationRequest
  BY <1>4, Zenon DEF IsRequest
<1>6. CASE ~IsRequest(1)
  BY <1>2, <1>5, <1>6, Zenon DEF ServerReads
<1>7. CASE IsRequest(1)
  <2>1. PICK code \in {Denied, Activated} :
          /\ granted' = (code = Activated)
          /\ ServerSends(RoutingResponse(Tester(Head(toServer)), EntityAddr, code))
    BY <1>5, <1>7, Zenon DEF ServerReads
  <2>2. Tester(Head(toServer)) \in Word  BY <1>1, <1>4, AskedIsWord, Zenon DEF Addressed
  <2>3. EntityAddr \in Word  BY DoipAssumption, Zenon
  <2>4. code \in Byte  BY <2>1, CodesAreBytes, Zenon
  <2>5. PICK m : m = RoutingResponse(Tester(Head(toServer)), EntityAddr, code)  OBVIOUS
  <2>6. /\ IsWhole(m, RoutingActivationResponse)
        /\ MessageEnd(m) > ActivationResCodeOffset
        /\ m[ActivationResCodeOffset + 1] = code
    BY <2>2, <2>3, <2>4, <2>5, RoutingResponseIs, Zenon
  <2>7. toClient' = toClient \o m /\ begins' = begins \cup {Len(toClient)}
    BY <2>1, <2>5, Zenon DEF ServerSends
  <2> QED  BY <1>2, <1>7, <2>1, <2>6, <2>7, Zenon
<1> QED  BY <1>6, <1>7, Zenon

\* What the server writes of its own accord is no answer to a request.
LEMMA ServerWritesIs ==
  ASSUME ClientInv, ServerWrites
  PROVE  \E type, m : /\ IsWhole(m, type) /\ type # RoutingActivationResponse
                      /\ toClient' = toClient \o m
                      /\ begins' = begins \cup {Len(toClient)}
<1>1. AliveCheckRequest # RoutingActivationResponse /\ DiagnosticMessage # RoutingActivationResponse
  BY SMT DEF AliveCheckRequest, RoutingActivationResponse, DiagnosticMessage
<1>2. CASE ServerSends(AliveRequest)
  BY <1>1, <1>2, AliveRequestIs, Zenon DEF ServerSends
<1>3. CASE \E msg \in DiagResponses :
             ServerSends(DiagnosticResponse(EntityAddr, asked.sa_addr, msg))
  <2>1. EntityAddr \in Word  BY DoipAssumption, Zenon
  <2>2. asked.sa_addr \in Word  BY AskedIsWord, Zenon DEF ClientInv
  <2> QED  BY <1>1, <1>3, <2>1, <2>2, DiagnosticResponseIs, Zenon DEF ServerSends
<1> QED  BY <1>2, <1>3, Zenon DEF ServerWrites

\* A step of the server or of the kernel leaves the client as it is.
LEMMA PeerStep ==
  ASSUME ClientInv, Peer
  PROVE  ClientInv'
<1>1. TypeOK /\ DescriptorsHeld /\ WatchersHeld /\ ConnectionIsFresh /\ Addressed
  BY Zenon DEF ClientInv
<1>2. UNCHANGED <<client, open, framed, asked, connects>>
  BY Zenon DEF Peer, Accepted, Refused, TcpBecomes, ServerClosed, ServerReads, ServerWrites, kernel
<1>3. /\ tcp' \in {"none", "syn", "refused", "open", "closed"}
      /\ toClient' \in Seq(Byte) /\ toServer' \in Seq(Seq(Byte)) /\ granted' \in BOOLEAN
      /\ begins' \subseteq Nat
      /\ made' \in 0..MaxMessages /\ Addressed' /\ ConnectionIsFresh'
  <2>1. CASE Accepted \/ Refused
    <3>1. /\ tcp = "syn" /\ tcp' \in {"open", "refused"}
          /\ UNCHANGED <<client, open, toClient, toServer, granted, begins, framed, asked, connects,
                         made>>
      BY <2>1, Zenon DEF Accepted, Refused, TcpBecomes, server
    <3>2. tcp' # "syn" /\ tcp # "open"  BY <3>1, Zenon
    <3>3. Addressed'  BY <1>1, <3>1, Zenon DEF Addressed, client
    <3>4. ConnectionIsFresh'  BY <1>1, <3>1, <3>2, Zenon DEF ConnectionIsFresh, client
    <3> QED  BY <1>1, <3>1, <3>3, <3>4, Zenon DEF TypeOK
  <2>2. CASE ServerClosed
    <3>1. /\ tcp' = "closed" /\ toServer' = <<>> /\ granted' = FALSE
          /\ (toClient' = toClient /\ begins' = begins) \/ (toClient' = <<>> /\ begins' = {})
          /\ UNCHANGED <<client, open, framed, asked, connects, made>>
      BY <2>2, Zenon DEF ServerClosed
    <3>2. Len(toServer') = 0  BY <3>1, SMT
    <3>3. 1..Len(toServer') = {}  BY <3>2, SMT
    <3>4. Addressed'  BY <1>1, <3>1, <3>3, Zenon DEF Addressed, client
    <3>5. ConnectionIsFresh'  BY <1>1, <3>1, Zenon DEF ConnectionIsFresh, client
    <3>6. toClient' \in Seq(Byte) /\ toServer' \in Seq(Seq(Byte)) /\ begins' \subseteq Nat
      BY <1>1, <3>1, EmptySeq, Zenon DEF TypeOK
    <3> QED  BY <1>1, <3>1, <3>4, <3>5, <3>6, Zenon DEF TypeOK
  <2>3. CASE ServerReads
    <3>1. UNCHANGED <<client, kernel, framed, asked, connects, made>>
      BY <2>3, Zenon DEF ServerReads
    <3>2. /\ tcp = "open" /\ toServer # <<>> /\ toServer' = Tail(toServer)
          /\ \/ toClient' = toClient /\ begins' = begins /\ granted' = granted
             \/ \E code \in {Denied, Activated} : \E m :
                  /\ IsWhole(m, RoutingActivationResponse)
                  /\ toClient' = toClient \o m
                  /\ begins' = begins \cup {Len(toClient)}
                  /\ granted' = (code = Activated)
      BY <2>3, ServerReadsIs, Zenon
    <3>3. toClient' \in Seq(Byte) /\ granted' \in BOOLEAN /\ begins' \subseteq Nat
      <4>1. toClient \in Seq(Byte) /\ granted \in BOOLEAN /\ begins \subseteq Nat
        BY <1>1, Zenon DEF TypeOK
      <4>2. CASE toClient' = toClient /\ begins' = begins /\ granted' = granted
        BY <4>1, <4>2, Zenon
      <4>3. ASSUME NEW code, NEW m, IsWhole(m, RoutingActivationResponse),
                   toClient' = toClient \o m, begins' = begins \cup {Len(toClient)},
                   granted' = (code = Activated)
            PROVE  toClient' \in Seq(Byte) /\ granted' \in BOOLEAN /\ begins' \subseteq Nat
        <5>1. m \in Seq(Byte)  BY <4>3, Zenon DEF IsWhole
        <5>2. toClient \o m \in Seq(Byte)  BY <4>1, <5>1, CatType, Zenon
        <5>3. Len(toClient) \in Nat  BY <4>1, SMT
        <5> QED  BY <4>1, <4>3, <5>2, <5>3, Zenon
      <4> QED  BY <3>2, <4>2, <4>3, Zenon
    <3>4. toServer \in Seq(Seq(Byte))  BY <1>1, Zenon DEF TypeOK
    <3>5. /\ toServer' \in Seq(Seq(Byte))
          /\ \A k \in 1..Len(toServer') : k + 1 \in 1..Len(toServer) /\ toServer'[k] = toServer[k + 1]
      <4>1. toServer # <<>> /\ toServer' = Tail(toServer)  BY <3>2, Zenon
      <4>2. /\ Tail(toServer) \in Seq(Seq(Byte))
            /\ \A k \in 1..Len(Tail(toServer)) :
                  k + 1 \in 1..Len(toServer) /\ Tail(toServer)[k] = toServer[k + 1]
        BY <3>4, <4>1, TailIs, Zenon
      <4> QED  BY <4>1, <4>2, Zenon
    <3>6. Addressed'  BY <1>1, <3>1, <3>5, Zenon DEF Addressed, client
    <3>7. ConnectionIsFresh'  BY <1>1, <3>1, <3>2, Zenon DEF ConnectionIsFresh, client, kernel
    <3> QED  BY <1>1, <3>1, <3>3, <3>5, <3>6, <3>7, Zenon DEF TypeOK, kernel
  <2>4. CASE ServerWrites
    <3>1. /\ UNCHANGED <<client, kernel, toServer, granted, framed, asked, connects>>
          /\ tcp = "open" /\ made < MaxMessages /\ made' = made + 1
      BY <2>4, Zenon DEF ServerWrites
    <3>2. toClient' \in Seq(Byte) /\ begins' \subseteq Nat
      <4>1. PICK type, m : /\ IsWhole(m, type) /\ toClient' = toClient \o m
                           /\ begins' = begins \cup {Len(toClient)}
        BY <1>1, <2>4, ServerWritesIs, Zenon
      <4>2. m \in Seq(Byte) /\ toClient \in Seq(Byte) /\ begins \subseteq Nat
        BY <1>1, <4>1, Zenon DEF IsWhole, TypeOK
      <4>3. Len(toClient) \in Nat  BY <4>2, SMT
      <4>4. toClient' \in Seq(Byte)  BY <4>1, <4>2, CatType, Zenon
      <4> QED  BY <4>1, <4>2, <4>3, <4>4, Zenon
    <3>3. made' \in 0..MaxMessages  BY <1>1, <3>1, DoipAssumption, SMT DEF TypeOK
    <3>4. Addressed'  BY <1>1, <3>1, Zenon DEF Addressed, client
    <3>5. ConnectionIsFresh'  BY <1>1, <3>1, Zenon DEF ConnectionIsFresh, client, kernel
    <3> QED  BY <1>1, <3>1, <3>2, <3>3, <3>4, <3>5, Zenon DEF TypeOK, kernel
  <2> QED  BY <2>1, <2>2, <2>3, <2>4, Zenon DEF Peer
<1>4. TypeOK'  BY <1>1, <1>2, <1>3, ZenonT(30) DEF TypeOK, client
<1>5. DescriptorsHeld'  BY <1>1, <1>2, Zenon DEF DescriptorsHeld, client
<1>6. WatchersHeld'  BY <1>1, <1>2, Zenon DEF WatchersHeld, client
<1> QED  BY <1>3, <1>4, <1>5, <1>6, Zenon DEF ClientInv

\* The invariant of the descriptors, the watchers and the addresses.
LEMMA ClientCorrect == Spec => []ClientInv
<1>1. ClientInv /\ [Next]_vars => ClientInv'
  <2> SUFFICES ASSUME ClientInv, [Next]_vars  PROVE ClientInv'  OBVIOUS
  <2>1. CASE Connect  BY <2>1, ConnectStep, Zenon
  <2>2. CASE Destory  BY <2>2, DestoryStep, Zenon
  <2>3. CASE Loop  BY <2>3, LoopStep, Zenon
  <2>4. CASE Peer  BY <2>4, PeerStep, Zenon
  <2>5. CASE \E msg \in DiagRequests : DiagRequest(EntityAddr, msg)
    BY <2>5, DiagRequestStep, Zenon
  <2>6. CASE UNCHANGED vars
    <3>1. UNCHANGED <<created, config, con_stat, isactive, tcp_sfd, udp_sfd, tcprecv, tcpsend, rxbuf,
                      open, tcp, toClient, toServer, granted, begins, framed, asked, connects, made>>
      BY <2>6, Zenon DEF vars, client, kernel, server
    <3>2. TypeOK'
      <4>1. TypeOK /\ UNCHANGED client  BY <2>6, Zenon DEF ClientInv, vars
      <4>2. ClientTypeOK'  BY <4>1, ClientSame, Zenon
      <4>3. UNCHANGED <<open, tcp, toClient, toServer, granted, begins, framed, asked, connects, made>>
        BY <3>1, Zenon
      <4> QED  BY <4>1, <4>2, <4>3, Zenon DEF TypeOK, ClientTypeOK
    <3>3. DescriptorsHeld'  BY <3>1, Zenon DEF ClientInv, DescriptorsHeld
    <3>4. WatchersHeld'  BY <3>1, Zenon DEF ClientInv, WatchersHeld
    <3>5. ConnectionIsFresh'  BY <3>1, Zenon DEF ClientInv, ConnectionIsFresh
    <3>6. Addressed'  BY <3>1, Zenon DEF ClientInv, Addressed
    <3> QED  BY <3>2, <3>3, <3>4, <3>5, <3>6, Zenon DEF ClientInv
  <2> QED  BY <2>1, <2>2, <2>3, <2>4, <2>5, <2>6, Zenon DEF Next
<1> QED  BY <1>1, ClientInit, PTL DEF Spec

\* Type correctness.
THEOREM TypeCorrect == Spec => []TypeOK
<1>1. ClientInv => TypeOK  BY Zenon DEF ClientInv
<1> QED  BY <1>1, ClientCorrect, PTL

\* However often a client connects anew, and whichever step of that fails, the open
\* descriptors are those it holds.
THEOREM DescriptorsCorrect == Spec => []DescriptorsHeld
<1>1. ClientInv => DescriptorsHeld  BY Zenon DEF ClientInv
<1> QED  BY <1>1, ClientCorrect, PTL

\* No handler runs for a closed descriptor or a freed client.
THEOREM WatchersCorrect == Spec => []WatchersHeld
<1>1. ClientInv => WatchersHeld  BY Zenon DEF ClientInv
<1> QED  BY <1>1, ClientCorrect, PTL

-----------------------------------------------------------------------------
(***************************************************************************)
(* Routing is active as the server granted it                              *)
(***************************************************************************)

\* No two of these types are one.
LEMMA TypesDiffer ==
  /\ RoutingActivationRequest # DiagnosticMessage
  /\ AliveCheckResponse # RoutingActivationRequest
  /\ AliveCheckResponse # DiagnosticMessage
BY SMT DEF RoutingActivationRequest, AliveCheckResponse, DiagnosticMessage

\* At most one request to activate routing is under way.
OneRequest == \A j, k \in 1..Len(toServer) : IsRequest(j) /\ IsRequest(k) => j = k

NoDiagnostic == \A k \in 1..Len(toServer) : HeaderType(toServer[k]) # DiagnosticMessage

\* What holds on an established connection while no read has ended within a message.
Routing ==
  /\ Framing(toClient, begins) /\ Promised(toClient, begins)
  /\ isactive => granted
  /\ Requested => con_stat = "SUCCESS" /\ ~granted
  /\ granted => con_stat = "SUCCESS"
  /\ OneRequest
  /\ ~granted => NoDiagnostic

\* It is what the invariant says of such a connection, now and in the next state.
LEMMA RoutingHolds ==
  ASSUME SafetyInv, framed, tcp = "open"
  PROVE  Routing
<1>1. Activation /\ RoutedOnly  BY Zenon DEF SafetyInv
<1>2. ~granted => NoDiagnostic  BY <1>1, Zenon DEF RoutedOnly, NoDiagnostic
<1> QED  BY <1>1, <1>2, Zenon DEF Activation, Routing, OneRequest

\* And of the next state.
LEMMA RoutingSuffices ==
  ASSUME ClientInv', framed' /\ tcp' = "open" => Routing'
  PROVE  SafetyInv'
<1>1. Activation'  BY Zenon DEF Activation, Routing, OneRequest
<1>2. RoutedOnly'
  <2> SUFFICES ASSUME NEW k \in 1..Len(toServer')
               PROVE  /\ Tester(toServer'[k]) = asked'.sa_addr
                      /\ framed' /\ ~granted' => HeaderType(toServer'[k]) # DiagnosticMessage
    BY Zenon DEF RoutedOnly
  <2>1. Tester(toServer'[k]) = asked'.sa_addr  BY Zenon DEF ClientInv, Addressed
  <2>2. tcp' = "open"
    <3>1. ASSUME tcp' # "open"  PROVE FALSE
      <4>1. toServer' = <<>>  BY <3>1, Zenon DEF ClientInv, ConnectionIsFresh
      <4>2. Len(toServer') = 0  BY <4>1, SMT
      <4> QED  BY <4>2, SMT
    <3> QED  BY <3>1, Zenon
  <2> QED  BY <2>1, <2>2, Zenon DEF Routing, NoDiagnostic
<1> QED  BY <1>1, <1>2, Zenon DEF SafetyInv

\* It holds on a fresh connection.
LEMMA FreshRouting ==
  ASSUME toClient' = <<>>, begins' = {}, toServer' = <<>>, ~granted', ~isactive'
  PROVE  Routing'
<1>1. Len(toServer') = 0  BY SMT
<1>2. 1..Len(toServer') = {}  BY <1>1, SMT
<1>3. ~Requested' /\ OneRequest' /\ NoDiagnostic'
  BY <1>2, Zenon DEF Requested, OneRequest, NoDiagnostic
<1>4. Framing(toClient, begins)' /\ Promised(toClient, begins)'
  BY Zenon DEF Framing, Promised
<1> QED  BY <1>3, <1>4, Zenon DEF Routing

\* The messages of a longer queue.
LEMMA AppendIs ==
  ASSUME NEW S, NEW q \in Seq(S), NEW m \in S
  PROVE  LET r == Append(q, m)
         IN  /\ \A k \in 1..Len(r) : \/ k \in 1..Len(q) /\ r[k] = q[k]
                                     \/ k = Len(q) + 1 /\ r[k] = m
             /\ \A k \in 1..Len(q) : k \in 1..Len(r) /\ r[k] = q[k]
BY SMT

\* The queue to the server is as before, but for a message of that type at new.
JoinsAt(new, type) ==
  /\ \A k \in 1..Len(toServer') :
        \/ k \in 1..Len(toServer) /\ toServer'[k] = toServer[k]
        \/ k = new /\ HeaderType(toServer'[k]) = type
  /\ \A k \in 1..Len(toServer) : k \in 1..Len(toServer') /\ toServer'[k] = toServer[k]

\* A message that is sent joins the queue, or is lost.
LEMMA SendAdds ==
  ASSUME TypeOK, NEW sa, NEW type, NEW m, IsOf(m, sa, type), Send(m)
  PROVE  \E new : JoinsAt(new, type)
<1>1. CASE toServer' = toServer  BY <1>1, Zenon DEF JoinsAt
<1>2. CASE toServer' = Append(toServer, m)
  <2>1. m \in Seq(Byte) /\ HeaderType(m) = type  BY Zenon DEF IsOf
  <2>2. toServer \in Seq(Seq(Byte))  BY Zenon DEF TypeOK
  <2>3. PICK r : r = Append(toServer, m)  OBVIOUS
  <2>4. \A k \in 1..Len(r) : \/ k \in 1..Len(toServer) /\ r[k] = toServer[k]
                             \/ k = Len(toServer) + 1 /\ r[k] = m
    <3>1. m \in Seq(Byte)  BY <2>1, Zenon
    <3>2. \A k \in 1..Len(Append(toServer, m)) :
             \/ k \in 1..Len(toServer) /\ Append(toServer, m)[k] = toServer[k]
             \/ k = Len(toServer) + 1 /\ Append(toServer, m)[k] = m
      BY <2>2, <3>1, AppendIs, Zenon
    <3> QED  BY <2>3, <3>2, SMT
  <2>5. \A k \in 1..Len(toServer) : k \in 1..Len(r) /\ r[k] = toServer[k]
    BY <2>1, <2>2, <2>3, AppendIs, Zenon
  <2>6. toServer' = r  BY <1>2, <2>3, Zenon
  <2>7. PICK new : new = Len(toServer) + 1  OBVIOUS
  <2>8. \A k \in 1..Len(toServer') :
           \/ k \in 1..Len(toServer) /\ toServer'[k] = toServer[k]
           \/ k = new /\ HeaderType(toServer'[k]) = type
    BY <2>1, <2>4, <2>6, <2>7, Zenon
  <2>9. \A k \in 1..Len(toServer) : k \in 1..Len(toServer') /\ toServer'[k] = toServer[k]
    BY <2>5, <2>6, Zenon
  <2>10. JoinsAt(new, type)  BY <2>8, <2>9, Zenon DEF JoinsAt
  <2> QED  BY <2>10, Zenon
<1> QED  BY <1>1, <1>2, Zenon DEF Send

\* A message that does not request activation changes no request.
LEMMA SendKeepsRequests ==
  ASSUME TypeOK, NEW sa, NEW type, NEW m, IsOf(m, sa, type), Send(m),
         type # RoutingActivationRequest
  PROVE  /\ Requested' <=> Requested
         /\ OneRequest => OneRequest'
         /\ type # DiagnosticMessage /\ NoDiagnostic => NoDiagnostic'
<1>1. PICK new : JoinsAt(new, type)  BY SendAdds, Zenon
<1>2. \A k \in 1..Len(toServer') : IsRequest(k)' => k \in 1..Len(toServer) /\ IsRequest(k)
  BY <1>1, Zenon DEF IsRequest, JoinsAt
<1>3. \A k \in 1..Len(toServer) : IsRequest(k) => k \in 1..Len(toServer') /\ IsRequest(k)'
  BY <1>1, Zenon DEF IsRequest, JoinsAt
<1>4. Requested' <=> Requested  BY <1>2, <1>3, Zenon DEF Requested
<1>5. OneRequest => OneRequest'  BY <1>2, Zenon DEF OneRequest
<1>6. type # DiagnosticMessage /\ NoDiagnostic => NoDiagnostic'  BY <1>1, Zenon DEF NoDiagnostic, JoinsAt
<1> QED  BY <1>4, <1>5, <1>6, Zenon

\* The client asks for activation when the connection is made, and never before.
LEMMA SucceededRouting ==
  ASSUME SafetyInv, ConnectSucceeded, framed, tcp = "open"
  PROVE  Routing'
<1>1. TypeOK /\ ConnectionIsFresh /\ Addressed /\ Routing
  BY RoutingHolds, Zenon DEF SafetyInv, ClientInv
<1>2. /\ con_stat = "PROCESS" /\ con_stat' = "SUCCESS"
      /\ isactive' = isactive /\ granted' = granted
      /\ toClient' = toClient /\ begins' = begins
  BY Zenon DEF ConnectSucceeded
<1>3. con_stat # "SUCCESS"  BY <1>2, Zenon
<1>4. ~isactive /\ ~granted /\ ~Requested  BY <1>1, <1>3, Zenon DEF ConnectionIsFresh, Routing
<1>5. Send(RoutingRequest(config.sa_addr))  BY <1>4, Zenon DEF ConnectSucceeded
<1>6. config.sa_addr = asked.sa_addr /\ asked.sa_addr \in Word
  BY <1>1, AskedIsWord, Zenon DEF Addressed
<1>7. IsOf(RoutingRequest(config.sa_addr), asked.sa_addr, RoutingActivationRequest)
  BY <1>6, RoutingRequestIs, Zenon
<1>8. PICK new : JoinsAt(new, RoutingActivationRequest)
  BY <1>1, <1>5, <1>7, SendAdds, Zenon
<1>9. \A k \in 1..Len(toServer') : IsRequest(k)' => k = new
  BY <1>4, <1>8, Zenon DEF IsRequest, Requested, JoinsAt
<1>10. OneRequest'  BY <1>9, Zenon DEF OneRequest
<1>11. NoDiagnostic  BY <1>1, <1>4, Zenon DEF Routing
<1>12. NoDiagnostic'  BY <1>8, <1>11, TypesDiffer, Zenon DEF NoDiagnostic, JoinsAt
<1>13. Framing(toClient, begins) /\ Promised(toClient, begins)
  BY <1>1, Zenon DEF Routing
<1>14. \A p \in begins : ~IsResponse(From(toClient, p))  BY <1>3, <1>13, Zenon DEF Promised
<1>15. Framing(toClient, begins)' /\ Promised(toClient, begins)'
  BY <1>2, <1>13, <1>14, Zenon DEF Promised
<1> QED  BY <1>2, <1>4, <1>10, <1>12, <1>15, Zenon DEF Routing

\* The client sends diagnostic messages when it is active.
LEMMA DiagRequestRouting ==
  ASSUME SafetyInv, NEW ta, NEW msg \in DiagRequests, DiagRequest(ta, msg), framed, tcp = "open"
  PROVE  Routing'
<1>1. TypeOK /\ Addressed /\ Routing  BY RoutingHolds, Zenon DEF SafetyInv, ClientInv
<1>2. /\ isactive /\ Send(DiagnosticRequest(config.sa_addr, ta, msg))
      /\ isactive' = isactive /\ con_stat' = con_stat /\ granted' = granted
      /\ toClient' = toClient /\ begins' = begins
  BY Zenon DEF DiagRequest, client
<1>3. granted  BY <1>1, <1>2, Zenon DEF Routing
<1>4. config.sa_addr = asked.sa_addr /\ asked.sa_addr \in Word
  BY <1>1, AskedIsWord, Zenon DEF Addressed
<1>5. msg \in Seq(Byte)  BY DoipAssumption, Zenon
<1>6. IsOf(DiagnosticRequest(config.sa_addr, ta, msg), asked.sa_addr, DiagnosticMessage)
  BY <1>4, <1>5, DiagnosticRequestIs, Zenon
<1>7. /\ Requested' <=> Requested
      /\ OneRequest => OneRequest'
  BY <1>1, <1>2, <1>6, TypesDiffer, SendKeepsRequests, Zenon
<1>8. Framing(toClient, begins) /\ Promised(toClient, begins)
  BY <1>1, Zenon DEF Routing
<1>9. Framing(toClient, begins)' /\ Promised(toClient, begins)'
  BY <1>2, <1>7, <1>8, Zenon DEF Promised
<1>10. OneRequest'  BY <1>1, <1>7, Zenon DEF Routing
<1> QED  BY <1>1, <1>2, <1>3, <1>7, <1>9, <1>10, Zenon DEF Routing

\* The bytes of the buffer that a read found are those of the stream.
LEMMA FilledIs ==
  ASSUME NEW n \in Nat, NEW i \in 1..RxLen, i <= n
  PROVE  Filled(n)[i] = toClient[i]
BY SMT DEF Filled

\* A read of whole messages takes their promises off the stream, and the first of
\* them is kept.
LEMMA ReadRouting ==
  ASSUME SafetyInv, NEW n, Read(n), tcp = "open", framed',
         Requested' <=> Requested,
         OneRequest => OneRequest',
         NoDiagnostic => NoDiagnostic',
         isactive' => isactive \/ (/\ ReadType(n) = RoutingActivationResponse
                                   /\ rxbuf'[ActivationResCodeOffset + 1] = Activated)
  PROVE  Routing'
<1>1. framed /\ n \in begins \cup {Len(toClient)}  BY Zenon DEF Read
<1>2. TypeOK /\ Routing  BY <1>1, RoutingHolds, Zenon DEF SafetyInv, ClientInv
<1>3. /\ con_stat = "SUCCESS" /\ con_stat' = con_stat /\ granted' = granted
      /\ rxbuf' = Filled(n)
  BY Zenon DEF Read
<1>4. PICK s : s = toClient  OBVIOUS
<1>5. s \in Seq(Byte)  BY <1>2, <1>4, Zenon DEF TypeOK
<1>6. n \in 1..Len(s) /\ toClient' = From(s, n)  BY <1>2, <1>4, ReadIs, Zenon
<1>7. s # <<>>  BY <1>5, <1>6, SMT
<1>8. Framing(s, begins) /\ Promised(s, begins)  BY <1>2, <1>4, Zenon DEF Routing
<1>9. n \in begins \cup {Len(s)}  BY <1>1, <1>4, Zenon
<1>10. begins' = {q \in 0..(Len(s) - n) : n + q \in begins}  BY <1>4, Zenon DEF Read
<1>11. Framing(toClient, begins)'
  BY <1>5, <1>6, <1>8, <1>9, <1>10, FramingRest, Zenon
<1>12. Promised(toClient, begins)'
  <2>1. ASSUME NEW q \in begins', IsResponse(From(toClient, q))'
        PROVE  /\ con_stat' = "SUCCESS" /\ ~Requested'
               /\ From(toClient', q)[ActivationResCodeOffset + 1] = Activated => granted'
    <3>1. q \in 0..(Len(s) - n) /\ n + q \in begins  BY <1>10, Zenon
    <3>2. n \in 0..Len(s)  BY <1>5, <1>6, SMT
    <3>3. From(From(s, n), q) = From(s, n + q)  BY <1>5, <3>1, <3>2, FromFrom, Zenon
    <3>4. From(toClient', q) = From(s, n + q)  BY <1>6, <3>3, Zenon
    <3>5. IsResponse(From(s, n + q))  BY <2>1, <3>4, Zenon DEF IsResponse
    <3> QED  BY <1>3, <1>8, <3>1, <3>4, <3>5, Zenon DEF Promised
  <2> QED  BY <2>1, Zenon DEF Promised
<1>13. isactive' => granted'
  <2>1. CASE isactive  BY <1>2, <1>3, <2>1, Zenon DEF Routing
  <2>2. ASSUME ReadType(n) = RoutingActivationResponse,
               rxbuf'[ActivationResCodeOffset + 1] = Activated
        PROVE  granted
    <3>1. /\ HasHeader(s)
          /\ IsResponse(s) => MessageEnd(s) > ActivationResCodeOffset
          /\ MessageEnd(s) <= n
      <4>1. 0 < n  BY <1>6, SMT
      <4> QED  BY <1>5, <1>7, <1>8, <1>9, <4>1, FirstMessage, Zenon
    <3>2. n \in Nat /\ n >= 8 /\ MessageEnd(s) \in Nat
      <4>1. MessageEnd(s) \in Nat /\ MessageEnd(s) >= 8  BY <1>5, <3>1, EndIsNat, Zenon
      <4> QED  BY <1>6, <3>1, <4>1, SMT
    <3>3. n >= HeaderLen
      BY <3>2, SMT DEF HeaderLen, LengthOffset, TypeOffset, InvVersionOffset, VersionOffset
    <3>4. HeaderType(rxbuf') = RoutingActivationResponse  BY <2>2, <3>3, Zenon DEF ReadType
    <3>5. TypeOffset + 1 \in 1..RxLen /\ TypeOffset + 1 <= n
      BY <3>2, DoipAssumption, SMT
      DEF ActivationResCodeOffset, HeaderLen, LengthOffset, TypeOffset, InvVersionOffset, VersionOffset
    <3>6. TypeOffset + 2 \in 1..RxLen /\ TypeOffset + 2 <= n
      BY <3>2, DoipAssumption, SMT
      DEF ActivationResCodeOffset, HeaderLen, LengthOffset, TypeOffset, InvVersionOffset, VersionOffset
    <3>7. rxbuf'[TypeOffset + 1] = s[TypeOffset + 1] /\ rxbuf'[TypeOffset + 2] = s[TypeOffset + 2]
      BY <1>3, <1>4, <3>2, <3>5, <3>6, FilledIs, Zenon
    <3>8. IsResponse(s)  BY <3>4, <3>7, Zenon DEF HeaderType, IsResponse
    <3>9. n > ActivationResCodeOffset
      <4>1. MessageEnd(s) > ActivationResCodeOffset  BY <3>1, <3>8, Zenon
      <4> QED
        BY <3>1, <3>2, <4>1, SMT
        DEF ActivationResCodeOffset, HeaderLen, LengthOffset, TypeOffset, InvVersionOffset, VersionOffset
    <3>10. ActivationResCodeOffset + 1 \in 1..RxLen /\ ActivationResCodeOffset + 1 <= n
      BY <3>2, <3>9, DoipAssumption, SMT
      DEF ActivationResCodeOffset, HeaderLen, LengthOffset, TypeOffset, InvVersionOffset, VersionOffset
    <3>11. s[ActivationResCodeOffset + 1] = Activated
      BY <1>3, <1>4, <2>2, <3>2, <3>10, FilledIs, Zenon
    <3>12. 0 \in begins /\ From(s, 0) = s  BY <1>5, <1>7, <1>8, FromZero, Zenon DEF Framing
    <3> QED  BY <1>8, <3>8, <3>11, <3>12, Zenon DEF Promised
  <2> QED  BY <1>3, <2>1, <2>2, Zenon
<1> QED  BY <1>2, <1>3, <1>11, <1>12, <1>13, Zenon DEF Routing

\* A stream with one more message makes the promises it made.
LEMMA PromisedLonger ==
  ASSUME TypeOK, NEW starts, Framing(toClient, starts), NEW type, NEW m, IsWhole(m, type),
         NEW p \in starts, toClient' = toClient \o m, IsResponse(From(toClient, p))'
  PROVE  /\ IsResponse(From(toClient, p))
         /\ From(toClient', p)[ActivationResCodeOffset + 1]
              = From(toClient, p)[ActivationResCodeOffset + 1]
<1>1. PICK s : s = toClient  OBVIOUS
<1>2. s \in Seq(Byte) /\ Framing(s, starts)  BY <1>1, Zenon DEF TypeOK
<1>3. m \in Seq(Byte)  BY Zenon DEF IsWhole
<1>4. HeaderType(From(s \o m, p)) = HeaderType(From(s, p))
  BY <1>2, <1>3, MessageLonger, Zenon
<1>5. toClient' = s \o m  BY <1>1, Zenon
<1>6. IsResponse(From(s \o m, p))  BY <1>5, Zenon DEF IsResponse
<1>7. IsResponse(From(s, p))  BY <1>4, <1>6, Zenon DEF IsResponse
<1>8. From(s \o m, p)[ActivationResCodeOffset + 1] = From(s, p)[ActivationResCodeOffset + 1]
  BY <1>2, <1>3, <1>7, MessageLonger, Zenon
<1> QED  BY <1>1, <1>5, <1>7, <1>8, Zenon

\* What follows the old stream is the new message.
LEMMA StreamEnd ==
  ASSUME TypeOK, NEW type, NEW m, IsWhole(m, type), toClient' = toClient \o m
  PROVE  From(toClient', Len(toClient)) = m
<1>1. toClient \in Seq(Byte) /\ m \in Seq(Byte)  BY Zenon DEF TypeOK, IsWhole
<1>2. From(toClient \o m, Len(toClient)) = m  BY <1>1, FromEnd, Zenon
<1> QED  BY <1>2, Zenon

\* The server writes no answer to a request.
LEMMA ServerWritesRouting ==
  ASSUME SafetyInv, ServerWrites, framed, tcp = "open"
  PROVE  Routing'
<1>1. TypeOK /\ ClientInv /\ Routing  BY RoutingHolds, Zenon DEF SafetyInv, ClientInv
<1>2. /\ isactive' = isactive /\ con_stat' = con_stat /\ toServer' = toServer /\ granted' = granted
  BY Zenon DEF ServerWrites, client
<1>3. PICK type, m : /\ IsWhole(m, type) /\ type # RoutingActivationResponse
                     /\ toClient' = toClient \o m
                     /\ begins' = begins \cup {Len(toClient)}
  BY <1>1, ServerWritesIs, Zenon
<1>4. ~IsResponse(m)  BY <1>3, Zenon DEF IsWhole, IsResponse
<1>5. Framing(toClient, begins) /\ Promised(toClient, begins)
  BY <1>1, Zenon DEF Routing
<1>6. Framing(toClient, begins)'
  <2>1. toClient \in Seq(Byte)  BY <1>1, Zenon DEF TypeOK
  <2>2. Framing(toClient \o m, begins \cup {Len(toClient)})
    BY <1>3, <1>4, <1>5, <2>1, FramingLonger, Zenon
  <2> QED  BY <1>3, <2>2, Zenon
<1>7. (Requested' <=> Requested) /\ (OneRequest' <=> OneRequest)
      /\ (NoDiagnostic' <=> NoDiagnostic)
  BY <1>2, Zenon DEF Requested, OneRequest, NoDiagnostic, IsRequest
<1>8. Promised(toClient, begins)'
  <2>1. ASSUME NEW p \in begins', IsResponse(From(toClient, p))'
        PROVE  /\ con_stat' = "SUCCESS" /\ ~Requested'
               /\ From(toClient', p)[ActivationResCodeOffset + 1] = Activated => granted'
    <3>1. CASE p \in begins
      <4>1. /\ IsResponse(From(toClient, p))
            /\ From(toClient', p)[ActivationResCodeOffset + 1]
                 = From(toClient, p)[ActivationResCodeOffset + 1]
        BY <1>1, <1>3, <1>5, <2>1, <3>1, PromisedLonger, Zenon
      <4> QED  BY <1>2, <1>5, <1>7, <3>1, <4>1, Zenon DEF Promised
    <3>2. CASE p = Len(toClient)
      <4>1. From(toClient', p) = m  BY <1>1, <1>3, <3>2, StreamEnd, Zenon
      <4> QED  BY <1>4, <2>1, <4>1, Zenon DEF IsResponse
    <3> QED  BY <1>3, <3>1, <3>2, Zenon
  <2> QED  BY <2>1, Zenon DEF Promised
<1> QED  BY <1>1, <1>2, <1>6, <1>7, <1>8, Zenon DEF Routing

\* The server reads a message: if that requests activation it is the only one that does,
\* and the answer says what the server has done.
LEMMA ServerReadsRouting ==
  ASSUME SafetyInv, ServerReads, framed, tcp = "open"
  PROVE  Routing'
<1>1. TypeOK /\ ClientInv /\ Routing  BY RoutingHolds, Zenon DEF SafetyInv, ClientInv
<1>2. isactive' = isactive /\ con_stat' = con_stat  BY Zenon DEF ServerReads, client
<1>3. toServer # <<>> /\ toServer' = Tail(toServer)  BY <1>1, ServerReadsIs, Zenon
<1>4. toServer \in Seq(Seq(Byte))  BY <1>1, Zenon DEF TypeOK
<1>5. \A k \in 1..Len(toServer') : k + 1 \in 1..Len(toServer) /\ toServer'[k] = toServer[k + 1]
  <2>1. \A k \in 1..Len(Tail(toServer)) :
          k + 1 \in 1..Len(toServer) /\ Tail(toServer)[k] = toServer[k + 1]
    BY <1>3, <1>4, TailIs, Zenon
  <2> QED  BY <1>3, <2>1, Zenon
<1>6. 1 \in 1..Len(toServer)  BY <1>3, <1>4, TailIs, Zenon
<1>7. \A k \in 1..Len(toServer') : IsRequest(k)' => k + 1 \in 1..Len(toServer) /\ IsRequest(k + 1)
  BY <1>5, Zenon DEF IsRequest
<1>8. Requested' => Requested  BY <1>7, Zenon DEF Requested
<1>9. OneRequest'
  <2>1. ASSUME NEW j \in 1..Len(toServer'), NEW k \in 1..Len(toServer'),
               IsRequest(j)', IsRequest(k)'
        PROVE  j = k
    <3>1. /\ j + 1 \in 1..Len(toServer) /\ IsRequest(j + 1)
          /\ k + 1 \in 1..Len(toServer) /\ IsRequest(k + 1)
      BY <1>7, <2>1, Zenon
    <3>2. j + 1 = k + 1  BY <1>1, <3>1, Zenon DEF Routing, OneRequest
    <3> QED  BY <3>2, SMT
  <2> QED  BY <2>1, Zenon DEF OneRequest
<1>10. NoDiagnostic => NoDiagnostic'  BY <1>5, Zenon DEF NoDiagnostic
<1>11. Framing(toClient, begins) /\ Promised(toClient, begins)
  BY <1>1, Zenon DEF Routing
<1>12. CASE toClient' = toClient /\ begins' = begins /\ granted' = granted
  <2>1. Framing(toClient, begins)' /\ Promised(toClient, begins)'
    BY <1>2, <1>8, <1>11, <1>12, Zenon DEF Promised
  <2> QED  BY <1>1, <1>2, <1>8, <1>9, <1>10, <1>12, <2>1, Zenon DEF Routing
<1>13. ASSUME NEW code, NEW m, IsRequest(1), IsWhole(m, RoutingActivationResponse),
              MessageEnd(m) > ActivationResCodeOffset,
              m[ActivationResCodeOffset + 1] = code,
              toClient' = toClient \o m, begins' = begins \cup {Len(toClient)},
              granted' = (code = Activated)
       PROVE  Routing'
  <2>1. Requested  BY <1>6, <1>13, Zenon DEF Requested
  <2>2. con_stat = "SUCCESS" /\ ~granted /\ ~isactive /\ NoDiagnostic
    BY <1>1, <2>1, Zenon DEF Routing
  <2>3. ~Requested'
    <3>1. ASSUME NEW k \in 1..Len(toServer'), IsRequest(k)'  PROVE FALSE
      <4>1. k + 1 \in 1..Len(toServer) /\ IsRequest(k + 1)  BY <1>7, <3>1, Zenon
      <4>2. k + 1 = 1  BY <1>1, <1>6, <1>13, <4>1, Zenon DEF Routing, OneRequest
      <4> QED  BY <4>2, SMT
    <3> QED  BY <3>1, Zenon DEF Requested
  <2>4. Framing(toClient, begins)'
    <3>1. toClient \in Seq(Byte)  BY <1>1, Zenon DEF TypeOK
    <3>2. Framing(toClient \o m, begins \cup {Len(toClient)})
      BY <1>11, <1>13, <3>1, FramingLonger, Zenon
    <3> QED  BY <1>13, <3>2, Zenon
  <2>5. Promised(toClient, begins)'
    <3>1. ASSUME NEW p \in begins', IsResponse(From(toClient, p))'
          PROVE  From(toClient', p)[ActivationResCodeOffset + 1] = Activated => granted'
      <4>1. CASE p \in begins
        <5>1. IsResponse(From(toClient, p))
          BY <1>1, <1>11, <1>13, <3>1, <4>1, PromisedLonger, Zenon
        <5> QED  BY <1>11, <2>1, <4>1, <5>1, Zenon DEF Promised
      <4>2. CASE p = Len(toClient)
        <5>1. From(toClient', p) = m  BY <1>1, <1>13, <4>2, StreamEnd, Zenon
        <5> QED  BY <1>13, <5>1, Zenon
      <4> QED  BY <1>13, <4>1, <4>2, Zenon
    <3> QED  BY <1>2, <2>2, <2>3, <3>1, Zenon DEF Promised
  <2> QED  BY <1>2, <1>9, <1>10, <2>2, <2>3, <2>4, <2>5, Zenon DEF Routing
<1>14. \/ toClient' = toClient /\ begins' = begins /\ granted' = granted
       \/ \E code, m :
            /\ IsRequest(1) /\ IsWhole(m, RoutingActivationResponse)
            /\ MessageEnd(m) > ActivationResCodeOffset
            /\ m[ActivationResCodeOffset + 1] = code
            /\ toClient' = toClient \o m
            /\ begins' = begins \cup {Len(toClient)}
            /\ granted' = (code = Activated)
  BY <1>1, ServerReadsIs, Zenon
<1> QED  BY <1>12, <1>13, <1>14, Zenon

\* What the client does with a message it reads.
LEMMA MessageRouting ==
  ASSUME SafetyInv, NEW n, RoutingAnswered(n) \/ AliveChecked(n) \/ ReadIgnored(n),
         framed', tcp = "open"
  PROVE  Routing'
<1>1. Read(n)  BY Zenon DEF RoutingAnswered, AliveChecked, ReadIgnored
<1>2. CASE toServer' = toServer
  <2>1. /\ Requested' <=> Requested
        /\ OneRequest => OneRequest'
        /\ NoDiagnostic => NoDiagnostic'
    BY <1>2, Zenon DEF Requested, OneRequest, NoDiagnostic, IsRequest
  <2>2. isactive' => isactive \/ (/\ ReadType(n) = RoutingActivationResponse
                                  /\ rxbuf'[ActivationResCodeOffset + 1] = Activated)
    BY Zenon DEF RoutingAnswered, AliveChecked, ReadIgnored
  <2> QED  BY <1>1, <2>1, <2>2, ReadRouting, Zenon
<1>3. CASE AliveChecked(n) /\ Send(AliveResponse(config.sa_addr))
  <2>1. TypeOK /\ Addressed /\ isactive' = isactive
    BY <1>3, Zenon DEF AliveChecked, SafetyInv, ClientInv
  <2>2. config.sa_addr = asked.sa_addr /\ asked.sa_addr \in Word
    BY <2>1, AskedIsWord, Zenon DEF Addressed
  <2>3. IsOf(AliveResponse(config.sa_addr), asked.sa_addr, AliveCheckResponse)
    BY <2>2, AliveResponseIs, Zenon
  <2>4. /\ Requested' <=> Requested
        /\ OneRequest => OneRequest'
        /\ NoDiagnostic => NoDiagnostic'
    BY <1>3, <2>1, <2>3, TypesDiffer, SendKeepsRequests, Zenon
  <2> QED  BY <1>1, <2>1, <2>4, ReadRouting, Zenon
<1> QED  BY <1>2, <1>3, Zenon DEF RoutingAnswered, AliveChecked, ReadIgnored

\* Every step that leaves a connection established.
LEMMA RoutingStep ==
  ASSUME SafetyInv, [Next]_vars, framed', tcp' = "open"
  PROVE  Routing'
<1>1. ClientInv  BY Zenon DEF SafetyInv
<1>2. CASE Connect
  <2>1. isactive' = FALSE /\ NoConnection
    BY <1>2, Zenon
    DEF Connect, ConnectNoSocket, ConnectRefused, ConnectInProgress, ConnectAtOnce, ConnectAsked
  <2> QED  BY <2>1, FreshRouting, Zenon DEF NoConnection
<1>3. CASE Destory \/ ConnectFailed \/ ConnectionLost
  <2>1. tcp' = "none"  BY <1>3, Zenon DEF Destory, ConnectFailed, ConnectionLost, Disconnect
  <2> QED  BY <2>1, Zenon
<1>4. CASE ConnectSucceeded
  <2>1. framed /\ tcp = "open"  BY <1>4, Zenon DEF ConnectSucceeded, kernel
  <2> QED  BY <1>4, <2>1, SucceededRouting, Zenon
<1>5. ASSUME NEW n, RoutingAnswered(n) \/ AliveChecked(n) \/ ReadIgnored(n)  PROVE Routing'
  <2>1. tcp = "open"
    BY <1>5, Zenon DEF RoutingAnswered, AliveChecked, ReadIgnored, Read, kernel
  <2> QED  BY <1>5, <2>1, MessageRouting, Zenon
<1>6. CASE Accepted
  <2>1. /\ tcp = "syn" /\ toClient' = toClient /\ toServer' = toServer /\ granted' = granted
        /\ isactive' = isactive /\ begins' = begins
    BY <1>6, Zenon DEF Accepted, TcpBecomes, client, server
  <2>2. ConnectionIsFresh  BY <1>1, Zenon DEF ClientInv
  <2>3. con_stat = "PROCESS" /\ toClient = <<>> /\ begins = {} /\ ~granted
    BY <2>1, <2>2, Zenon DEF ConnectionIsFresh
  <2>4. con_stat # "SUCCESS" /\ tcp # "open"  BY <2>1, <2>3, Zenon
  <2>5. toServer = <<>> /\ ~isactive  BY <2>2, <2>4, Zenon DEF ConnectionIsFresh
  <2> QED  BY <2>1, <2>3, <2>5, FreshRouting, Zenon
<1>7. CASE Refused \/ ServerClosed
  BY <1>7, Zenon DEF Refused, TcpBecomes, ServerClosed
<1>8. CASE ServerReads
  <2>1. framed /\ tcp = "open"  BY <1>8, Zenon DEF ServerReads
  <2> QED  BY <1>8, <2>1, ServerReadsRouting, Zenon
<1>9. CASE ServerWrites
  <2>1. framed /\ tcp = "open"  BY <1>9, Zenon DEF ServerWrites
  <2> QED  BY <1>9, <2>1, ServerWritesRouting, Zenon
<1>10. ASSUME NEW msg \in DiagRequests, DiagRequest(EntityAddr, msg)  PROVE Routing'
  <2>1. framed /\ tcp = "open"  BY <1>10, Zenon DEF DiagRequest, kernel
  <2> QED  BY <1>10, <2>1, DiagRequestRouting, Zenon
<1>11. CASE UNCHANGED vars
  <2>1. UNCHANGED <<con_stat, isactive, tcp, toClient, toServer, granted, begins, framed>>
    BY <1>11, Zenon DEF vars, client, kernel, server
  <2>2. framed /\ tcp = "open"  BY <2>1, Zenon
  <2>3. Routing  BY <2>2, RoutingHolds, Zenon
  <2>4. Framing(toClient, begins) /\ Promised(toClient, begins)
    BY <2>3, Zenon DEF Routing
  <2>5. (Requested' <=> Requested) /\ (OneRequest' <=> OneRequest)
        /\ (NoDiagnostic' <=> NoDiagnostic)
    BY <2>1, Zenon DEF Requested, OneRequest, NoDiagnostic, IsRequest
  <2>6. Framing(toClient, begins)' /\ Promised(toClient, begins)'
    BY <2>1, <2>4, <2>5, Zenon DEF Promised
  <2> QED  BY <2>1, <2>3, <2>5, <2>6, Zenon DEF Routing
<1> QED
  BY <1>2, <1>3, <1>4, <1>5, <1>6, <1>7, <1>8, <1>9, <1>10, <1>11, Zenon DEF Next, Loop, Peer

\* The invariant of routing.
LEMMA SafetyCorrect == Spec => []SafetyInv
<1>1. Init => SafetyInv
  <2> SUFFICES ASSUME Init PROVE SafetyInv  OBVIOUS
  <2>1. ClientInv  BY ClientInit, Zenon
  <2>2. Activation  BY Zenon DEF Init, Activation
  <2>3. RoutedOnly
    <3>1. toServer = <<>>  BY Zenon DEF Init
    <3>2. Len(toServer) = 0  BY <3>1, SMT
    <3>3. 1..Len(toServer) = {}  BY <3>2, SMT
    <3> QED  BY <3>3, Zenon DEF RoutedOnly
  <2> QED  BY <2>1, <2>2, <2>3, Zenon DEF SafetyInv
<1>2. SafetyInv /\ ClientInv' /\ [Next]_vars => SafetyInv'
  BY RoutingStep, RoutingSuffices, Zenon
<1> QED  BY <1>1, <1>2, ClientCorrect, PTL DEF Spec

\* As long as no read has ended within a message, be they read one by one or together,
\* a client is active on a connection only if the server has activated routing on this
\* connection.
THEOREM ActivationCorrect == Spec => []ActiveIsGranted
<1>1. SafetyInv => ActiveIsGranted
  BY RoutingHolds, Zenon DEF ActiveIsGranted, Routing
<1> QED  BY <1>1, SafetyCorrect, PTL

\* What is under way to a server bears the address the user has asked for; and, as long
\* as no read has ended within a message, it is no diagnostic message unless the server
\* has activated routing.
THEOREM RoutingCorrect == Spec => []RoutedOnly
<1>1. SafetyInv => RoutedOnly  BY Zenon DEF SafetyInv
<1> QED  BY <1>1, SafetyCorrect, PTL

-----------------------------------------------------------------------------
(***************************************************************************)
(* The client implements the link                                          *)
(***************************************************************************)

\* The states of the link, now and in the next state.
LEMMA LinkIs ==
  /\ ~created => Link = "none"
  /\ created /\ con_stat = "DISCONNECT" => Link = "disconnected"
  /\ created /\ con_stat = "PROCESS" => Link = "connecting"
  /\ created /\ con_stat = "SUCCESS" /\ ~isactive => Link = "connected"
  /\ created /\ con_stat = "SUCCESS" /\ isactive => Link = "active"
BY SMT DEF Link

\* Its next states.
LEMMA LinkBecomes ==
  /\ ~created' => Link' = "none"
  /\ created' /\ con_stat' = "DISCONNECT" => Link' = "disconnected"
  /\ created' /\ con_stat' = "PROCESS" => Link' = "connecting"
  /\ created' /\ con_stat' = "SUCCESS" /\ ~isactive' => Link' = "connected"
  /\ created' /\ con_stat' = "SUCCESS" /\ isactive' => Link' = "active"
BY SMT DEF Link

\* Each step of the client is a step of the link, or leaves it.
LEMMA LinkStep ==
  ASSUME ClientInv, [Next]_vars
  PROVE  [LinkOf!Next]_Link
<1>1. /\ con_stat # "DISCONNECT" => created
      /\ con_stat # "SUCCESS" => ~isactive
  BY Zenon DEF ClientInv, WatchersHeld, ConnectionIsFresh
<1>2. CASE Connect
  <2>1. created' = TRUE /\ isactive' = FALSE /\ con_stat' \in {"DISCONNECT", "PROCESS", "SUCCESS"}
    BY <1>2, Zenon
    DEF Connect, ConnectNoSocket, ConnectRefused, ConnectInProgress, ConnectAtOnce, ConnectAsked,
        Disconnect
  <2>2. Link' \in {"connecting", "connected", "disconnected"}  BY <2>1, LinkBecomes, Zenon
  <2> QED  BY <2>2, Zenon DEF LinkOf!Next, LinkOf!Connect
<1>3. CASE Destory
  <2>1. created /\ created' = FALSE  BY <1>3, Zenon DEF Destory
  <2>2. con_stat \in {"DISCONNECT", "PROCESS", "SUCCESS"}  BY Zenon DEF ClientInv, TypeOK
  <2>3. Link \in {"disconnected", "connecting", "connected", "active"}
    BY <2>1, <2>2, LinkIs, Zenon
  <2>4. Link # "none" /\ Link' = "none"  BY <2>1, <2>3, LinkBecomes, Zenon
  <2> QED  BY <2>4, Zenon DEF LinkOf!Next, LinkOf!Destroyed
<1>4. CASE ConnectSucceeded
  <2>1. created /\ created' = created /\ con_stat = "PROCESS" /\ con_stat' = "SUCCESS"
        /\ ~isactive /\ isactive' = isactive
    BY <1>1, <1>4, Zenon DEF ConnectSucceeded
  <2>2. Link = "connecting" /\ Link' = "connected"  BY <2>1, LinkIs, LinkBecomes, Zenon
  <2> QED  BY <2>2, Zenon DEF LinkOf!Next, LinkOf!Established
<1>5. CASE ConnectFailed \/ ConnectionLost
  <2>1. con_stat \in {"PROCESS", "SUCCESS"} /\ con_stat' = "DISCONNECT" /\ created' = created
    BY <1>5, Zenon DEF ConnectFailed, ConnectionLost, Disconnect
  <2>2. created  BY <1>1, <2>1, Zenon
  <2>3. Link \in {"connecting", "connected", "active"} /\ Link' = "disconnected"
    BY <2>1, <2>2, LinkIs, LinkBecomes, Zenon
  <2> QED  BY <2>3, Zenon DEF LinkOf!Next, LinkOf!Lost
<1>6. ASSUME NEW n, RoutingAnswered(n)  PROVE [LinkOf!Next]_Link
  <2>1. con_stat = "SUCCESS" /\ con_stat' = con_stat /\ created' = created
    BY <1>6, Zenon DEF RoutingAnswered, Read
  <2>2. created  BY <1>1, <2>1, Zenon
  <2>3. Link \in {"connected", "active"} /\ Link' \in {"connected", "active"}
    BY <2>1, <2>2, LinkIs, LinkBecomes, Zenon
  <2> QED  BY <2>3, Zenon DEF LinkOf!Next, LinkOf!Answered
<1>7. CASE UNCHANGED <<created, con_stat, isactive>>
  BY <1>7, SMT DEF Link
<1>8. CASE \/ \E n \in Arrived : AliveChecked(n) \/ ReadIgnored(n)
           \/ Peer
           \/ \E msg \in DiagRequests : DiagRequest(EntityAddr, msg)
           \/ UNCHANGED vars
  <2>1. UNCHANGED <<created, con_stat, isactive>>
    BY <1>8, Zenon
    DEF AliveChecked, ReadIgnored, Read, Peer, Accepted, Refused, TcpBecomes, ServerClosed, ServerReads,
        ServerWrites, DiagRequest, vars, client
  <2> QED  BY <1>7, <2>1, Zenon
<1> QED  BY <1>2, <1>3, <1>4, <1>5, <1>6, <1>8, Zenon DEF Next, Loop

\* The diag master, which is specified with the steps of DoipLink for each of its
\* clients, can rely on them.
THEOREM LinkIsImplemented == Spec => ImplementsLink
<1>1. Init => LinkOf!Init
  BY LinkIs, Zenon DEF Init, LinkOf!Init
<1>2. ClientInv /\ [Next]_vars => [LinkOf!Next]_Link
  BY LinkStep, Zenon
<1> QED  BY <1>1, <1>2, ClientCorrect, PTL DEF Spec, ImplementsLink, LinkOf!Spec
=============================================================================
