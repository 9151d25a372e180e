------------------------- MODULE ServiceScriptProofs ------------------------
(***************************************************************************)
(* Theorems about the data of a script.                                    *)
(***************************************************************************)
EXTENDS ServiceScript, ByteArrayProofs, SequenceTheorems

-----------------------------------------------------------------------------
(***************************************************************************)
(* Arrays that are read element by element                                 *)
(***************************************************************************)

\* h is how an array grows, element by element.
Grows(h, a, s) ==
  h = [n \in 0..Len(s) |-> IF n = 0 THEN a ELSE ByteArrayAppendChar(h[n - 1], s[n])]

\* Each array grows in one way.
LEMMA GrowsExists ==
  ASSUME NEW a, WellFormed(a), NEW s \in Seq(Byte)
  PROVE  \E h : Grows(h, a, s)
<1> DEFINE A == {b \in [data : Seq(Byte), dlen : Nat, size : Nat] \cup {a} : WellFormed(b)}
           G == [p \in Nat \X A |-> IF p[1] < Len(s)
                                    THEN ByteArrayAppendChar(p[2], s[p[1] + 1]) ELSE p[2]]
<1>1. ASSUME NEW p \in Nat \X A
      PROVE  G[p] \in A
  <2>1. p[1] \in Nat /\ p[2] \in A /\ WellFormed(p[2])
    OBVIOUS
  <2>2. CASE ~(p[1] < Len(s))
    BY <2>1, <2>2
  <2>3. CASE p[1] < Len(s)
    <3> DEFINE t == <<s[p[1] + 1]>>
    <3>1. t \in Seq(Byte)
      BY <2>1, <2>3
    <3>2. WellFormed(ByteArrayAppendNChar(p[2], t))
      BY <2>1, <3>1, AppendWellFormed
    <3>3. ByteArrayAppendNChar(p[2], t) \in [data : Seq(Byte), dlen : Nat, size : Nat]
      <4>1. PICK d, n, z :
                   ByteArrayAppendNChar(p[2], t) = [data |-> d, dlen |-> n, size |-> z]
        BY Zenon DEF ByteArrayAppendNChar
      <4>2. d \in Seq(Byte) /\ n \in Nat /\ z \in Nat
        BY <3>2, <4>1 DEF WellFormed
      <4> QED
        BY <4>1, <4>2
    <3>4. G[p] = ByteArrayAppendNChar(p[2], t)
      BY <2>3 DEF ByteArrayAppendChar
    <3> QED
      BY <3>2, <3>3, <3>4
  <2> QED
    BY <2>2, <2>3
<1>2. G \in [Nat \X A -> A]
  BY <1>1
<1>3. a \in A
  OBVIOUS
<1> HIDE DEF A
<1>4. PICK f : f \in [Nat -> A] /\ f[0] = a /\ \A n \in Nat : f[n + 1] = G[<<n, f[n]>>]
  <2> HIDE DEF G
  <2>1. \E f : IsIterated(f, A, a, G)
    BY <1>2, <1>3, Recursion
  <2> QED
    BY <2>1 DEF IsIterated
<1> DEFINE h == [n \in 0..Len(s) |-> f[n]]
<1>5. ASSUME NEW n \in 0..Len(s)
      PROVE  f[n] = IF n = 0 THEN a ELSE ByteArrayAppendChar(h[n - 1], s[n])
  <2>1. CASE n = 0
    BY <1>4, <2>1
  <2>2. CASE n # 0
    <3>1. n - 1 \in Nat /\ (n - 1) + 1 = n /\ n - 1 < Len(s) /\ n - 1 \in 0..Len(s)
      BY <2>2
    <3>2. f[n] = G[<<n - 1, f[n - 1]>>]
      <4> HIDE DEF G
      <4>1. PICK m \in Nat : m = n - 1
        BY <3>1
      <4>2. f[m + 1] = G[<<m, f[m]>>]
        BY <1>4
      <4>3. m + 1 = n
        BY <3>1, <4>1
      <4>4. f[n] = G[<<m, f[m]>>]
        BY <4>2, <4>3, Zenon
      <4> QED
        BY <4>1, <4>4, Zenon
    <3>3. f[n - 1] \in A
      BY <1>4, <3>1
    <3>4. G[<<n - 1, f[n - 1]>>] = ByteArrayAppendChar(f[n - 1], s[n])
      BY <3>1, <3>3
    <3>5. h[n - 1] = f[n - 1]
      BY <3>1
    <3> QED
      BY <2>2, <3>2, <3>4, <3>5
  <2> QED
    BY <2>1, <2>2
<1>6. Grows(h, a, s)
  BY <1>5 DEF Grows
<1> QED
  BY <1>6

\* The decoder of a configuration and dm_udsc_service_request_build: what is read
\* element by element is behind what was there, in the same order.
THEOREM AppendedEachIs ==
  ASSUME NEW a, WellFormed(a), NEW s \in Seq(Byte)
  PROVE  /\ WellFormed(AppendedEach(a, s))
         /\ Content(AppendedEach(a, s)) = Content(a) \o s
<1> DEFINE h == CHOOSE f : Grows(f, a, s)
<1>1. AppendedEach(a, s) = h[Len(s)]
  BY DEF AppendedEach, Grows
<1>2. Grows(h, a, s)
  BY GrowsExists
<1> HIDE DEF h
<1>3. /\ h[0] = a
      /\ \A n \in 1..Len(s) : h[n] = ByteArrayAppendNChar(h[n - 1], <<s[n]>>)
  BY <1>2 DEF Grows, ByteArrayAppendChar
<1> DEFINE S == {n \in Nat : n <= Len(s) =>
                   WellFormed(h[n]) /\ Content(h[n]) = Content(a) \o SubSeq(s, 1, n)}
<1>4. Content(a) \in Seq(Byte)
  BY ContentOK
<1>5. 0 \in S
  <2>1. SubSeq(s, 1, 0) = <<>>
    OBVIOUS
  <2>2. Content(a) \o <<>> = Content(a)
    BY <1>4
  <2> QED
    BY <1>3, <2>1, <2>2
<1>6. ASSUME NEW n \in Nat, n \in S
      PROVE  n + 1 \in S
  <2> SUFFICES ASSUME n + 1 <= Len(s)
               PROVE  /\ WellFormed(h[n + 1])
                      /\ Content(h[n + 1]) = Content(a) \o SubSeq(s, 1, n + 1)
    OBVIOUS
  <2>1. WellFormed(h[n]) /\ Content(h[n]) = Content(a) \o SubSeq(s, 1, n)
    BY <1>6
  <2>2. n + 1 \in 1..Len(s) /\ (n + 1) - 1 = n
    OBVIOUS
  <2>3. h[n + 1] = ByteArrayAppendNChar(h[n], <<s[n + 1]>>)
    BY <1>3, <2>2
  <2>4. <<s[n + 1]>> \in Seq(Byte)
    BY <2>2
  <2>5. /\ WellFormed(h[n + 1])
        /\ Content(h[n + 1]) = (Content(a) \o SubSeq(s, 1, n)) \o <<s[n + 1]>>
    BY <2>1, <2>3, <2>4, AppendWellFormed
  <2>6. SubSeq(s, 1, n + 1) = SubSeq(s, 1, n) \o <<s[n + 1]>>
    BY <2>2
  <2>7. SubSeq(s, 1, n) \in Seq(Byte)
    OBVIOUS
  <2>8. Content(a) \o SubSeq(s, 1, n + 1)
          = (Content(a) \o SubSeq(s, 1, n)) \o <<s[n + 1]>>
    BY <1>4, <2>4, <2>6, <2>7, ConcatAssociative
  <2> QED
    BY <2>5, <2>8
<1> HIDE DEF S
<1>7. Nat \subseteq S
  BY <1>5, <1>6, Induction
<1>8. Len(s) \in Nat /\ SubSeq(s, 1, Len(s)) = s
  OBVIOUS
<1> QED
  BY <1>1, <1>7, <1>8 DEF S

-----------------------------------------------------------------------------
(***************************************************************************)
(* The inductive invariant                                                 *)
(***************************************************************************)

\* What a message, or a request an ECU has, is about.
Abouts ==
  [item : Nat, first : BOOLEAN, seeds : Nat, late : Nat, request : Seq(Byte),
   answer : Seq(Byte)]

Messages == [bytes : Seq(Byte), of : Abouts]

\* Bytes that the buffers take.
Data == {d \in Seq(Byte) : Len(d) <= DataMax}

Kind(m) ==
  LET command == Command(m.bytes)
  IN  IF command = ServiceIndication
      THEN IF m.of.item = 0 THEN "present" ELSE "request"
      ELSE IF command = ServiceResponse
      THEN IF IsPending(ServiceFields(m.bytes).data) THEN "pending" ELSE "final"
      ELSE IF command = ServiceRequestResult THEN "result"
      ELSE IF command = SaSeed THEN "seed"
      ELSE IF command = SaKey THEN "key"
      ELSE IF command = ScriptResult THEN "finish" ELSE "none"

None(q, kind) == \A k \in 1..Len(q) : Kind(q[k]) # kind

Once(q, kind) ==
  \A j, k \in 1..Len(q) : Kind(q[j]) = kind /\ Kind(q[k]) = kind => j = k

Before(q, a, b) ==
  \A j, k \in 1..Len(q) : Kind(q[j]) = a /\ Kind(q[k]) = b => j < k

\* The arrays of an item are in order, and it has what c asks for.
Configured(i, c) ==
  /\ \A f \in Plain : i[f] = c[f]
  /\ (i.issuppress # 0) = (c.issuppress # 0)
  /\ i.response_rule = c.expectRespon_rule
  /\ Content(i.variable_byte) = Content(c.variableByte)
  /\ Content(i.expect_byte) = Content(c.expectResponByte)
  /\ Content(i.finish_byte) = Content(c.finishByte)
  /\ c.sid = RD => i.rd_34 = c.service_34_rd
  /\ c.sid = RFT => i.rft_38 = c.service_38_rft
  /\ c.sid \in {RD, RFT} => i.local_path = c.local_path

ItemArrays == {"request_byte", "variable_byte", "expect_byte", "finish_byte"}

ItemOK(i, c) ==
  /\ DOMAIN i = DOMAIN NewItem
  /\ \A f \in ItemArrays : WellFormed(i[f])
  /\ Configured(i, c)
  /\ Content(i.request_byte) \in Data
  /\ Asks(Content(i.request_byte), c)

\* The key in a request is that of the last seed before it.
KeyOK(d, of, c) ==
  c.sid = SA /\ c.sub % 2 = 0 /\ of.first /\ of.late = 0 =>
    KeyOf(d, c) \in {<<>>, Key(of.seeds)}

RequestOK(f, of, c) ==
  /\ f.data \in Data /\ Asks(f.data, c) /\ f.sa = c.sa /\ f.ta = c.ta
  /\ KeyOK(f.data, of, c)

PresentOK(f, g) == f.data = <<62, 128>> /\ f.sa = g.tpsa /\ f.ta = g.tpta

ResultOK(f, of, s) ==
  of.late = 0 => f.rr_callid = s[of.item].rr_callid /\ f.data = of.answer

FinishOK(recode, f, of) ==
  of.late = 0 /\ recode # FinishCode.NORMAL => f.ind = of.request /\ f.resp = of.answer

\* A message to the API, when s is the script and g the general configuration.
ApiOK(m, s, g) ==
  /\ Kind(m) \in {"present", "request", "result", "seed", "finish"}
  /\ Kind(m) = "present" => PresentOK(ServiceFields(m.bytes), g)
  /\ Kind(m) = "request" => /\ m.of.item \in 1..Len(s)
                            /\ RequestOK(ServiceFields(m.bytes), m.of, s[m.of.item])
  /\ Kind(m) = "result" => /\ ResultFields(m.bytes).rr_callid \in Nat
                           /\ ResultOK(ResultFields(m.bytes), m.of, s)
  /\ Kind(m) = "seed" => SaFields(m.bytes).level \in Byte
  /\ Kind(m) = "finish" => FinishOK(Recode(m.bytes), FinishFields(m.bytes), m.of)

\* A message to the diag master.
DmOK(m) ==
  /\ Kind(m) \in {"pending", "final", "key"}
  /\ Kind(m) \in {"pending", "final"} => /\ ServiceFields(m.bytes).data = m.of.answer
                                         /\ IsAnswer(m.of.answer)
  /\ Kind(m) = "key" => SaFields(m.bytes).data \in Seq(Byte)

EcuOK(a, s) ==
  /\ a.item \in 1..Len(s) /\ a.request \in Data
  /\ KeyOK(a.request, a, s[a.item])

GivenOK(g, s, general_) ==
  /\ g.kind = "request" => IF g.of.item = 0 THEN PresentOK(g, general_)
                           ELSE RequestOK(g, g.of, s[g.of.item])
  /\ g.kind = "result" => ResultOK([rr_callid |-> g.cb, data |-> g.data], g.of, s)
  /\ g.kind = "finish" => FinishOK(g.recode, g, g.of)

GeneralOK(u, g) ==
  /\ \A f \in {"isFailAbort", "tpEnable", "isTpRefresh"} : (u[f] # 0) = (g[f] # 0)
  /\ \A f \in {"tpInterval", "tpta", "tpsa"} : u[f] = g[f]
  /\ g.tpta \in DWord /\ g.tpsa \in DWord

IsSequence(s) == s \in Seq({s[k] : k \in 1..Len(s)})

\* Nothing is under way that an ECU was asked.
Still(api, dm, e) ==
  None(api, "request") /\ e = <<>> /\ None(dm, "pending") /\ None(dm, "final")

\* At most one request is under way: it is the one of the item at work, and its
\* last response is behind the others.
Asked(api, dm, e, item, request) ==
  /\ Once(api, "request") /\ Len(e) <= 1
  /\ Before(dm, "pending", "final") /\ Once(dm, "final")
  /\ \/ None(api, "request")
     \/ e = <<>> /\ None(dm, "pending") /\ None(dm, "final")
  /\ None(dm, "final") \/ e = <<>>
  /\ \A k \in 1..Len(api) : Kind(api[k]) = "request" =>
       api[k].of.item = item /\ ServiceFields(api[k].bytes).data = request
  /\ \A k \in 1..Len(e) : e[k].item = item /\ e[k].request = request
  /\ \A k \in 1..Len(dm) : Kind(dm[k]) \in {"pending", "final"} =>
       dm[k].of.item = item /\ dm[k].of.request = request

\* At most one seed or key is under way, ahead of the request behind it and of
\* the responses to that, and then there is no key.
Keyed(api, dm, e, key, n) ==
  /\ Once(api, "seed") /\ Once(dm, "key")
  /\ None(api, "seed") \/ None(dm, "key")
  /\ \/ None(api, "seed")
     \/ e = <<>> /\ None(dm, "pending") /\ None(dm, "final")
  /\ Before(api, "seed", "request")
  /\ Before(dm, "key", "pending") /\ Before(dm, "key", "final")
  /\ key \in {<<>>, Key(n)}
  /\ (None(api, "seed") /\ None(dm, "key")) \/ key = <<>>
  /\ \A k \in 1..Len(api) : Kind(api[k]) = "seed" => api[k].of.seeds = n
  /\ \A k \in 1..Len(dm) : Kind(dm[k]) = "key" => SaFields(dm[k].bytes).data = Key(n)

NotStarted ==
  /\ toApi = <<>> /\ toDm = <<>> /\ ecu = <<>> /\ sindex = 0
  /\ request_watcher = FALSE /\ response_watcher = FALSE
  /\ testerPresent_watcher = FALSE /\ given = [kind |-> "none"]

Shape ==
  /\ script \in Seq(Services) /\ IsSequence(items) /\ Len(items) = Len(script)
  /\ sindex \in 0..Len(items)
  /\ WellFormed(key_byte)
  /\ request_watcher \in BOOLEAN /\ response_watcher \in BOOLEAN
  /\ testerPresent_watcher \in BOOLEAN /\ late \in 0..TimeoutMax /\ started \in BOOLEAN
  /\ seeds \in Nat /\ presents \in 0..TesterPresentMax
  /\ rr_handler \in Seq(Nat) /\ \A k \in 1..Len(rr_handler) : rr_handler[k] = k
  /\ toApi \in Seq(Messages) /\ toDm \in Seq(Messages) /\ ecu \in Seq(Abouts)

ItemsOK(i, s) == \A k \in 1..Len(s) : ItemOK(i[k], s[k])

ApisOK(api, s, g) == \A k \in 1..Len(api) : ApiOK(api[k], s, g)

DmsOK(dm) == \A k \in 1..Len(dm) : DmOK(dm[k])

EcusOK(e, s) == \A k \in 1..Len(e) : EcuOK(e[k], s)

Contents ==
  /\ GeneralOK(udsc, general) /\ ItemsOK(items, script)
  /\ ApisOK(toApi, script, general) /\ DmsOK(toDm) /\ EcusOK(ecu, script)
  /\ GivenOK(given, script, general)

Request(i, k) == IF k = 0 THEN <<>> ELSE Content(i[k].request_byte)

\* As long as no response was late.
Flow ==
  /\ request_watcher \/ sindex = 0 => Still(toApi, toDm, ecu)
  /\ Asked(toApi, toDm, ecu, sindex, Request(items, sindex))
  /\ Keyed(toApi, toDm, ecu, Content(key_byte), seeds)

IInv ==
  /\ Shape /\ Contents
  /\ ~started => NotStarted
  /\ late = 0 => Flow

-----------------------------------------------------------------------------
(***************************************************************************)
(* Numbers of several bytes, the highest first                             *)
(***************************************************************************)

\* h is n without its lowest bytes.
Shifting(h, n) ==
  h = [bytes \in Nat |-> IF bytes = 0 THEN n ELSE h[bytes - 1] \div 256]

\* Every byte is shifted out by itself.
LEMMA ShiftedIs ==
  ASSUME NEW n \in Nat
  PROVE  /\ Shifted(n) \in [Nat -> Nat] /\ Shifted(n)[0] = n
         /\ \A k \in Nat : Shifted(n)[k + 1] = Shifted(n)[k] \div 256
<1> DEFINE G == [p \in Nat \X Nat |-> p[2] \div 256]
<1>1. G \in [Nat \X Nat -> Nat]
  <2>1. ASSUME NEW p \in Nat \X Nat PROVE G[p] \in Nat
    <3>1. PICK m \in Nat : p[2] = m
      OBVIOUS
    <3>2. m \div 256 \in Nat
      OBVIOUS
    <3> QED
      BY <3>1, <3>2
  <2> QED
    BY <2>1
<1>2. PICK f : IsIterated(f, Nat, n, G)
  <2> HIDE DEF G
  <2> QED
    BY <1>1, Recursion
<1>3. f \in [Nat -> Nat] /\ f[0] = n /\ \A k \in Nat : f[k + 1] = G[<<k, f[k]>>]
  BY <1>2 DEF IsIterated
<1>4. \A k \in Nat : f[k + 1] = f[k] \div 256
  BY <1>3
<1>5. Shifting(f, n)
  <2>1. ASSUME NEW k \in Nat
        PROVE  f[k] = IF k = 0 THEN n ELSE f[k - 1] \div 256
    <3>1. CASE k = 0
      BY <1>3, <3>1
    <3>2. CASE k # 0
      <4>1. PICK m \in Nat : m = k - 1
        BY <3>2
      <4>2. f[m + 1] = f[m] \div 256 /\ m + 1 = k
        BY <1>4, <4>1
      <4> QED
        BY <3>2, <4>1, <4>2
    <3> QED
      BY <3>1, <3>2
  <2>2. f = [k \in Nat |-> f[k]]
    BY <1>3
  <2> QED
    BY <2>1, <2>2 DEF Shifting
<1> DEFINE h == CHOOSE g : Shifting(g, n)
<1>6. Shifted(n) = h
  BY DEF Shifted, Shifting
<1>7. Shifting(h, n)
  BY <1>5
<1> HIDE DEF h
<1>8. h[0] = n /\ \A k \in Nat : h[k + 1] = h[k] \div 256
  <2>1. \A k \in Nat : h[k] = IF k = 0 THEN n ELSE h[k - 1] \div 256
    BY <1>7 DEF Shifting
  <2>2. ASSUME NEW k \in Nat PROVE h[k + 1] = h[k] \div 256
    <3>1. k + 1 \in Nat /\ k + 1 # 0 /\ (k + 1) - 1 = k
      OBVIOUS
    <3> QED
      BY <2>1, <3>1
  <2> QED
    BY <2>1, <2>2
<1>9. \A k \in Nat : h[k] \in Nat
  <2> DEFINE S == {k \in Nat : h[k] \in Nat}
  <2>1. 0 \in S
    BY <1>8
  <2>2. \A k \in Nat : k \in S => k + 1 \in S
    <3> SUFFICES ASSUME NEW k \in Nat, h[k] \in Nat PROVE h[k + 1] \in Nat
      OBVIOUS
    <3>1. PICK m \in Nat : m = h[k]
      OBVIOUS
    <3>2. m \div 256 \in Nat
      OBVIOUS
    <3> QED
      BY <1>8, <3>1, <3>2
  <2> HIDE DEF S
  <2>3. Nat \subseteq S
    BY <2>1, <2>2, Induction
  <2> QED
    BY <2>3 DEF S
<1>10. h \in [Nat -> Nat]
  BY <1>7, <1>9 DEF Shifting
<1> QED
  BY <1>6, <1>8, <1>10

\* A sequence of bytes by its elements.
LEMMA IsBytes ==
  ASSUME NEW n \in Nat, NEW s, s \in [1..n -> Byte]
  PROVE  s \in Seq(Byte) /\ Len(s) = n
  OBVIOUS

\* dm_udsc_service_request_build: the bytes of a number, the highest first.
LEMMA BigEndianIs ==
  ASSUME NEW n \in Nat, NEW size \in Nat
  PROVE  /\ BigEndian(n, size) \in Seq(Byte) /\ Len(BigEndian(n, size)) = size
         /\ \A i \in 1..size : BigEndian(n, size)[i] = Shifted(n)[size - i] % 256
<1>1. ASSUME NEW i \in 1..size PROVE Shifted(n)[size - i] % 256 \in Byte
  <2>1. size - i \in Nat
    OBVIOUS
  <2>2. PICK m \in Nat : m = Shifted(n)[size - i]
    <3>1. \A k \in Nat : Shifted(n)[k] \in Nat
      BY ShiftedIs
    <3> QED
      BY <2>1, <3>1
  <2>3. m % 256 \in 0..255
    OBVIOUS
  <2> QED
    BY <2>2, <2>3 DEF Byte
<1>2. BigEndian(n, size) \in [1..size -> Byte]
  BY <1>1 DEF BigEndian
<1>3. \A i \in 1..size : BigEndian(n, size)[i] = Shifted(n)[size - i] % 256
  BY DEF BigEndian
<1> QED
  BY <1>2, <1>3, IsBytes

\* They are as many bytes as asked for.
LEMMA BigEndianBytes ==
  ASSUME NEW n \in Nat, NEW size \in Nat
  PROVE  BigEndian(n, size) \in Seq(Byte) /\ Len(BigEndian(n, size)) = size
  BY BigEndianIs

\* Division with remainder.
LEMMA DivMod ==
  ASSUME NEW v \in Int, NEW w \in Int, w = v \div 256, NEW r \in Int, r = v % 256
  PROVE  v = 256 * w + r
  OBVIOUS

\* h is the number made of the first bytes behind p.
Reading(h, d, p, size) ==
  h = [k \in 0..size |-> IF k = 0 THEN 0 ELSE 256 * h[k - 1] + d[p + k]]

\* An ECU that reads a number reads the one that was written.
LEMMA NumberAtIs ==
  ASSUME NEW d, NEW p \in Nat, NEW size \in Nat, NEW n \in Nat,
         \A i \in 1..size : d[p + i] = Shifted(n)[size - i] % 256
  PROVE  IsNumber(d, p, size, n)
<1> SUFFICES ASSUME Shifted(n)[size] = 0
             PROVE  NumberAt(d, p, size) = n
  BY DEF IsNumber
<1> DEFINE f == [k \in 0..size |-> Shifted(n)[size - k]]
           h == CHOOSE g : Reading(g, d, p, size)
<1>1. NumberAt(d, p, size) = h[size]
  BY DEF NumberAt, Reading
<1>2. ASSUME NEW k \in 0..size, k # 0
      PROVE  Shifted(n)[size - k] = 256 * Shifted(n)[size - (k - 1)] + d[p + k]
  <2>1. PICK j \in Nat : j = size - k
    OBVIOUS
  <2>2. j + 1 = size - (k - 1) /\ k \in 1..size
    BY <1>2, <2>1
  <2>3. d[p + k] = Shifted(n)[j] % 256
    BY <2>1, <2>2
  <2>4. Shifted(n)[j + 1] = Shifted(n)[j] \div 256
    BY ShiftedIs
  <2>5. PICK v \in Nat : v = Shifted(n)[j]
    BY ShiftedIs
  <2>6. PICK w \in Nat : w = v \div 256
    OBVIOUS
  <2>7. PICK r \in Nat : r = v % 256
    OBVIOUS
  <2>8. v = 256 * w + r
    BY <2>6, <2>7, DivMod
  <2> QED
    BY <2>1, <2>2, <2>3, <2>4, <2>5, <2>6, <2>7, <2>8
<1>3. Reading(f, d, p, size)
  <2>1. ASSUME NEW k \in 0..size
        PROVE  f[k] = IF k = 0 THEN 0 ELSE 256 * f[k - 1] + d[p + k]
    <3>1. CASE k = 0
      <4>1. size - 0 = size
        OBVIOUS
      <4> QED
        BY <3>1, <4>1
    <3>2. CASE k # 0
      <4>1. k - 1 \in 0..size
        BY <3>2
      <4>2. f[k - 1] = Shifted(n)[size - (k - 1)] /\ f[k] = Shifted(n)[size - k]
        BY <4>1
      <4> QED
        BY <1>2, <3>2, <4>2
    <3> QED
      BY <3>1, <3>2
  <2>2. f = [k \in 0..size |-> f[k]]
    OBVIOUS
  <2> HIDE DEF f
  <2>3. [k \in 0..size |-> f[k]]
          = [k \in 0..size |-> IF k = 0 THEN 0 ELSE 256 * f[k - 1] + d[p + k]]
    BY <2>1
  <2> QED
    BY <2>2, <2>3 DEF Reading
<1>4. Reading(h, d, p, size)
  BY <1>3
<1> HIDE DEF h, f
<1>5. \A k \in 0..size : h[k] = IF k = 0 THEN 0 ELSE 256 * h[k - 1] + d[p + k]
  BY <1>4 DEF Reading
<1> DEFINE S == {k \in Nat : k <= size => h[k] = Shifted(n)[size - k]}
<1>6. 0 \in S
  <2>1. size - 0 = size /\ 0 \in 0..size
    OBVIOUS
  <2> QED
    BY <1>5, <2>1
<1>7. \A k \in Nat : k \in S => k + 1 \in S
  <2> SUFFICES ASSUME NEW k \in Nat, k + 1 <= size, h[k] = Shifted(n)[size - k]
               PROVE  h[k + 1] = Shifted(n)[size - (k + 1)]
    OBVIOUS
  <2>1. k + 1 \in 0..size /\ k + 1 # 0 /\ (k + 1) - 1 = k
    OBVIOUS
  <2>2. h[k + 1] = 256 * h[k] + d[p + (k + 1)]
    BY <1>5, <2>1
  <2>3. Shifted(n)[size - (k + 1)] = 256 * Shifted(n)[size - k] + d[p + (k + 1)]
    BY <1>2, <2>1
  <2> QED
    BY <2>2, <2>3
<1> HIDE DEF S
<1>8. Nat \subseteq S
  BY <1>6, <1>7, Induction
<1>9. size - size = 0 /\ Shifted(n)[0] = n
  BY ShiftedIs
<1> QED
  BY <1>1, <1>8, <1>9 DEF S

\* A number of 16 bits is read from two bytes.
LEMMA WordIs ==
  ASSUME NEW n \in Word, NEW d, NEW p \in Nat,
         \A i \in 1..2 : d[p + i] = Shifted(n)[2 - i] % 256
  PROVE  NumberAt(d, p, 2) = n
<1>1. n \in Nat /\ n \div 256 < 256
  BY DEF Word
<1>2. Shifted(n)[0] = n /\ \A k \in Nat : Shifted(n)[k + 1] = Shifted(n)[k] \div 256
  <2>1. n \in Nat
    BY <1>1
  <2> QED
    BY <2>1, ShiftedIs, Zenon
<1>3. Shifted(n)[0 + 1] = n \div 256
  BY <1>2
<1>4. Shifted(n)[1 + 1] = (n \div 256) \div 256
  BY <1>2, <1>3
<1>5. (n \div 256) \div 256 = 0
  BY <1>1
<1>6. Shifted(n)[2] = 0
  BY <1>4, <1>5
<1>7. IsNumber(d, p, 2, n)
  BY <1>1, NumberAtIs
<1> QED
  BY <1>6, <1>7 DEF IsNumber

-----------------------------------------------------------------------------
(***************************************************************************)
(* Requests and what an ECU reads in them                                  *)
(***************************************************************************)

\* s is in d, behind its first p bytes.
At(d, p, s) == p + Len(s) <= Len(d) /\ \A i \in 1..Len(s) : d[p + i] = s[i]

\* The length of a sequence behind another.
LEMMA ConcatLen ==
  ASSUME NEW s \in Seq(Byte), NEW t \in Seq(Byte)
  PROVE  s \o t \in Seq(Byte) /\ Len(s \o t) = Len(s) + Len(t)
  BY ConcatOK

\* What is in the first part is at the same place in the whole.
LEMMA AtAppend ==
  ASSUME NEW u \in Seq(Byte), NEW v \in Seq(Byte), NEW s \in Seq(Byte), NEW p \in Nat,
         At(u, p, s)
  PROVE  At(u \o v, p, s)
<1>1. Len(u \o v) = Len(u) + Len(v) /\ \A i \in 1..Len(u) : (u \o v)[i] = u[i]
  BY ConcatOK
<1>2. Len(u) \in Nat /\ Len(v) \in Nat /\ Len(s) \in Nat
  OBVIOUS
<1>3. \A i \in 1..Len(s) : p + i \in 1..Len(u)
  BY <1>2 DEF At
<1> HIDE DEF Byte
<1> QED
  BY <1>1, <1>2, <1>3 DEF At

\* What is in the second part is behind the first.
LEMMA AtBehind ==
  ASSUME NEW u \in Seq(Byte), NEW v \in Seq(Byte), NEW s \in Seq(Byte), NEW p \in Nat,
         At(v, p, s)
  PROVE  At(u \o v, Len(u) + p, s)
<1>1. /\ Len(u \o v) = Len(u) + Len(v)
      /\ \A i \in (Len(u) + 1)..(Len(u) + Len(v)) : (u \o v)[i] = v[i - Len(u)]
  BY ConcatOK
<1>2. Len(u) \in Nat /\ Len(v) \in Nat /\ Len(s) \in Nat
  OBVIOUS
<1>3. ASSUME NEW i \in 1..Len(s)
      PROVE  (u \o v)[(Len(u) + p) + i] = s[i]
  <2>1. (Len(u) + p) + i \in (Len(u) + 1)..(Len(u) + Len(v))
        /\ ((Len(u) + p) + i) - Len(u) = p + i
    BY <1>2 DEF At
  <2> QED
    BY <1>1, <2>1 DEF At
<1> QED
  BY <1>1, <1>2, <1>3 DEF At

\* A sequence is in itself.
LEMMA AtAll ==
  ASSUME NEW s \in Seq(Byte)
  PROVE  At(s, 0, s)
  BY DEF At

\* What is in a sequence is a part of it.
LEMMA AtIs ==
  ASSUME NEW d \in Seq(Byte), NEW s \in Seq(Byte), NEW p \in Nat, At(d, p, s)
  PROVE  SubSeq(d, p + 1, p + Len(s)) = s
<1>1. Len(d) \in Nat /\ Len(s) \in Nat /\ p + Len(s) <= Len(d)
  BY DEF At
<1> DEFINE t == SubSeq(d, p + 1, p + Len(s))
<1>2. /\ t \in Seq(Byte) /\ Len(t) = Len(s)
      /\ \A i \in 1..Len(s) : t[i] = d[p + i]
  BY <1>1
<1>3. \A i \in 1..Len(s) : t[i] = s[i]
  BY <1>2 DEF At
<1> HIDE DEF t
<1>4. t = s
  BY <1>2, <1>3, SameElements
<1> QED
  BY <1>4 DEF t

\* A number is read where its bytes are.
LEMMA NumberIsAt ==
  ASSUME NEW d, NEW p \in Nat, NEW size \in Nat, NEW n \in Nat,
         At(d, p, BigEndian(n, size))
  PROVE  IsNumber(d, p, size, n)
<1> DEFINE b == BigEndian(n, size)
<1>1. Len(b) = size
  BY BigEndianIs
<1>2. \A i \in 1..size : b[i] = Shifted(n)[size - i] % 256
  BY BigEndianIs
<1>3. \A i \in 1..Len(b) : d[p + i] = b[i]
  BY DEF At
<1> HIDE DEF b
<1>4. \A i \in 1..size : d[p + i] = Shifted(n)[size - i] % 256
  BY <1>1, <1>2, <1>3
<1> QED
  BY <1>4, NumberAtIs

\* So is one of 16 bits.
LEMMA WordIsAt ==
  ASSUME NEW d, NEW p \in Nat, NEW n \in Word, At(d, p, BigEndian(n, 2))
  PROVE  NumberAt(d, p, 2) = n
<1>1. n \in Nat
  BY DEF Word
<1> DEFINE b == BigEndian(n, 2)
<1>2. Len(b) = 2
  BY <1>1, BigEndianIs
<1>3. \A i \in 1..2 : b[i] = Shifted(n)[2 - i] % 256
  BY DEF BigEndian
<1>4. \A i \in 1..Len(b) : d[p + i] = b[i]
  BY DEF At
<1> HIDE DEF b
<1>5. \A i \in 1..2 : d[p + i] = Shifted(n)[2 - i] % 256
  BY <1>2, <1>3, <1>4
<1> QED
  BY <1>5, WordIs

\* The bytes of a download and where they are.
LEMMA DownloadIs ==
  ASSUME NEW rd, DownloadOK(rd)
  PROVE  LET addr == rd.addressAndLengthFormatIdentifier \div 16
             size == rd.addressAndLengthFormatIdentifier % 16
         IN  /\ Download(rd) \in Seq(Byte) /\ addr \in Nat /\ size \in Nat
             /\ Len(Download(rd)) = (2 + addr) + size
             /\ Download(rd)[1] = rd.dataFormatIdentifier
             /\ Download(rd)[2] = rd.addressAndLengthFormatIdentifier
             /\ At(Download(rd), 2, BigEndian(rd.memoryAddress, addr))
             /\ At(Download(rd), 2 + addr, BigEndian(rd.memorySize, size))
<1>1. PICK x \in Byte, y \in Byte :
        x = rd.dataFormatIdentifier /\ y = rd.addressAndLengthFormatIdentifier
  BY DEF DownloadOK
<1>2. PICK m \in Nat, n \in Nat : m = rd.memoryAddress /\ n = rd.memorySize
  BY DEF DownloadOK, DWord
<1>3. PICK addr \in Nat : addr = rd.addressAndLengthFormatIdentifier \div 16
  BY <1>1 DEF Byte
<1>4. PICK size \in Nat : size = rd.addressAndLengthFormatIdentifier % 16
  BY <1>1 DEF Byte
<1> DEFINE h == <<x, y>>
           a == BigEndian(m, addr)
           s == BigEndian(n, size)
<1>5. a \in Seq(Byte) /\ Len(a) = addr /\ s \in Seq(Byte) /\ Len(s) = size
  BY BigEndianIs
<1>6. h \in Seq(Byte) /\ Len(h) = 2 /\ h[1] = x /\ h[2] = y
  OBVIOUS
<1>7. Download(rd) = (h \o a) \o s
  BY <1>1, <1>2, <1>3, <1>4 DEF Download
<1> HIDE DEF h, a, s
<1>8. /\ h \o a \in Seq(Byte) /\ Len(h \o a) = 2 + addr
      /\ (h \o a) \o s \in Seq(Byte) /\ Len((h \o a) \o s) = (2 + addr) + size
  <2>1. h \o a \in Seq(Byte) /\ Len(h \o a) = 2 + addr
    BY <1>5, <1>6, ConcatLen
  <2>2. (h \o a) \o s \in Seq(Byte) /\ Len((h \o a) \o s) = (2 + addr) + size
    BY <1>5, <2>1, ConcatLen
  <2> QED
    BY <2>1, <2>2
<1>9. At((h \o a) \o s, 0, h)
  BY <1>5, <1>6, <1>8, AtAll, AtAppend
<1>10. At((h \o a) \o s, 2, a)
  <2>1. At(h \o a, Len(h) + 0, a)
    BY <1>5, <1>6, AtAll, AtBehind
  <2>2. Len(h) + 0 = 2
    BY <1>6
  <2> QED
    BY <1>5, <1>8, <2>1, <2>2, AtAppend
<1>11. At((h \o a) \o s, 2 + addr, s)
  <2>1. At((h \o a) \o s, Len(h \o a) + 0, s)
    BY <1>5, <1>8, AtAll, AtBehind
  <2>2. Len(h \o a) + 0 = 2 + addr
    BY <1>8
  <2> QED
    BY <2>1, <2>2
<1>12. ((h \o a) \o s)[1] = x /\ ((h \o a) \o s)[2] = y
  <2>1. PICK e : e = (h \o a) \o s
    OBVIOUS
  <2>2. \A i \in 1..2 : e[0 + i] = h[i]
    BY <1>6, <1>9, <2>1 DEF At
  <2>3. e[1] = h[1] /\ e[2] = h[2]
    BY <2>2
  <2> QED
    BY <1>6, <2>1, <2>3
<1> QED
  BY <1>1, <1>2, <1>3, <1>4, <1>7, <1>8, <1>10, <1>11, <1>12 DEF a, s

\* The bytes of a file transfer and where they are.
LEMMA FileTransferIs ==
  ASSUME NEW rft, FileTransferOK(rft)
  PROVE  LET name == Len(rft.filePathAndName)
             size == rft.fileSizeParameterLength
         IN  /\ FileTransfer(rft) \in Seq(Byte) /\ name \in Nat /\ size \in Nat
             /\ Len(FileTransfer(rft)) = (5 + name) + 2 * size
             /\ FileTransfer(rft)[1] = rft.modeOfOperation
             /\ At(FileTransfer(rft), 1, BigEndian(rft.filePathAndNameLength, 2))
             /\ At(FileTransfer(rft), 3, rft.filePathAndName)
             /\ FileTransfer(rft)[4 + name] = rft.dataFormatIdentifier
             /\ FileTransfer(rft)[5 + name] = rft.fileSizeParameterLength
             /\ At(FileTransfer(rft), 5 + name, BigEndian(rft.fileSizeUnCompressed, size))
             /\ At(FileTransfer(rft), (5 + name) + size,
                   BigEndian(rft.fileSizeCompressed, size))
<1>1. PICK x \in Byte, y \in Byte : x = rft.modeOfOperation /\ y = rft.dataFormatIdentifier
  BY DEF FileTransferOK
<1>2. PICK l \in Nat, m \in Nat, n \in Nat :
        /\ l = rft.filePathAndNameLength
        /\ m = rft.fileSizeUnCompressed /\ n = rft.fileSizeCompressed
  BY DEF FileTransferOK, Word, DWord
<1>3. PICK size \in Nat : size = rft.fileSizeParameterLength /\ size \in Byte
  BY DEF FileTransferOK, Byte
<1>4. PICK f \in Seq(Byte) : f = rft.filePathAndName
  BY DEF FileTransferOK
<1>5. PICK name \in Nat : name = Len(f)
  OBVIOUS
<1> DEFINE h == <<x>>
           w == BigEndian(l, 2)
           t == <<y, size>>
           u == BigEndian(m, size)
           v == BigEndian(n, size)
<1>6. /\ w \in Seq(Byte) /\ Len(w) = 2
      /\ u \in Seq(Byte) /\ Len(u) = size /\ v \in Seq(Byte) /\ Len(v) = size
  <2>1. w \in Seq(Byte) /\ Len(w) = 2
    BY BigEndianBytes
  <2>2. u \in Seq(Byte) /\ Len(u) = size
    BY BigEndianBytes
  <2>3. v \in Seq(Byte) /\ Len(v) = size
    BY BigEndianBytes
  <2> QED
    BY <2>1, <2>2, <2>3
<1>7. /\ h \in Seq(Byte) /\ Len(h) = 1 /\ h[1] = x
      /\ t \in Seq(Byte) /\ Len(t) = 2 /\ t[1] = y /\ t[2] = size
  BY <1>3
<1>8. FileTransfer(rft) = ((((h \o w) \o f) \o t) \o u) \o v
  BY <1>1, <1>2, <1>3, <1>4 DEF FileTransfer
<1> HIDE DEF h, w, t, u, v
<1>9. PICK a : a = h \o w
  OBVIOUS
<1>10. a \in Seq(Byte) /\ Len(a) = 3
  <2>1. a \in Seq(Byte) /\ Len(a) = Len(h) + Len(w)
    BY <1>6, <1>7, <1>9, ConcatLen
  <2> QED
    BY <1>6, <1>7, <2>1
<1>11. PICK b : b = a \o f
  OBVIOUS
<1>12. b \in Seq(Byte) /\ Len(b) = 3 + name
  BY <1>5, <1>10, <1>11, ConcatLen
<1>13. PICK c : c = b \o t
  OBVIOUS
<1>14. c \in Seq(Byte) /\ Len(c) = 5 + name
  <2>1. c \in Seq(Byte) /\ Len(c) = (3 + name) + 2
    BY <1>7, <1>12, <1>13, ConcatLen
  <2> QED
    BY <2>1
<1>15. PICK d : d = c \o u
  OBVIOUS
<1>16. d \in Seq(Byte) /\ Len(d) = (5 + name) + size
  BY <1>6, <1>14, <1>15, ConcatLen
<1>17. PICK e : e = d \o v
  OBVIOUS
<1>18. e \in Seq(Byte) /\ Len(e) = (5 + name) + 2 * size
  <2>1. e \in Seq(Byte) /\ Len(e) = ((5 + name) + size) + size
    BY <1>6, <1>16, <1>17, ConcatLen
  <2> QED
    BY <2>1
<1>19. FileTransfer(rft) = e
  BY <1>8, <1>9, <1>11, <1>13, <1>15, <1>17
\* What is in a part stays at its place in the whole.
<1>20. ASSUME NEW s \in Seq(Byte), NEW p \in Nat, At(c, p, s)
       PROVE  At(e, p, s)
  <2>1. At(d, p, s)
    BY <1>6, <1>14, <1>15, <1>20, AtAppend
  <2> QED
    BY <1>6, <1>16, <1>17, <2>1, AtAppend
<1>21. ASSUME NEW s \in Seq(Byte), NEW p \in Nat, At(a, p, s)
       PROVE  At(e, p, s)
  <2>1. At(b, p, s)
    BY <1>10, <1>11, <1>21, AtAppend
  <2>2. At(c, p, s)
    BY <1>7, <1>12, <1>13, <2>1, AtAppend
  <2> QED
    BY <1>20, <2>2
<1>22. At(e, 0, h)
  <2>1. At(a, 0, h)
    BY <1>6, <1>7, <1>9, AtAll, AtAppend
  <2> QED
    BY <1>7, <1>21, <2>1
<1>23. At(e, 1, w)
  <2>1. At(a, Len(h) + 0, w)
    BY <1>6, <1>7, <1>9, AtAll, AtBehind
  <2>2. Len(h) + 0 = 1
    BY <1>7
  <2> QED
    BY <1>6, <1>21, <2>1, <2>2
<1>24. At(e, 3, f)
  <2>1. At(b, Len(a) + 0, f)
    BY <1>10, <1>11, AtAll, AtBehind
  <2>2. Len(a) + 0 = 3
    BY <1>10
  <2>3. At(c, 3, f)
    BY <1>7, <1>12, <1>13, <2>1, <2>2, AtAppend
  <2> QED
    BY <1>20, <2>3
<1>25. At(e, 3 + name, t)
  <2>1. At(c, Len(b) + 0, t)
    BY <1>7, <1>12, <1>13, AtAll, AtBehind
  <2>2. Len(b) + 0 = 3 + name
    BY <1>12
  <2> QED
    BY <1>7, <1>20, <2>1, <2>2
<1>26. At(e, 5 + name, u)
  <2>1. At(d, Len(c) + 0, u)
    BY <1>6, <1>14, <1>15, AtAll, AtBehind
  <2>2. Len(c) + 0 = 5 + name
    BY <1>14
  <2> QED
    BY <1>6, <1>16, <1>17, <2>1, <2>2, AtAppend
<1>27. At(e, (5 + name) + size, v)
  <2>1. At(e, Len(d) + 0, v)
    BY <1>6, <1>16, <1>17, AtAll, AtBehind
  <2>2. Len(d) + 0 = (5 + name) + size
    BY <1>16
  <2> QED
    BY <2>1, <2>2
<1>28. e[1] = x
  <2>1. \A i \in 1..1 : e[0 + i] = h[i]
    BY <1>7, <1>22 DEF At
  <2>2. 0 + 1 = 1 /\ 1 \in 1..1
    OBVIOUS
  <2> QED
    BY <1>7, <2>1, <2>2
<1>29. e[4 + name] = y /\ e[5 + name] = size
  <2>1. \A i \in 1..2 : e[(3 + name) + i] = t[i]
    BY <1>7, <1>25 DEF At
  <2>2. (3 + name) + 1 = 4 + name /\ (3 + name) + 2 = 5 + name /\ 1 \in 1..2 /\ 2 \in 1..2
    OBVIOUS
  <2> QED
    BY <1>7, <2>1, <2>2
<1> QED
  BY <1>1, <1>2, <1>3, <1>4, <1>5, <1>18, <1>19, <1>23, <1>24, <1>26, <1>27, <1>28, <1>29
  DEF w, u, v

-----------------------------------------------------------------------------
\* The bytes of a request before its parameters.
RequestHead(i) == <<i.sid>> \o (IF HaveSub(i.sid) THEN <<SubByte(i)>> ELSE <<>>)

\* dm_udsc_service_request_build: the service and its sub-function.
LEMMA HeadIs ==
  ASSUME NEW c, ConfigOK(c), NEW i, Configured(i, c)
  PROVE  LET h == RequestHead(i)
         IN  /\ h \in Seq(Byte) /\ Len(h) = HeadLen(c.sid) /\ h[1] = c.sid
             /\ HaveSub(c.sid) => /\ h[2] % 128 = c.sub % 128
                                  /\ (h[2] >= 128) = (c.issuppress # 0 \/ c.sub >= 128)
<1>1. c.sid \in Byte /\ c.sub \in Byte
  BY DEF ConfigOK
<1>2. i.sid = c.sid /\ i.sub = c.sub /\ (i.issuppress # 0) = (c.issuppress # 0)
  BY DEF Configured, Plain
<1>3. PICK b : b = SubByte(i)
  OBVIOUS
<1>4. b \in Byte /\ b % 128 = c.sub % 128
      /\ (b >= 128) = (c.issuppress # 0 \/ c.sub >= 128)
  <2>1. PICK n \in 0..255 : n = c.sub
    BY <1>1 DEF Byte
  <2>2. CASE i.issuppress # 0 /\ n < 128
    <3>1. b = n + 128
      BY <1>2, <1>3, <2>1, <2>2 DEF SubByte
    <3>2. b \in 0..255 /\ b % 128 = n % 128 /\ b >= 128
      BY <2>2, <3>1
    <3> QED
      BY <1>2, <2>1, <2>2, <3>2 DEF Byte
  <2>3. CASE ~(i.issuppress # 0 /\ n < 128)
    <3>1. b = n
      BY <1>2, <1>3, <2>1, <2>3 DEF SubByte
    <3>2. (n >= 128) = (c.issuppress # 0 \/ n >= 128)
      BY <1>2, <2>3
    <3> QED
      BY <2>1, <3>1, <3>2 DEF Byte
  <2> QED
    BY <2>2, <2>3
<1>5. CASE HaveSub(c.sid)
  <2>1. RequestHead(i) = <<c.sid>> \o <<b>>
    BY <1>2, <1>3, <1>5 DEF RequestHead
  <2>2. <<c.sid>> \o <<b>> = <<c.sid, b>>
    <3> DEFINE u == <<c.sid>>
               v == <<b>>
               w == <<c.sid, b>>
    <3>1. /\ u \in Seq(Byte) /\ Len(u) = 1 /\ u[1] = c.sid
          /\ v \in Seq(Byte) /\ Len(v) = 1 /\ v[1] = b
          /\ w \in Seq(Byte) /\ Len(w) = 2 /\ w[1] = c.sid /\ w[2] = b
      BY <1>1, <1>4
    <3> HIDE DEF u, v, w
    <3>2. /\ u \o v \in Seq(Byte) /\ Len(u \o v) = 2
          /\ (u \o v)[1] = c.sid /\ (u \o v)[2] = b
      <4>1. PICK t : t = u \o v
        OBVIOUS
      <4>2. /\ t \in Seq(Byte) /\ Len(t) = Len(u) + Len(v)
            /\ \A k \in 1..Len(u) : t[k] = u[k]
            /\ \A k \in (Len(u) + 1)..(Len(u) + Len(v)) : t[k] = v[k - Len(u)]
        BY <3>1, <4>1, ConcatOK
      <4>3. Len(t) = 2 /\ t[1] = c.sid /\ t[2] = b
        BY <3>1, <4>2
      <4> QED
        BY <4>1, <4>2, <4>3
    <3>3. \A k \in 1..Len(u \o v) : (u \o v)[k] = w[k]
      BY <3>1, <3>2
    <3>4. u \o v = w
      BY <3>1, <3>2, <3>3, SameElements
    <3> QED
      BY <3>4 DEF u, v, w
  <2> QED
    BY <1>1, <1>4, <1>5, <2>1, <2>2 DEF HeadLen
<1>6. CASE ~HaveSub(c.sid)
  <2>1. RequestHead(i) = <<c.sid>>
    BY <1>1, <1>2, <1>6 DEF RequestHead
  <2> QED
    BY <1>1, <1>6, <2>1 DEF HeadLen
<1> QED
  BY <1>5, <1>6

\* The parameters of a service have the length they should.
LEMMA ParametersIs ==
  ASSUME NEW c, ConfigOK(c), NEW i, Configured(i, c)
  PROVE  Parameters(i) \in Seq(Byte) /\ Len(Parameters(i)) = FixedLen(c)
<1>1. i.sid = c.sid /\ i.did = c.did
  BY DEF Configured, Plain
<1>2. CASE c.sid \in {RDBI, WDBI, RC}
  <2>1. c.did \in Nat
    BY DEF ConfigOK, Word
  <2>2. Parameters(i) = BigEndian(c.did, 2) /\ FixedLen(c) = 2
    BY <1>1, <1>2 DEF Parameters, FixedLen, RDBI, WDBI, RC, RD, RFT
  <2>3. \A z \in Nat : BigEndian(c.did, z) \in Seq(Byte) /\ Len(BigEndian(c.did, z)) = z
    BY <2>1, BigEndianIs
  <2> QED
    BY <2>2, <2>3
<1>3. CASE c.sid = RD
  <2>1. Parameters(i) = Download(c.service_34_rd)
    BY <1>1, <1>3 DEF Parameters, Configured, RDBI, WDBI, RC, RD, RFT
  <2>2. DownloadOK(c.service_34_rd)
    BY DEF ConfigOK
  <2>3. FixedLen(c) = (2 + c.service_34_rd.addressAndLengthFormatIdentifier \div 16)
                        + (c.service_34_rd.addressAndLengthFormatIdentifier % 16)
    BY <1>3 DEF FixedLen, RDBI, WDBI, RC, RD, RFT
  <2> QED
    BY <2>1, <2>2, <2>3, DownloadIs
<1>4. CASE c.sid = RFT
  <2>1. Parameters(i) = FileTransfer(c.service_38_rft)
    BY <1>1, <1>4 DEF Parameters, Configured, RDBI, WDBI, RC, RD, RFT
  <2>2. FileTransferOK(c.service_38_rft)
    BY DEF ConfigOK
  <2>3. FixedLen(c) = 5 + Len(c.service_38_rft.filePathAndName)
                        + 2 * c.service_38_rft.fileSizeParameterLength
    BY <1>4 DEF FixedLen, RDBI, WDBI, RC, RD, RFT
  <2> QED
    BY <2>1, <2>2, <2>3, FileTransferIs
<1>5. CASE c.sid \notin {RDBI, WDBI, RC, RD, RFT}
  <2>1. Parameters(i) = <<>> /\ FixedLen(c) = 0
    BY <1>1, <1>5 DEF Parameters, FixedLen, RDBI, WDBI, RC, RD, RFT
  <2> QED
    BY <2>1
<1> QED
  BY <1>2, <1>3, <1>4, <1>5

\* dm_udsc_service_request_build: the bytes of the new request.
LEMMA BuildIs ==
  ASSUME NEW c, ConfigOK(c), NEW i, Configured(i, c),
         WellFormed(i.request_byte), WellFormed(i.variable_byte)
  PROVE  \E b : /\ RequestBuild(i) = [i EXCEPT !.request_byte = b]
                /\ WellFormed(b)
                /\ Content(b) =
                     (RequestHead(i) \o Parameters(i)) \o Content(i.variable_byte)
<1> DEFINE s == RequestHead(i) \o Parameters(i)
           a == ByteArrayClear(i.request_byte)
           f == AppendedEach(a, s)
           b == ByteArrayAppendArray(f, i.variable_byte)
<1>1. s \in Seq(Byte)
  BY HeadIs, ParametersIs, ConcatLen
<1>2. WellFormed(a) /\ Content(a) = <<>>
  BY ClearWellFormed
<1>3. RequestBuild(i) = [i EXCEPT !.request_byte = b]
  BY DEF RequestBuild, RequestHead
<1> HIDE DEF s, a
<1>4. WellFormed(f) /\ Content(f) = <<>> \o s
  BY <1>1, <1>2, AppendedEachIs
<1>5. <<>> \o s = s
  BY <1>1
<1> HIDE DEF f
<1>6. WellFormed(b) /\ Content(b) = s \o Content(i.variable_byte)
  BY <1>4, <1>5, AppendArrayWellFormed
<1> QED
  BY <1>3, <1>6 DEF s

\* What is in a part is in the whole.
LEMMA AtAt ==
  ASSUME NEW d \in Seq(Byte), NEW s \in Seq(Byte), NEW t \in Seq(Byte),
         NEW q \in Nat, NEW p \in Nat, At(d, q, s), At(s, p, t)
  PROVE  At(d, q + p, t)
<1>1. /\ q + Len(s) <= Len(d) /\ \A i \in 1..Len(s) : d[q + i] = s[i]
      /\ p + Len(t) <= Len(s) /\ \A i \in 1..Len(t) : s[p + i] = t[i]
  BY DEF At
<1>2. Len(d) \in Nat /\ Len(s) \in Nat /\ Len(t) \in Nat
  OBVIOUS
<1>3. (q + p) + Len(t) <= Len(d)
  BY <1>1, <1>2
<1>4. ASSUME NEW i \in 1..Len(t)
      PROVE  d[(q + p) + i] = t[i]
  <2>1. PICK j \in Nat : j = p + i
    OBVIOUS
  <2>2. j \in 1..Len(s) /\ (q + p) + i = q + j
    BY <1>1, <1>2, <2>1
  <2>3. d[q + j] = s[j]
    BY <1>1, <2>2
  <2>4. s[j] = t[i]
    BY <1>1, <2>1
  <2> QED
    BY <2>2, <2>3, <2>4
<1> QED
  BY <1>3, <1>4 DEF At

\* A number in a part is read in the whole.
LEMMA NumberWithin ==
  ASSUME NEW d \in Seq(Byte), NEW s \in Seq(Byte), NEW q \in Nat, NEW p \in Nat,
         NEW size \in Nat, NEW n \in Nat, At(d, q, s), At(s, p, BigEndian(n, size))
  PROVE  IsNumber(d, q + p, size, n)
<1>1. BigEndian(n, size) \in Seq(Byte)
  BY BigEndianIs
<1>2. At(d, q + p, BigEndian(n, size))
  BY <1>1, AtAt
<1>3. q + p \in Nat
  OBVIOUS
<1> QED
  BY <1>2, <1>3, NumberIsAt

\* What an ECU reads of the parameters, d being the request.
LEMMA DownloadRead ==
  ASSUME NEW rd, DownloadOK(rd), NEW d \in Seq(Byte), NEW addr \in Nat, NEW size \in Nat,
         addr = rd.addressAndLengthFormatIdentifier \div 16,
         size = rd.addressAndLengthFormatIdentifier % 16,
         At(d, 1, Download(rd))
  PROVE  /\ d[2] = rd.dataFormatIdentifier
         /\ d[3] = rd.addressAndLengthFormatIdentifier
         /\ IsNumber(d, 3, addr, rd.memoryAddress)
         /\ IsNumber(d, 3 + addr, size, rd.memorySize)
<1>1. PICK s : s = Download(rd)
  OBVIOUS
<1>2. /\ s \in Seq(Byte) /\ Len(s) = (2 + addr) + size
      /\ s[1] = rd.dataFormatIdentifier
      /\ s[2] = rd.addressAndLengthFormatIdentifier
      /\ At(s, 2, BigEndian(rd.memoryAddress, addr))
      /\ At(s, 2 + addr, BigEndian(rd.memorySize, size))
  BY <1>1, DownloadIs
<1>3. \A i \in 1..Len(s) : d[1 + i] = s[i]
  BY <1>1 DEF At
<1>4. d[2] = s[1] /\ d[3] = s[2]
  <2>1. PICK n \in Nat : n = (2 + addr) + size /\ n >= 2
    OBVIOUS
  <2>2. Len(s) = n
    BY <1>2, <2>1, Zenon
  <2>3. 1 \in 1..n /\ 2 \in 1..n
    BY <2>1
  <2>4. d[1 + 1] = s[1] /\ d[1 + 2] = s[2]
    BY <1>3, <2>2, <2>3, Zenon
  <2> QED
    BY <2>4
<1>5. rd.memoryAddress \in Nat /\ rd.memorySize \in Nat
  BY DEF DownloadOK, DWord
<1>6. IsNumber(d, 1 + 2, addr, rd.memoryAddress)
  BY <1>1, <1>2, <1>5, NumberWithin
<1>7. IsNumber(d, 1 + (2 + addr), size, rd.memorySize)
  <2>1. 2 + addr \in Nat
    OBVIOUS
  <2> QED
    BY <1>1, <1>2, <1>5, <2>1, NumberWithin
<1>8. 1 + 2 = 3 /\ 1 + (2 + addr) = 3 + addr
  OBVIOUS
<1> QED
  BY <1>2, <1>4, <1>6, <1>7, <1>8

\* What is read of a file transfer.
FileTransferSays(d, rft, name, size) ==
  /\ d[2] = rft.modeOfOperation
  /\ NumberAt(d, 2, 2) = rft.filePathAndNameLength
  /\ SubSeq(d, 5, 4 + name) = rft.filePathAndName
  /\ d[5 + name] = rft.dataFormatIdentifier /\ d[6 + name] = size
  /\ IsNumber(d, 6 + name, size, rft.fileSizeUnCompressed)
  /\ IsNumber(d, (6 + name) + size, size, rft.fileSizeCompressed)

\* So for a file transfer.
LEMMA FileTransferRead ==
  ASSUME NEW rft, FileTransferOK(rft), NEW d \in Seq(Byte),
         NEW name \in Nat, NEW size \in Nat,
         name = Len(rft.filePathAndName), size = rft.fileSizeParameterLength,
         At(d, 1, FileTransfer(rft))
  PROVE  FileTransferSays(d, rft, name, size)
<1>1. PICK s : s = FileTransfer(rft)
  OBVIOUS
<1>2. /\ s \in Seq(Byte) /\ Len(s) = (5 + name) + 2 * size
      /\ s[1] = rft.modeOfOperation
      /\ At(s, 1, BigEndian(rft.filePathAndNameLength, 2))
      /\ At(s, 3, rft.filePathAndName)
      /\ s[4 + name] = rft.dataFormatIdentifier
      /\ s[5 + name] = size
      /\ At(s, 5 + name, BigEndian(rft.fileSizeUnCompressed, size))
      /\ At(s, (5 + name) + size, BigEndian(rft.fileSizeCompressed, size))
  BY <1>1, FileTransferIs
<1>3. /\ rft.filePathAndNameLength \in Word /\ rft.filePathAndNameLength \in Nat
      /\ rft.filePathAndName \in Seq(Byte)
      /\ rft.fileSizeUnCompressed \in Nat /\ rft.fileSizeCompressed \in Nat
  BY DEF FileTransferOK, Word, DWord
<1>4. \A i \in 1..Len(s) : d[1 + i] = s[i]
  BY <1>1 DEF At
<1>5. d[2] = s[1] /\ d[5 + name] = s[4 + name] /\ d[6 + name] = s[5 + name]
  <2>1. 1 \in 1..Len(s) /\ 4 + name \in 1..Len(s) /\ 5 + name \in 1..Len(s)
    <3>1. Len(s) = (5 + name) + 2 * size
      BY <1>2, Zenon
    <3>2. PICK z \in Nat : z = 2 * size
      OBVIOUS
    <3>3. Len(s) = (5 + name) + z
      BY <3>1, <3>2, Zenon
    <3> QED
      BY <3>3
  <2>2. /\ d[1 + 1] = s[1] /\ d[1 + (4 + name)] = s[4 + name]
        /\ d[1 + (5 + name)] = s[5 + name]
    BY <1>4, <2>1
  <2>3. 1 + 1 = 2 /\ 1 + (4 + name) = 5 + name /\ 1 + (5 + name) = 6 + name
    OBVIOUS
  <2> QED
    BY <2>2, <2>3
<1>6. NumberAt(d, 2, 2) = rft.filePathAndNameLength
  <2> DEFINE b == BigEndian(rft.filePathAndNameLength, 2)
  <2>1. \A z \in Nat : BigEndian(rft.filePathAndNameLength, z) \in Seq(Byte)
    BY <1>3, BigEndianIs
  <2>2. b \in Seq(Byte)
    BY <2>1
  <2>3. At(d, 1 + 1, b)
    BY <1>1, <1>2, <2>2, AtAt
  <2>4. 1 + 1 = 2
    OBVIOUS
  <2> QED
    BY <1>3, <2>3, <2>4, WordIsAt
<1>7. SubSeq(d, 5, 4 + name) = rft.filePathAndName
  <2>1. At(d, 1 + 3, rft.filePathAndName)
    BY <1>1, <1>2, <1>3, AtAt
  <2>2. 1 + 3 = 4 /\ 4 + 1 = 5
    OBVIOUS
  <2>3. SubSeq(d, 4 + 1, 4 + Len(rft.filePathAndName)) = rft.filePathAndName
    BY <1>3, <2>1, <2>2, AtIs
  <2> QED
    BY <2>2, <2>3
<1>8. IsNumber(d, 1 + (5 + name), size, rft.fileSizeUnCompressed)
  <2>1. 5 + name \in Nat
    OBVIOUS
  <2> QED
    BY <1>1, <1>2, <1>3, <2>1, NumberWithin
<1>9. IsNumber(d, 1 + ((5 + name) + size), size, rft.fileSizeCompressed)
  <2>1. (5 + name) + size \in Nat
    OBVIOUS
  <2> QED
    BY <1>1, <1>2, <1>3, <2>1, NumberWithin
<1>10. 1 + (5 + name) = 6 + name /\ 1 + ((5 + name) + size) = (6 + name) + size
  OBVIOUS
<1> QED
  BY <1>2, <1>5, <1>6, <1>7, <1>8, <1>9, <1>10 DEF FileTransferSays

-----------------------------------------------------------------------------
\* The lengths of the parts of a request.
LEMMA LengthsAre ==
  ASSUME NEW c, ConfigOK(c)
  PROVE  /\ HeadLen(c.sid) \in {1, 2} /\ FixedLen(c) \in Nat /\ c.variableByte.dlen \in Nat
         /\ RequestLen(c) \in Nat
         /\ RequestLen(c) = (HeadLen(c.sid) + FixedLen(c)) + c.variableByte.dlen
         /\ HaveSub(c.sid) => HeadLen(c.sid) = 2
         /\ c.sid \in {RDBI, WDBI, RC} => FixedLen(c) = 2
         /\ c.sid \in {RD, RFT} => HeadLen(c.sid) = 1
         /\ c.sid = SA => FixedLen(c) = 0
<1>1. HeadLen(c.sid) \in {1, 2} /\ (HaveSub(c.sid) => HeadLen(c.sid) = 2)
  BY DEF HeadLen
<1>2. c.sid \in {RD, RFT} => HeadLen(c.sid) = 1
  BY DEF HeadLen, HaveSub, RD, RFT, DSC, ER, SA, CC, CDTCS, ROE, LC, RDTCI, DDDI, RC
<1>3. c.sid = SA => FixedLen(c) = 0
  BY DEF FixedLen, RDBI, WDBI, RC, RD, RFT, SA
<1>4. c.sid \in {RDBI, WDBI, RC} => FixedLen(c) = 2
  BY DEF FixedLen, RDBI, WDBI, RC, RD, RFT
<1>5. c.variableByte.dlen \in Nat
  <2>1. WellFormed(c.variableByte)
    BY DEF ConfigOK
  <2>2. c.variableByte.size \in Nat /\ c.variableByte.dlen \in 0..c.variableByte.size
    BY <2>1 DEF WellFormed
  <2> QED
    BY <2>2
<1>6. FixedLen(c) \in Nat
  <2>1. CASE c.sid \in {RDBI, WDBI, RC}
    BY <1>4, <2>1
  <2>2. CASE c.sid = RD
    <3>1. DownloadOK(c.service_34_rd)
      BY DEF ConfigOK
    <3>2. PICK y \in Nat : y = c.service_34_rd.addressAndLengthFormatIdentifier
      BY <3>1 DEF DownloadOK, Byte
    <3>3. FixedLen(c) = (2 + y \div 16) + (y % 16)
      BY <2>2, <3>2 DEF FixedLen, RDBI, WDBI, RC, RD, RFT
    <3> QED
      BY <3>3
  <2>3. CASE c.sid = RFT
    <3>1. FileTransferOK(c.service_38_rft)
      BY DEF ConfigOK
    <3>2. PICK z \in Nat : z = c.service_38_rft.fileSizeParameterLength
      BY <3>1 DEF FileTransferOK
    <3>3. PICK l \in Nat : l = Len(c.service_38_rft.filePathAndName)
      BY <3>1 DEF FileTransferOK
    <3>4. FixedLen(c) = 5 + l + 2 * z
      BY <2>3, <3>2, <3>3 DEF FixedLen, RDBI, WDBI, RC, RD, RFT
    <3> QED
      BY <3>4
  <2>4. CASE c.sid \notin {RDBI, WDBI, RC, RD, RFT}
    <3>1. FixedLen(c) = 0
      BY <2>4 DEF FixedLen, RDBI, WDBI, RC, RD, RFT
    <3> QED
      BY <3>1
  <2> QED
    BY <2>1, <2>2, <2>3, <2>4
<1>7. RequestLen(c) = (HeadLen(c.sid) + FixedLen(c)) + c.variableByte.dlen
  BY DEF RequestLen
<1>8. RequestLen(c) \in Nat
  BY <1>1, <1>5, <1>6, <1>7
<1> QED
  BY <1>1, <1>2, <1>3, <1>4, <1>5, <1>6, <1>7, <1>8

\* The lengths of an address and of a size.
LEMMA FormatIs ==
  ASSUME NEW rd, DownloadOK(rd)
  PROVE  /\ rd.addressAndLengthFormatIdentifier \div 16 \in Nat
         /\ rd.addressAndLengthFormatIdentifier % 16 \in Nat
<1>1. PICK y \in Byte : y = rd.addressAndLengthFormatIdentifier
  BY DEF DownloadOK
<1>2. y \div 16 \in Nat /\ y % 16 \in Nat
  BY DEF Byte
<1> QED
  BY <1>1, <1>2

\* What dm_udsc_service_request_build makes of an item says what the user asked
\* for.
THEOREM RequestAsks ==
  ASSUME NEW c, ConfigOK(c), NEW i, Configured(i, c), NEW d,
         d = (RequestHead(i) \o Parameters(i)) \o Content(i.variable_byte)
  PROVE  d \in Seq(Byte) /\ Len(d) = RequestLen(c) /\ Asks(d, c)
<1>1. PICK h : h = RequestHead(i)
  OBVIOUS
<1>2. PICK s : s = Parameters(i)
  OBVIOUS
<1>3. PICK v : v = Content(c.variableByte)
  OBVIOUS
<1>4. PICK p \in {1, 2} : p = HeadLen(c.sid)
  BY LengthsAre
<1>5. PICK f \in Nat : f = FixedLen(c)
  BY LengthsAre
<1>6. PICK n \in Nat : n = c.variableByte.dlen
  BY LengthsAre
<1>7. /\ h \in Seq(Byte) /\ Len(h) = p /\ h[1] = c.sid
      /\ HaveSub(c.sid) => /\ h[2] % 128 = c.sub % 128
                           /\ (h[2] >= 128) = (c.issuppress # 0 \/ c.sub >= 128)
  BY <1>1, <1>4, HeadIs
<1>8. s \in Seq(Byte) /\ Len(s) = f
  BY <1>2, <1>5, ParametersIs
<1>9. v \in Seq(Byte) /\ Len(v) = n
  <2>1. WellFormed(c.variableByte)
    BY DEF ConfigOK
  <2> QED
    BY <1>3, <1>6, <2>1, ContentOK
<1>10. d = (h \o s) \o v
  BY <1>1, <1>2, <1>3 DEF Configured
<1>11. PICK t : t = h \o s
  OBVIOUS
<1>12. t \in Seq(Byte) /\ Len(t) = p + f
  BY <1>7, <1>8, <1>11, ConcatLen
<1>13. d \in Seq(Byte) /\ Len(d) = (p + f) + n
  BY <1>9, <1>10, <1>11, <1>12, ConcatLen
<1>14. RequestLen(c) = (p + f) + n
  BY <1>4, <1>5, <1>6, LengthsAre
<1>15. At(d, 0, h)
  <2>1. At(t, 0, h)
    BY <1>7, <1>8, <1>11, AtAll, AtAppend
  <2> QED
    BY <1>7, <1>9, <1>10, <1>11, <1>12, <2>1, AtAppend
<1>16. At(d, p, s)
  <2>1. At(t, Len(h) + 0, s)
    BY <1>7, <1>8, <1>11, AtAll, AtBehind
  <2>2. Len(h) + 0 = p /\ p \in Nat
    BY <1>4, <1>7
  <2> QED
    BY <1>8, <1>9, <1>10, <1>11, <1>12, <2>1, <2>2, AtAppend
<1>17. At(d, p + f, v)
  <2>1. At(d, Len(t) + 0, v)
    BY <1>9, <1>10, <1>11, <1>12, AtAll, AtBehind
  <2>2. Len(t) + 0 = p + f
    BY <1>12
  <2> QED
    BY <2>1, <2>2
<1>18. \A k \in 1..p : d[k] = h[k]
  <2>1. \A k \in 1..p : d[0 + k] = h[k]
    BY <1>7, <1>15 DEF At
  <2>2. \A k \in 1..p : 0 + k = k
    BY <1>4
  <2> QED
    BY <2>1, <2>2
<1>19. d[1] = c.sid
  <2>1. 1 \in 1..p
    BY <1>4
  <2>2. d[1] = h[1]
    BY <1>18, <2>1
  <2> QED
    BY <1>7, <2>2
<1>20. HaveSub(c.sid) => /\ d[2] % 128 = c.sub % 128
                         /\ (d[2] >= 128) = (c.issuppress # 0 \/ c.sub >= 128)
  <2> SUFFICES ASSUME HaveSub(c.sid)
               PROVE  /\ d[2] % 128 = c.sub % 128
                      /\ (d[2] >= 128) = (c.issuppress # 0 \/ c.sub >= 128)
    OBVIOUS
  <2>1. p = 2
    BY <1>4, LengthsAre
  <2>2. 2 \in 1..p
    BY <2>1
  <2>3. d[2] = h[2]
    BY <1>18, <2>2
  <2> QED
    BY <1>7, <2>3
<1>21. c.sid \in {RDBI, WDBI, RC} => NumberAt(d, p, 2) = c.did
  <2> SUFFICES ASSUME c.sid \in {RDBI, WDBI, RC}
               PROVE  NumberAt(d, p, 2) = c.did
    OBVIOUS
  <2>1. s = BigEndian(c.did, 2)
    BY <1>2 DEF Parameters, Configured, Plain, RDBI, WDBI, RC, RD, RFT
  <2>2. c.did \in Word /\ p \in Nat
    BY <1>4 DEF ConfigOK
  <2> QED
    BY <1>16, <2>1, <2>2, WordIsAt
<1>22. ASSUME c.sid = RD, NEW addr \in Nat, NEW size \in Nat,
              addr = c.service_34_rd.addressAndLengthFormatIdentifier \div 16,
              size = c.service_34_rd.addressAndLengthFormatIdentifier % 16
       PROVE  /\ d[2] = c.service_34_rd.dataFormatIdentifier
              /\ d[3] = c.service_34_rd.addressAndLengthFormatIdentifier
              /\ IsNumber(d, 3, addr, c.service_34_rd.memoryAddress)
              /\ IsNumber(d, 3 + addr, size, c.service_34_rd.memorySize)
  <2>1. s = Download(c.service_34_rd)
    BY <1>2, <1>22 DEF Parameters, Configured, Plain, RDBI, WDBI, RC, RD, RFT
  <2>2. p = 1
    BY <1>4, <1>22, LengthsAre
  <2>3. DownloadOK(c.service_34_rd)
    BY DEF ConfigOK
  <2>4. At(d, 1, Download(c.service_34_rd))
    BY <1>16, <2>1, <2>2
  <2> QED
    BY <1>13, <1>22, <2>3, <2>4, DownloadRead
<1>23. ASSUME c.sid = RFT, NEW rft, rft = c.service_38_rft,
              NEW name \in Nat, NEW size \in Nat,
              name = Len(rft.filePathAndName), size = rft.fileSizeParameterLength
       PROVE  FileTransferSays(d, rft, name, size)
  <2>1. s = FileTransfer(rft)
    BY <1>2, <1>23 DEF Parameters, Configured, Plain, RDBI, WDBI, RC, RD, RFT
  <2>2. p = 1
    BY <1>4, <1>23, LengthsAre
  <2>3. FileTransferOK(rft)
    BY <1>23 DEF ConfigOK
  <2>4. At(d, 1, FileTransfer(rft))
    BY <1>16, <2>1, <2>2
  <2>5. d \in Seq(Byte)
    BY <1>13
  <2>6. name = Len(rft.filePathAndName) /\ size = rft.fileSizeParameterLength
    BY <1>23
  <2> QED
    BY <2>3, <2>4, <2>5, <2>6, FileTransferRead
<1>24. SubSeq(d, (p + f) + 1, RequestLen(c)) = v
  <2>1. p + f \in Nat
    BY <1>4
  <2>2. SubSeq(d, (p + f) + 1, (p + f) + Len(v)) = v
    BY <1>9, <1>13, <1>17, <2>1, AtIs
  <2> QED
    BY <1>9, <1>14, <2>2
<1>25. DownloadOK(c.service_34_rd) /\ FileTransferOK(c.service_38_rft)
  BY DEF ConfigOK
<1>26. c.sid = RD =>
         LET rd == c.service_34_rd
             addr == rd.addressAndLengthFormatIdentifier \div 16
         IN  /\ d[2] = rd.dataFormatIdentifier
             /\ d[3] = rd.addressAndLengthFormatIdentifier
             /\ IsNumber(d, 3, addr, rd.memoryAddress)
             /\ IsNumber(d, 3 + addr, d[3] % 16, rd.memorySize)
  <2> SUFFICES ASSUME c.sid = RD
               PROVE  LET rd == c.service_34_rd
                          addr == rd.addressAndLengthFormatIdentifier \div 16
                      IN  /\ d[2] = rd.dataFormatIdentifier
                          /\ d[3] = rd.addressAndLengthFormatIdentifier
                          /\ IsNumber(d, 3, addr, rd.memoryAddress)
                          /\ IsNumber(d, 3 + addr, d[3] % 16, rd.memorySize)
    OBVIOUS
  <2>1. PICK addr \in Nat : addr = c.service_34_rd.addressAndLengthFormatIdentifier \div 16
    BY <1>25, FormatIs
  <2>2. PICK size \in Nat : size = c.service_34_rd.addressAndLengthFormatIdentifier % 16
    BY <1>25, FormatIs
  <2> QED
    BY <1>22, <2>1, <2>2, Zenon
<1>27. c.sid = RFT =>
         LET rft == c.service_38_rft
             name == Len(rft.filePathAndName)
             size == rft.fileSizeParameterLength
         IN  /\ d[2] = rft.modeOfOperation
             /\ NumberAt(d, 2, 2) = rft.filePathAndNameLength
             /\ SubSeq(d, 5, 4 + name) = rft.filePathAndName
             /\ d[5 + name] = rft.dataFormatIdentifier /\ d[6 + name] = size
             /\ IsNumber(d, 6 + name, size, rft.fileSizeUnCompressed)
             /\ IsNumber(d, 6 + name + size, size, rft.fileSizeCompressed)
  <2>1. PICK name \in Nat : name = Len(c.service_38_rft.filePathAndName)
    BY <1>25 DEF FileTransferOK
  <2>2. PICK size \in Nat : size = c.service_38_rft.fileSizeParameterLength
    BY <1>25 DEF FileTransferOK
  <2>3. c.sid = RFT => FileTransferSays(d, c.service_38_rft, name, size)
    BY <1>23, <2>1, <2>2, Zenon
  <2> QED
    BY <2>1, <2>2, <2>3, Zenon DEF FileTransferSays
<1>28. Len(d) >= RequestLen(c) /\ Len(d) = RequestLen(c)
  BY <1>4, <1>13, <1>14
<1>29. Asks(d, c)
  BY <1>3, <1>4, <1>5, <1>19, <1>20, <1>21, <1>24, <1>26, <1>27, <1>28, Zenon DEF Asks
<1> QED
  BY <1>13, <1>28, <1>29

\* The key goes behind the request, and the ECU reads what was asked all the same.
LEMMA AsksMore ==
  ASSUME NEW c, ConfigOK(c), c.sid = SA,
         NEW d \in Seq(Byte), Asks(d, c), NEW k \in Seq(Byte)
  PROVE  Asks(d \o k, c)
<1>1. PICK p \in {1, 2} : p = HeadLen(c.sid)
  BY LengthsAre
<1>2. PICK n \in Nat : n = c.variableByte.dlen
  BY LengthsAre
<1>3. FixedLen(c) = 0 /\ RequestLen(c) = p + n /\ p = 2
  BY <1>1, <1>2, LengthsAre DEF HaveSub
<1>4. PICK e : e = d \o k
  OBVIOUS
<1>5. /\ e \in Seq(Byte) /\ Len(e) = Len(d) + Len(k)
      /\ \A i \in 1..Len(d) : e[i] = d[i]
  BY <1>4, ConcatOK
<1>6. /\ Len(d) >= RequestLen(c) /\ d[1] = c.sid
      /\ HaveSub(c.sid) => /\ d[2] % 128 = c.sub % 128
                           /\ (d[2] >= 128) = (c.issuppress # 0 \/ c.sub >= 128)
      /\ SubSeq(d, (p + 0) + 1, RequestLen(c)) = Content(c.variableByte)
  BY <1>1, <1>3 DEF Asks
<1>7. Len(e) >= RequestLen(c) /\ e[1] = d[1] /\ e[2] = d[2]
  <2>1. Len(d) \in Nat /\ Len(k) \in Nat
    OBVIOUS
  <2>2. 1 \in 1..Len(d) /\ 2 \in 1..Len(d) /\ Len(e) >= RequestLen(c)
    BY <1>3, <1>5, <1>6, <2>1
  <2> QED
    BY <1>5, <2>2
<1>8. SubSeq(e, (p + 0) + 1, RequestLen(c)) = SubSeq(d, (p + 0) + 1, RequestLen(c))
  <2>1. PICK m \in Nat : m = RequestLen(c) /\ m <= Len(d) /\ m <= Len(e) /\ m >= 2
    BY <1>3, <1>6, <1>7
  <2>2. Len(d) \in Nat /\ Len(e) \in Nat
    BY <1>5
  <2>3. \A i \in 3..m : e[i] = d[i]
    BY <1>5, <2>1, <2>2
  <2>4. SubSeq(e, 3, m) = SubSeq(d, 3, m)
    <3>1. /\ SubSeq(e, 3, m) \in Seq(Byte) /\ Len(SubSeq(e, 3, m)) = m - 2
          /\ \A i \in 1..(m - 2) : SubSeq(e, 3, m)[i] = e[i + 2]
      BY <1>5, <2>1, <2>2
    <3>2. /\ SubSeq(d, 3, m) \in Seq(Byte) /\ Len(SubSeq(d, 3, m)) = m - 2
          /\ \A i \in 1..(m - 2) : SubSeq(d, 3, m)[i] = d[i + 2]
      BY <2>1, <2>2
    <3>3. \A i \in 1..(m - 2) : i + 2 \in 3..m
      BY <2>1
    <3> QED
      BY <2>3, <3>1, <3>2, <3>3, SameElements
  <2>5. (p + 0) + 1 = 3
    BY <1>3
  <2> QED
    BY <2>1, <2>4, <2>5
<1>9. c.sid \notin {RDBI, WDBI, RC, RD, RFT}
  BY DEF RDBI, WDBI, RC, RD, RFT, SA
<1>10. Asks(e, c)
  BY <1>1, <1>3, <1>6, <1>7, <1>8, <1>9, Zenon DEF Asks
<1> QED
  BY <1>4, <1>10

\* What is behind the request of an item is the key.
LEMMA KeyOfIs ==
  ASSUME NEW c, ConfigOK(c), c.sid = SA, NEW b \in Seq(Byte), Len(b) = RequestLen(c),
         NEW k \in Seq(Byte)
  PROVE  KeyOf(b \o k, c) = k
<1>1. PICK n \in Nat : n = c.variableByte.dlen
  BY LengthsAre
<1>2. Len(b) = 2 + n
  BY <1>1, LengthsAre DEF HaveSub
<1>3. At(b \o k, Len(b) + 0, k)
  BY AtAll, AtBehind
<1>4. b \o k \in Seq(Byte) /\ Len(b \o k) = Len(b) + Len(k)
  BY ConcatLen
<1>5. Len(b) + 0 = Len(b) /\ Len(b) \in Nat
  BY <1>2
<1>6. SubSeq(b \o k, Len(b) + 1, Len(b) + Len(k)) = k
  BY <1>3, <1>4, <1>5, AtIs
<1>7. Len(b) + 1 = 3 + n
  BY <1>2
<1> QED
  BY <1>1, <1>4, <1>6, <1>7 DEF KeyOf

-----------------------------------------------------------------------------
(***************************************************************************)
(* A configuration on its way into an item                                 *)
(***************************************************************************)

\* dm_service_config_decode of what dm_service_config_encode made of c.
Arrived(c) == Decoded(Encoded(c), NewConfig)

\* The keys of the message.
LEMMA EncodedKeys ==
  ASSUME NEW c
  PROVE  DOMAIN Encoded(c) = Keys(c)
  BY DEF Encoded

\* A number that is left out is 0 when it is decoded.
LEMMA NumberArrives ==
  ASSUME NEW c, ConfigOK(c), NEW k \in Optional
  PROVE  Arrived(c)[k] = c[k]
<1>1. c[k] \in Nat
  <2>1. c[k] \in Byte \cup Word \cup DWord
    BY DEF ConfigOK, Optional
  <2> QED
    BY <2>1 DEF Byte, Word, DWord
<1>2. /\ k \notin {"issuppress", "expectRespon_rule", "finish_rule", "desc", "local_path",
                    "service_34_rd", "service_38_rft"}
      /\ k \notin Arrays
  BY DEF Optional, Arrays
<1>3. k \in Keys(c) <=> c[k] > 0
  BY <1>2 DEF Keys
<1>4. k \in Keys(c) => Encoded(c)[k] = c[k]
  BY <1>2 DEF Encoded
<1>5. k \in DOMAIN NewConfig /\ NewConfig[k] = 0
  BY DEF Optional, NewConfig
<1>6. k \notin Transfers(Encoded(c))
  BY <1>2 DEF Transfers
<1>7. Arrived(c)[k] = IF k \notin DOMAIN Encoded(c) THEN NewConfig[k] ELSE Encoded(c)[k]
  BY <1>2, <1>5, <1>6 DEF Arrived, Decoded
<1> QED
  BY <1>1, <1>3, <1>4, <1>5, <1>7, EncodedKeys

\* Three values are always there.
LEMMA RuleArrives ==
  ASSUME NEW c, ConfigOK(c)
  PROVE  /\ Arrived(c).expectRespon_rule = c.expectRespon_rule
         /\ Arrived(c).finish_rule = c.finish_rule
         /\ (Arrived(c).issuppress # 0) = (c.issuppress # 0)
<1>1. {"issuppress", "expectRespon_rule", "finish_rule"} \subseteq Keys(c)
  BY DEF Keys
<1>2. /\ Encoded(c)["expectRespon_rule"] = c.expectRespon_rule
      /\ Encoded(c)["finish_rule"] = c.finish_rule
  BY <1>1 DEF Encoded, Arrays
<1>3. /\ c.issuppress # 0 => Encoded(c)["issuppress"]
      /\ c.issuppress = 0 => ~Encoded(c)["issuppress"]
  BY <1>1 DEF Encoded, Arrays
<1>4. {"issuppress", "expectRespon_rule", "finish_rule"} \subseteq DOMAIN NewConfig
  BY DEF NewConfig
<1>5. {"issuppress", "expectRespon_rule", "finish_rule"} \cap Transfers(Encoded(c)) = {}
  BY DEF Transfers
<1>6. /\ Arrived(c)["expectRespon_rule"] = Encoded(c)["expectRespon_rule"]
      /\ Arrived(c)["finish_rule"] = Encoded(c)["finish_rule"]
  BY <1>1, <1>4, <1>5, EncodedKeys DEF Arrived, Decoded, Arrays
<1>7. Arrived(c)["issuppress"] = IF Encoded(c)["issuppress"] THEN 1 ELSE 0
  BY <1>1, <1>4, <1>5, EncodedKeys DEF Arrived, Decoded, Arrays
<1>8. (Arrived(c)["issuppress"] # 0) = (c.issuppress # 0)
  <2>1. CASE c.issuppress # 0
    <3>1. Arrived(c)["issuppress"] = 1
      BY <1>3, <1>7, <2>1
    <3> QED
      BY <2>1, <3>1
  <2>2. CASE c.issuppress = 0
    <3>1. Arrived(c)["issuppress"] = 0
      BY <1>3, <1>7, <2>2
    <3> QED
      BY <2>2, <3>1
  <2> QED
    BY <2>1, <2>2
<1> QED
  BY <1>2, <1>6, <1>8

\* An array that is left out is empty when it is decoded, like one of no bytes.
LEMMA ArrayArrives ==
  ASSUME NEW c, ConfigOK(c), NEW k \in Arrays
  PROVE  /\ WellFormed(Arrived(c)[k])
         /\ Content(Arrived(c)[k]) = Content(c[k])
<1>1. WellFormed(c[k])
  BY DEF ConfigOK, Arrays
<1>2. PICK s \in Seq(Byte) : s = Content(c[k]) /\ Len(s) = c[k].dlen
  BY <1>1, ContentOK
<1>3. /\ k \notin {"issuppress", "expectRespon_rule", "finish_rule", "desc", "local_path",
                    "service_34_rd", "service_38_rft"}
      /\ k \notin Optional
  BY DEF Optional, Arrays
<1>4. k \in Keys(c) <=> c[k].dlen > 0
  BY <1>3 DEF Keys
<1>5. k \in Keys(c) => Encoded(c)[k] = s
  BY <1>2, <1>3 DEF Encoded
<1>6. k \in DOMAIN NewConfig /\ NewConfig[k] = ByteArrayNew
  BY DEF Arrays, NewConfig
<1>7. CASE k \in Keys(c)
  <2>1. Arrived(c)[k] = AppendedEach(ByteArrayNew, s)
    BY <1>3, <1>5, <1>6, <1>7, EncodedKeys DEF Arrived, Decoded, Transfers
  <2>2. WellFormed(Arrived(c)[k]) /\ Content(Arrived(c)[k]) = Content(ByteArrayNew) \o s
    BY <2>1, NewWellFormed, AppendedEachIs
  <2>3. Content(ByteArrayNew) \o s = s
    BY NewWellFormed
  <2> QED
    BY <1>2, <2>2, <2>3
<1>8. CASE k \notin Keys(c)
  <2>1. Arrived(c)[k] = ByteArrayNew
    BY <1>3, <1>6, <1>8, EncodedKeys DEF Arrived, Decoded
  <2>2. Len(s) = 0
    BY <1>2, <1>4, <1>8
  <2>3. s = <<>>
    BY <2>2
  <2> QED
    BY <1>2, <2>1, <2>3, NewWellFormed
<1> QED
  BY <1>7, <1>8

\* The description, the parameters of a service and the path arrive.
LEMMA RestArrives ==
  ASSUME NEW c, ConfigOK(c)
  PROVE  /\ Arrived(c).desc = c.desc
         /\ c.sid = RD => Arrived(c).service_34_rd = c.service_34_rd
         /\ c.sid = RFT => Arrived(c).service_38_rft = c.service_38_rft
         /\ c.sid \in {RD, RFT} => Arrived(c).local_path = c.local_path
<1> DEFINE m == Encoded(c)
<1>1. DOMAIN m = Keys(c)
  BY EncodedKeys
<1>2. Arrived(c).desc = c.desc
  <2>1. "desc" \in DOMAIN NewConfig /\ NewConfig["desc"] = <<>>
    BY DEF NewConfig
  <2>2. "desc" \in Keys(c) <=> c.desc # <<>>
    BY DEF Keys, Arrays, Optional
  <2>3. "desc" \in Keys(c) => m["desc"] = c.desc
    BY DEF Encoded, Arrays
  <2>4. "desc" \notin Transfers(m) /\ "desc" \notin Arrays
    BY DEF Transfers, Arrays
  <2>5. Arrived(c)["desc"] = IF "desc" \notin DOMAIN m THEN NewConfig["desc"] ELSE m["desc"]
    BY <2>1, <2>4 DEF Arrived, Decoded
  <2> QED
    BY <1>1, <2>1, <2>2, <2>3, <2>5
<1>3. /\ "service_34_rd" \in Keys(c) <=> c.sid = RD
      /\ "service_38_rft" \in Keys(c) <=> c.sid = RFT
  BY DEF Keys, Arrays, Optional
<1>4. /\ "service_34_rd" \notin Arrays /\ "service_38_rft" \notin Arrays
      /\ {"service_34_rd", "service_38_rft", "local_path"} \subseteq DOMAIN NewConfig
  BY DEF Arrays, NewConfig
<1>5. ASSUME NEW t \in {"service_34_rd", "service_38_rft"}, t \in Keys(c)
      PROVE  m[t] = [service |-> c[t], local_path |-> c.local_path]
             /\ Arrived(c)[t] = c[t]
  <2>1. m[t] = [service |-> c[t], local_path |-> c.local_path]
    BY <1>4, <1>5 DEF Encoded
  <2>2. t \in Transfers(m)
    BY <1>1, <1>5 DEF Transfers
  <2>3. Arrived(c)[t] = m[t].service
    BY <1>1, <1>4, <1>5, <2>2 DEF Arrived, Decoded
  <2> QED
    BY <2>1, <2>3
<1>6. ASSUME c.sid \in {RD, RFT}
      PROVE  Arrived(c).local_path = c.local_path
  <2>1. Transfers(m) # {}
    BY <1>1, <1>3, <1>6 DEF Transfers
  <2>2. PICK t : t = CHOOSE x \in Transfers(m) : TRUE
    OBVIOUS
  <2>3. t \in Transfers(m)
    BY <2>1, <2>2
  <2>4. t \in {"service_34_rd", "service_38_rft"} /\ t \in Keys(c)
    BY <1>1, <2>3 DEF Transfers
  <2>5. Arrived(c)["local_path"] = m[t].local_path
    BY <1>4, <2>1, <2>2 DEF Arrived, Decoded
  <2> QED
    BY <1>5, <2>4, <2>5
<1> QED
  BY <1>2, <1>3, <1>5, <1>6

-----------------------------------------------------------------------------
\* The values of an item before the parameters of its service are set.
ItemBase(c) ==
  [ItemSet(NewItem, c) EXCEPT
     !.desc = c.desc, !.issuppress = c.issuppress, !.tatype = c.tatype,
     !.ta = c.ta, !.sa = c.sa,
     !.variable_byte = ByteArrayAppendArray(@, c.variableByte),
     !.expect_byte = ByteArrayAppendArray(@, c.expectResponByte),
     !.finish_byte = ByteArrayAppendArray(@, c.finishByte),
     !.response_rule = c.expectRespon_rule, !.finish_rule = c.finish_rule,
     !.finish_num_max = c.finish_num_max, !.rr_callid = c.rr_callid,
     !.maxNumberOfBlockLength = c.maxNumberOfBlockLength]

\* Every value is set in the field it belongs to.
LEMMA ItemBaseIs ==
  ASSUME NEW c, NEW i, i = ItemBase(c)
  PROVE  /\ DOMAIN i = DOMAIN NewItem
         /\ \A f \in Plain : i[f] = c[f]
         /\ i.issuppress = c.issuppress /\ i.response_rule = c.expectRespon_rule
         /\ i.variable_byte = ByteArrayAppendArray(ByteArrayNew, c.variableByte)
         /\ i.expect_byte = ByteArrayAppendArray(ByteArrayNew, c.expectResponByte)
         /\ i.finish_byte = ByteArrayAppendArray(ByteArrayNew, c.finishByte)
         /\ i.request_byte = ByteArrayNew
<1>0. DOMAIN i = DOMAIN NewItem
  <2>1. DOMAIN ItemSet(NewItem, c) = DOMAIN NewItem
    BY DEF ItemSet
  <2>2. DOMAIN i = DOMAIN ItemSet(NewItem, c)
    BY DEF ItemBase
  <2> QED
    BY <2>1, <2>2
<1>1. /\ i.issuppress = c.issuppress /\ i.response_rule = c.expectRespon_rule
      /\ i.request_byte = ByteArrayNew
  BY DEF ItemBase, ItemSet, NewItem
<1>2. /\ i.variable_byte = ByteArrayAppendArray(ByteArrayNew, c.variableByte)
      /\ i.expect_byte = ByteArrayAppendArray(ByteArrayNew, c.expectResponByte)
      /\ i.finish_byte = ByteArrayAppendArray(ByteArrayNew, c.finishByte)
  BY DEF ItemBase, ItemSet, NewItem
<1>3. /\ i.sid = c.sid /\ i.sub = c.sub /\ i.did = c.did /\ i.delay = c.delay
      /\ i.timeout = c.timeout /\ i.tatype = c.tatype /\ i.ta = c.ta /\ i.sa = c.sa
  BY DEF ItemBase, ItemSet, NewItem
<1>4. /\ i.finish_rule = c.finish_rule /\ i.finish_num_max = c.finish_num_max
      /\ i.rr_callid = c.rr_callid /\ i.desc = c.desc
      /\ i.maxNumberOfBlockLength = c.maxNumberOfBlockLength
  BY DEF ItemBase, ItemSet, NewItem
<1> QED
  BY <1>0, <1>1, <1>2, <1>3, <1>4 DEF Plain

\* The parameters of a service are added, and nothing else is touched.
LEMMA TransferSetIs ==
  ASSUME NEW c, NEW i, DOMAIN i = DOMAIN NewItem, NEW t, t = TransferSet(i, c)
  PROVE  /\ DOMAIN t = DOMAIN NewItem
         /\ \A f \in DOMAIN NewItem \ {"rd_34", "rft_38", "local_path"} : t[f] = i[f]
         /\ c.sid = RD => t.rd_34 = c.service_34_rd
         /\ c.sid = RFT => t.rft_38 = c.service_38_rft
         /\ c.sid \in {RD, RFT} => t.local_path = c.local_path
<1>1. {"rd_34", "rft_38", "local_path"} \subseteq DOMAIN i
  BY DEF NewItem
<1>2. CASE c.sid = RD
  <2>1. t = [i EXCEPT !.rd_34 = c.service_34_rd, !.local_path = c.local_path]
    BY <1>2 DEF TransferSet, RD, RFT
  <2>2. DOMAIN t = DOMAIN i
    BY <2>1
  <2>3. t.rd_34 = c.service_34_rd /\ t.local_path = c.local_path
    BY <1>1, <2>1
  <2>4. \A f \in DOMAIN i \ {"rd_34", "rft_38", "local_path"} : t[f] = i[f]
    BY <1>1, <2>1
  <2>5. (c.sid = RD) # (c.sid = RFT)
    BY <1>2 DEF RD, RFT
  <2> QED
    BY <1>2, <2>2, <2>3, <2>4, <2>5
<1>3. CASE c.sid = RFT
  <2>1. t = [i EXCEPT !.rft_38 = c.service_38_rft, !.local_path = c.local_path]
    BY <1>3 DEF TransferSet, RD, RFT
  <2>2. DOMAIN t = DOMAIN i
    BY <2>1
  <2>3. t.rft_38 = c.service_38_rft /\ t.local_path = c.local_path
    BY <1>1, <2>1
  <2>4. \A f \in DOMAIN i \ {"rd_34", "rft_38", "local_path"} : t[f] = i[f]
    BY <1>1, <2>1
  <2>5. (c.sid = RD) # (c.sid = RFT)
    BY <1>3 DEF RD, RFT
  <2> QED
    BY <1>3, <2>2, <2>3, <2>4, <2>5
<1>4. CASE c.sid \notin {RD, RFT}
  <2>1. t = i
    BY <1>4 DEF TransferSet
  <2> QED
    BY <1>4, <2>1
<1> QED
  BY <1>2, <1>3, <1>4

\* diag_master_cammand_service_config_handler: the item a configuration becomes,
\* before its request is built.
LEMMA ItemIs ==
  ASSUME NEW c, ConfigOK(c), NEW i, i = ItemOf(Arrived(c))
  PROVE  /\ DOMAIN i = DOMAIN NewItem
         /\ \A f \in ItemArrays : WellFormed(i[f])
         /\ Configured(i, c)
<1>1. PICK d : d = Arrived(c)
  OBVIOUS
<1>2. PICK b : b = ItemBase(d)
  OBVIOUS
<1>3. i = TransferSet(b, d)
  BY <1>1, <1>2 DEF ItemOf, ItemBase
<1>4. /\ DOMAIN b = DOMAIN NewItem
      /\ \A f \in Plain : b[f] = d[f]
      /\ b.issuppress = d.issuppress /\ b.response_rule = d.expectRespon_rule
      /\ b.variable_byte = ByteArrayAppendArray(ByteArrayNew, d.variableByte)
      /\ b.expect_byte = ByteArrayAppendArray(ByteArrayNew, d.expectResponByte)
      /\ b.finish_byte = ByteArrayAppendArray(ByteArrayNew, d.finishByte)
      /\ b.request_byte = ByteArrayNew
  BY <1>2, ItemBaseIs
<1>5. /\ DOMAIN i = DOMAIN NewItem
      /\ \A f \in DOMAIN NewItem \ {"rd_34", "rft_38", "local_path"} : i[f] = b[f]
      /\ d.sid = RD => i.rd_34 = d.service_34_rd
      /\ d.sid = RFT => i.rft_38 = d.service_38_rft
      /\ d.sid \in {RD, RFT} => i.local_path = d.local_path
  BY <1>3, <1>4, TransferSetIs
<1>6. \A f \in Plain : d[f] = c[f]
  <2>1. \A f \in Optional : d[f] = c[f]
    BY <1>1, NumberArrives
  <2>2. d.finish_rule = c.finish_rule
    BY <1>1, RuleArrives
  <2>3. d.desc = c.desc
    BY <1>1, RestArrives
  <2>4. Plain \subseteq Optional \cup {"finish_rule", "desc"}
    BY DEF Plain, Optional
  <2> QED
    BY <2>1, <2>2, <2>3, <2>4
<1>7. Plain \cup {"issuppress", "response_rule"} \cup ItemArrays
        \subseteq DOMAIN NewItem \ {"rd_34", "rft_38", "local_path"}
  BY DEF Plain, ItemArrays, NewItem
<1>8. \A f \in Plain : i[f] = c[f]
  BY <1>4, <1>5, <1>6, <1>7
<1>9. (i.issuppress # 0) = (c.issuppress # 0) /\ i.response_rule = c.expectRespon_rule
  <2>1. i["issuppress"] = d.issuppress /\ i["response_rule"] = d.expectRespon_rule
    BY <1>4, <1>5, <1>7
  <2>2. (d.issuppress # 0) = (c.issuppress # 0)
    BY <1>1, RuleArrives
  <2>3. d.expectRespon_rule = c.expectRespon_rule
    BY <1>1, RuleArrives
  <2> QED
    BY <2>1, <2>2, <2>3
<1>10. ASSUME NEW x, NEW y, WellFormed(y), Content(y) = Content(x)
       PROVE  /\ WellFormed(ByteArrayAppendArray(ByteArrayNew, y))
              /\ Content(ByteArrayAppendArray(ByteArrayNew, y)) = Content(x)
  <2>1. /\ WellFormed(ByteArrayAppendArray(ByteArrayNew, y))
        /\ Content(ByteArrayAppendArray(ByteArrayNew, y)) =
             Content(ByteArrayNew) \o Content(y)
    BY <1>10, NewWellFormed, AppendArrayWellFormed
  <2>2. Content(y) \in Seq(Byte)
    BY <1>10, ContentOK
  <2>3. Content(ByteArrayNew) \o Content(y) = Content(y)
    BY <2>2, NewWellFormed
  <2> QED
    BY <1>10, <2>1, <2>3
<1>11. \A f \in Arrays : WellFormed(d[f]) /\ Content(d[f]) = Content(c[f])
  BY <1>1, ArrayArrives
<1>12. /\ WellFormed(i.variable_byte) /\ Content(i.variable_byte) = Content(c.variableByte)
  <2>1. i["variable_byte"] = ByteArrayAppendArray(ByteArrayNew, d.variableByte)
    BY <1>4, <1>5, <1>7 DEF ItemArrays
  <2>2. WellFormed(d.variableByte) /\ Content(d.variableByte) = Content(c.variableByte)
    BY <1>11 DEF Arrays
  <2> QED
    BY <1>10, <2>1, <2>2
<1>13. /\ WellFormed(i.expect_byte) /\ Content(i.expect_byte) = Content(c.expectResponByte)
  <2>1. i["expect_byte"] = ByteArrayAppendArray(ByteArrayNew, d.expectResponByte)
    BY <1>4, <1>5, <1>7 DEF ItemArrays
  <2>2. /\ WellFormed(d.expectResponByte)
        /\ Content(d.expectResponByte) = Content(c.expectResponByte)
    BY <1>11 DEF Arrays
  <2> QED
    BY <1>10, <2>1, <2>2
<1>14. /\ WellFormed(i.finish_byte) /\ Content(i.finish_byte) = Content(c.finishByte)
  <2>1. i["finish_byte"] = ByteArrayAppendArray(ByteArrayNew, d.finishByte)
    BY <1>4, <1>5, <1>7 DEF ItemArrays
  <2>2. WellFormed(d.finishByte) /\ Content(d.finishByte) = Content(c.finishByte)
    BY <1>11 DEF Arrays
  <2> QED
    BY <1>10, <2>1, <2>2
<1>15. WellFormed(i.request_byte)
  <2>1. i["request_byte"] = ByteArrayNew
    BY <1>4, <1>5, <1>7 DEF ItemArrays
  <2> QED
    BY <2>1, NewWellFormed
<1>16. d.sid = c.sid
  BY <1>6 DEF Plain
<1>17. /\ c.sid = RD => i.rd_34 = c.service_34_rd
       /\ c.sid = RFT => i.rft_38 = c.service_38_rft
       /\ c.sid \in {RD, RFT} => i.local_path = c.local_path
  BY <1>1, <1>5, <1>16, RestArrives
<1>18. Configured(i, c)
  BY <1>8, <1>9, <1>12, <1>13, <1>14, <1>17, Zenon DEF Configured
<1>19. \A f \in ItemArrays : WellFormed(i[f])
  BY <1>12, <1>13, <1>14, <1>15 DEF ItemArrays
<1> QED
  BY <1>5, <1>18, <1>19

\* A field but the request is left alone when another field is set.
LEMMA ConfiguredStill ==
  ASSUME NEW c, NEW i, DOMAIN i = DOMAIN NewItem, Configured(i, c),
         NEW f \in {"request_byte", "finish_try_num"}, NEW x, NEW j, j = [i EXCEPT ![f] = x]
  PROVE  DOMAIN j = DOMAIN NewItem /\ Configured(j, c)
<1>1. \A g \in DOMAIN NewItem : g # f => j[g] = i[g]
  OBVIOUS
<1>2. Plain \cup {"issuppress", "response_rule", "variable_byte", "expect_byte",
                   "finish_byte", "rd_34", "rft_38", "local_path"}
        \subseteq DOMAIN NewItem \ {"request_byte", "finish_try_num"}
  BY DEF Plain, NewItem
<1>3. /\ \A g \in Plain : j[g] = i[g]
      /\ j.issuppress = i.issuppress /\ j.response_rule = i.response_rule
      /\ j.variable_byte = i.variable_byte /\ j.expect_byte = i.expect_byte
      /\ j.finish_byte = i.finish_byte /\ j.rd_34 = i.rd_34 /\ j.rft_38 = i.rft_38
      /\ j.local_path = i.local_path
  BY <1>1, <1>2
<1> QED
  BY <1>3 DEF Configured

\* A service becomes an item that has what the user asked for, and the request
\* of which says so.
THEOREM ItemBuilt ==
  ASSUME NEW c \in Services,
         NEW i, i = RequestBuild(ItemOf(Decoded(Encoded(c), NewConfig)))
  PROVE  ItemOK(i, c)
<1>1. ConfigOK(c) /\ RequestLen(c) <= DataMax
  BY ScriptAssumption
<1>2. PICK j : j = ItemOf(Arrived(c))
  OBVIOUS
<1>3. /\ DOMAIN j = DOMAIN NewItem
      /\ Configured(j, c)
      /\ \A f \in ItemArrays : WellFormed(j[f])
  BY <1>1, <1>2, ItemIs
<1>4. WellFormed(j.request_byte) /\ WellFormed(j.variable_byte)
  BY <1>3 DEF ItemArrays
<1>5. PICK b : /\ RequestBuild(j) = [j EXCEPT !.request_byte = b]
               /\ WellFormed(b)
               /\ Content(b) = (RequestHead(j) \o Parameters(j)) \o Content(j.variable_byte)
  BY <1>1, <1>3, <1>4, BuildIs
<1>6. i = [j EXCEPT !.request_byte = b]
  BY <1>2, <1>5 DEF Arrived
<1>7. DOMAIN i = DOMAIN NewItem /\ Configured(i, c)
  BY <1>3, <1>6, ConfiguredStill
<1>8. i.request_byte = b /\ \A f \in ItemArrays : f # "request_byte" => i[f] = j[f]
  BY <1>3, <1>6 DEF ItemArrays, NewItem
<1>9. \A f \in ItemArrays : WellFormed(i[f])
  BY <1>3, <1>5, <1>8
<1>10. Content(b) \in Seq(Byte) /\ Len(Content(b)) = RequestLen(c) /\ Asks(Content(b), c)
  BY <1>1, <1>3, <1>5, RequestAsks
<1> QED
  BY <1>1, <1>7, <1>8, <1>9, <1>10 DEF ItemOK, Data

-----------------------------------------------------------------------------
(***************************************************************************)
(* Messages: what is read is what was written                              *)
(***************************************************************************)

\* To shift by two and three bytes is to shift by one repeatedly.
LEMMA DivDiv ==
  ASSUME NEW n \in Nat
  PROVE  /\ n \div 65536 = (n \div 256) \div 256
         /\ n \div 16777216 = ((n \div 256) \div 256) \div 256
<1>1. PICK w \in Nat : w = n \div 256
  OBVIOUS
<1>2. PICK r \in 0..255 : r = n % 256
  OBVIOUS
<1>3. PICK w2 \in Nat : w2 = w \div 256
  OBVIOUS
<1>4. PICK r2 \in 0..255 : r2 = w % 256
  OBVIOUS
<1>5. PICK w3 \in Nat : w3 = w2 \div 256
  OBVIOUS
<1>6. PICK r3 \in 0..255 : r3 = w2 % 256
  OBVIOUS
<1>7. n = 256 * w + r /\ w = 256 * w2 + r2 /\ w2 = 256 * w3 + r3
  BY <1>1, <1>2, <1>3, <1>4, <1>5, <1>6, DivMod
<1>8. n = 65536 * w2 + (256 * r2 + r)
  BY <1>7
<1>9. n = 16777216 * w3 + (65536 * r3 + 256 * r2 + r)
  BY <1>7
<1>10. n \div 65536 = w2
  BY <1>8
<1>11. n \div 16777216 = w3
  BY <1>9
<1> QED
  BY <1>1, <1>3, <1>5, <1>10, <1>11

\* A number that its field can hold.
Fits(n, size) ==
  /\ n \in Nat
  /\ size = 1 => n < 256
  /\ size = 2 => n < 65536
  /\ size = 4 => n < 4294967296

\* The bytes of a number make the number again.
LEMMA DigitsIs ==
  ASSUME NEW n \in Nat, NEW d, d = Digits(n)
  PROVE  /\ d \in Seq(0..255) /\ Len(d) = 4
         /\ \A i \in 1..4 : d[i] \in 0..255
         /\ n < 256 => n = d[1]
         /\ n < 65536 => n = d[1] + 256 * d[2]
         /\ n < 4294967296 => n = d[1] + 256 * d[2] + 65536 * d[3] + 16777216 * d[4]
<1>1. PICK w \in Nat : w = n \div 256
  OBVIOUS
<1>2. PICK w2 \in Nat : w2 = w \div 256
  OBVIOUS
<1>3. PICK w3 \in Nat : w3 = w2 \div 256
  OBVIOUS
<1>4. PICK w4 \in Nat : w4 = w3 \div 256
  OBVIOUS
<1>5. PICK r1 \in 0..255 : r1 = n % 256
  OBVIOUS
<1>6. PICK r2 \in 0..255 : r2 = w % 256
  OBVIOUS
<1>7. PICK r3 \in 0..255 : r3 = w2 % 256
  OBVIOUS
<1>8. PICK r4 \in 0..255 : r4 = w3 % 256
  OBVIOUS
<1>9. n \div 65536 = w2 /\ n \div 16777216 = w3
  BY <1>1, <1>2, <1>3, DivDiv
<1>10. d = <<r1, r2, r3, r4>>
  BY <1>1, <1>5, <1>6, <1>7, <1>8, <1>9 DEF Digits
<1>11. n = 256 * w + r1
  BY <1>1, <1>5, DivMod
<1>12. w = 256 * w2 + r2
  BY <1>2, <1>6, DivMod
<1>13. w2 = 256 * w3 + r3
  BY <1>3, <1>7, DivMod
<1>14. w3 = 256 * w4 + r4
  BY <1>4, <1>8, DivMod
<1>15. n < 256 => n = r1
  BY <1>11
<1>16. n < 65536 => n = r1 + 256 * r2
  BY <1>11, <1>12
<1>17. n < 4294967296 => w4 = 0
  BY <1>11, <1>12, <1>13, <1>14
<1>18. n < 4294967296 => n = r1 + 256 * r2 + 65536 * r3 + 16777216 * r4
  BY <1>11, <1>12, <1>13, <1>14, <1>17
<1> QED
  BY <1>10, <1>15, <1>16, <1>18

\* A buffer of some length.
Buffers(len) == [1..len -> Byte]

\* A buffer is a sequence of bytes.
LEMMA BufferIs ==
  ASSUME NEW len \in Nat, NEW b \in Buffers(len)
  PROVE  b \in Seq(Byte) /\ Len(b) = len
  BY DEF Buffers

\* s is at an offset of b, and so is a number.
Lies(b, offset, s) == \A i \in 1..Len(s) : b[offset + i] = s[i]

Holds(b, offset, size, n) == \A i \in 1..size : b[offset + i] = Digits(n)[i]

\* r is b but for the bytes behind the first ones, up to others.
Kept(r, b, len, from, to) == \A i \in 1..len : (i <= from \/ i > to) => r[i] = b[i]

\* Bytes are written at their offset, and others are left alone.
LEMMA PutIs ==
  ASSUME NEW len \in Nat, NEW b \in Buffers(len), NEW offset \in Nat, NEW s \in Seq(Byte),
         offset + Len(s) <= len, NEW r, r = Put(b, offset, s)
  PROVE  /\ r \in Buffers(len)
         /\ Kept(r, b, len, offset, offset + Len(s))
         /\ Lies(r, offset, s)
<1>1. b \in Seq(Byte) /\ Len(b) = len
  BY BufferIs
<1>2. r = [i \in 1..len |->
             IF i \in (offset + 1)..(offset + Len(s)) THEN s[i - offset] ELSE b[i]]
  BY <1>1 DEF Put
<1>3. ASSUME NEW i \in 1..len PROVE r[i] \in Byte
  <2>1. CASE i \in (offset + 1)..(offset + Len(s))
    <3>1. r[i] = s[i - offset] /\ i - offset \in 1..Len(s)
      BY <1>2, <2>1
    <3> QED
      BY <3>1
  <2>2. CASE i \notin (offset + 1)..(offset + Len(s))
    BY <1>1, <1>2, <2>2
  <2> QED
    BY <2>1, <2>2
<1>4. r \in Buffers(len)
  BY <1>2, <1>3 DEF Buffers
<1>5. \A i \in 1..len : (i <= offset \/ i > offset + Len(s)) => r[i] = b[i]
  BY <1>2
<1>6. ASSUME NEW i \in 1..Len(s) PROVE r[offset + i] = s[i]
  <2>1. /\ offset + i \in (offset + 1)..(offset + Len(s)) /\ offset + i \in 1..len
        /\ (offset + i) - offset = i
    OBVIOUS
  <2> QED
    BY <1>2, <2>1
<1> QED
  BY <1>4, <1>5, <1>6 DEF Lies, Kept

\* So is a number.
LEMMA PutNumberIs ==
  ASSUME NEW len \in Nat, NEW b \in Buffers(len),
         NEW offset \in Nat, NEW size \in {1, 2, 4},
         NEW n \in Nat, offset + size <= len, NEW r, r = PutNumber(b, offset, size, n)
  PROVE  /\ r \in Buffers(len)
         /\ Kept(r, b, len, offset, offset + size)
         /\ Holds(r, offset, size, n)
<1>1. PICK d : d = Digits(n)
  OBVIOUS
<1>2. d \in Seq(Byte) /\ Len(d) = 4
  BY <1>1, DigitsIs DEF Byte
<1>3. PICK l : l = SubSeq(d, 1, size)
  OBVIOUS
<1>4. l \in Seq(Byte) /\ Len(l) = size /\ \A i \in 1..size : l[i] = d[i]
  BY <1>2, <1>3
<1>5. r = Put(b, offset, l)
  BY <1>1, <1>3 DEF PutNumber, Little
<1>6. /\ r \in Buffers(len)
      /\ Kept(r, b, len, offset, offset + size)
      /\ Lies(r, offset, l)
  BY <1>4, <1>5, PutIs
<1>7. Holds(r, offset, size, n)
  BY <1>1, <1>4, <1>6 DEF Lies, Holds
<1> QED
  BY <1>6, <1>7

\* A number is read where it was written.
LEMMA GetNumberIs ==
  ASSUME NEW len \in Nat, NEW b \in Buffers(len),
         NEW offset \in Nat, NEW size \in {1, 2, 4},
         NEW n, Fits(n, size), offset + size <= len, Holds(b, offset, size, n)
  PROVE  GetNumber(b, offset, size) = n
<1>1. b \in Seq(Byte) /\ Len(b) = len
  BY BufferIs
<1>2. PICK g : g = Get(b, offset, size)
  OBVIOUS
<1>3. PICK d : d = Digits(n)
  OBVIOUS
<1>4. \A i \in 1..size : g[i] = d[i]
  <2>1. \A i \in 1..size : g[i] = b[offset + i]
    BY <1>1, <1>2 DEF Get
  <2> QED
    BY <1>3, <2>1 DEF Holds
<1>5. /\ n < 256 => n = d[1]
      /\ n < 65536 => n = d[1] + 256 * d[2]
      /\ n < 4294967296 => n = d[1] + 256 * d[2] + 65536 * d[3] + 16777216 * d[4]
  BY <1>3, DigitsIs DEF Fits
<1>6. CASE size = 1
  BY <1>2, <1>4, <1>5, <1>6 DEF GetNumber, Fits
<1>7. CASE size = 2
  BY <1>2, <1>4, <1>5, <1>7 DEF GetNumber, Fits
<1>8. CASE size = 4
  BY <1>2, <1>4, <1>5, <1>8 DEF GetNumber, Fits
<1> QED
  BY <1>6, <1>7, <1>8

\* Bytes are read where they were written.
LEMMA GetIs ==
  ASSUME NEW len \in Nat, NEW b \in Buffers(len), NEW offset \in Nat, NEW s \in Seq(Byte),
         offset + Len(s) <= len, Lies(b, offset, s)
  PROVE  Get(b, offset, Len(s)) = s
<1>1. b \in Seq(Byte) /\ Len(b) = len
  BY BufferIs
<1>2. PICK g : g = Get(b, offset, Len(s))
  OBVIOUS
<1>3. \A i \in 1..Len(s) : offset + i <= len
  OBVIOUS
<1>4. g = [i \in 1..Len(s) |-> b[offset + i]]
  BY <1>1, <1>2, <1>3 DEF Get
<1>5. \A i \in 1..Len(s) : g[i] = s[i]
  BY <1>4 DEF Lies
<1>6. g \in Seq(Byte) /\ Len(g) = Len(s)
  BY <1>4, <1>5
<1>7. g = s
  BY <1>5, <1>6, SameElements
<1> QED
  BY <1>2, <1>7

\* A number of 32 bits fits four bytes, and one of 16 bits two.
LEMMA DWordFits ==
  ASSUME NEW n \in DWord
  PROVE  Fits(n, 4)
<1>1. n \in Nat /\ n \div 16777216 < 256
  BY DEF DWord
<1>2. n < 4294967296
  BY <1>1
<1> QED
  BY <1>1, <1>2 DEF Fits

\* The length of what the buffers take.
LEMMA DataFits ==
  ASSUME NEW d \in Data
  PROVE  d \in Seq(Byte) /\ Len(d) \in Nat /\ Fits(Len(d), 4) /\ Fits(Len(d), 2)
<1>1. DataMax \in Nat /\ DataMax \div 256 < 256
  BY ScriptAssumption DEF Word
<1>2. DataMax < 65536
  BY <1>1
<1>3. d \in Seq(Byte) /\ Len(d) <= DataMax
  BY DEF Data
<1>4. Len(d) \in Nat
  BY <1>3
<1> QED
  BY <1>1, <1>2, <1>3, <1>4 DEF Fits

\* dm_common_encode and dm_common_decode: the header, in front of the rest.
LEMMA HeadedIs ==
  ASSUME NEW len \in Nat, len >= MsgSize, NEW b \in Buffers(len), NEW cmd, Fits(cmd, 4),
         NEW recode, Fits(recode, 4), NEW r, r = Headed(b, cmd, recode, 0)
  PROVE  /\ r \in Buffers(len) /\ Kept(r, b, len, 0, MsgSize)
         /\ Command(r) = cmd /\ Recode(r) = recode
<1>0. MsgSize = 18
  BY DEF MsgSize
<1> DEFINE z == [i \in 1..MsgSize |-> 0]
<1>1. z \in Seq(Byte) /\ Len(z) = 18
  BY <1>0 DEF Byte
<1>2. PICK b0 : b0 = Put(b, 0, z)
  OBVIOUS
<1> HIDE DEF z
<1>3. b0 \in Buffers(len) /\ Kept(b0, b, len, 0, 0 + Len(z))
  <2>1. 0 + Len(z) <= len
    BY <1>0, <1>1
  <2> QED
    BY <1>1, <1>2, <2>1, PutIs
<1>4. cmd \in Nat /\ recode \in Nat
  BY DEF Fits
<1>5. PICK b1 : b1 = PutNumber(b0, 0, 4, cmd)
  OBVIOUS
<1>6. b1 \in Buffers(len) /\ Kept(b1, b0, len, 0, 0 + 4) /\ Holds(b1, 0, 4, cmd)
  BY <1>0, <1>3, <1>4, <1>5, PutNumberIs
<1>7. PICK b2 : b2 = PutNumber(b1, 4, 4, recode)
  OBVIOUS
<1>8. b2 \in Buffers(len) /\ Kept(b2, b1, len, 4, 4 + 4) /\ Holds(b2, 4, 4, recode)
  BY <1>0, <1>4, <1>6, <1>7, PutNumberIs
<1>9. r = PutNumber(b2, 8, 2, 0)
  BY <1>2, <1>5, <1>7 DEF Headed, z
<1>10. r \in Buffers(len) /\ Kept(r, b2, len, 8, 8 + 2)
  BY <1>0, <1>8, <1>9, PutNumberIs
<1>11. Holds(r, 0, 4, cmd) /\ Holds(r, 4, 4, recode)
  <2>1. \A i \in 1..4 : r[0 + i] = b1[0 + i] /\ r[4 + i] = b2[4 + i]
    BY <1>0, <1>8, <1>10 DEF Kept
  <2> QED
    BY <1>6, <1>8, <2>1 DEF Holds
<1>12. Command(r) = cmd
  BY <1>0, <1>10, <1>11, GetNumberIs DEF Command
<1>13. Recode(r) = recode
  BY <1>0, <1>10, <1>11, GetNumberIs DEF Recode
<1>14. Kept(r, b, len, 0, MsgSize)
  BY <1>0, <1>1, <1>3, <1>6, <1>8, <1>10 DEF Kept
<1> QED
  BY <1>10, <1>12, <1>13, <1>14

-----------------------------------------------------------------------------
\* A new buffer holds bytes.
LEMMA NewBufferIs ==
  ASSUME NEW len \in Nat
  PROVE  Buffer(len) \in Buffers(len)
<1>1. Junk \in Byte
  BY JunkAssumption DEF Byte
<1> QED
  BY <1>1 DEF Buffer, Buffers

\* What is read of r, a request or a response.
ServiceSays(r, cmd, data, sa, ta) ==
  /\ r \in Seq(Byte) /\ Command(r) = cmd /\ ServiceFields(r).data = data
  /\ ServiceFields(r).sa = sa /\ ServiceFields(r).ta = ta

\* diag_master_service_request and dm_api_service_response: the other side reads
\* the addresses and the bytes that were sent.
LEMMA ServiceMessageIs ==
  ASSUME NEW cmd \in 0..255, NEW data \in Seq(Byte), Fits(Len(data), 4),
         NEW sa \in DWord, NEW ta \in DWord, NEW tatype \in Nat,
         NEW r, r = ServiceMessage(cmd, data, sa, ta, tatype)
  PROVE  ServiceSays(r, cmd, data, sa, ta)
<1>1. PICK l \in Nat : l = Len(data) /\ Fits(l, 4)
  OBVIOUS
<1>2. PICK len \in Nat : len = 38 + l
  OBVIOUS
<1>3. data \in Seq(Byte)
  OBVIOUS
<1>4. /\ SaOffset = 22 /\ TaOffset = 26 /\ TaTypeOffset = 30 /\ PayloadLenOffset = 34
      /\ PayloadOffset = 38 /\ MsgSize = 18
  BY DEF SaOffset, TaOffset, TaTypeOffset, PayloadLenOffset, PayloadOffset, MsgSize
<1>5. Fits(sa, 4) /\ Fits(ta, 4) /\ sa \in Nat /\ ta \in Nat
  BY DWordFits DEF Fits
<1>6. PICK b0 : b0 = Buffer(len)
  OBVIOUS
<1>7. b0 \in Buffers(len)
  BY <1>6, NewBufferIs
<1>8. PICK b1 : b1 = PutNumber(b0, 22, 4, sa)
  OBVIOUS
<1>9. b1 \in Buffers(len) /\ Holds(b1, 22, 4, sa)
  BY <1>2, <1>5, <1>7, <1>8, PutNumberIs
<1>10. PICK b2 : b2 = PutNumber(b1, 26, 4, ta)
  OBVIOUS
<1>11. b2 \in Buffers(len) /\ Kept(b2, b1, len, 26, 26 + 4) /\ Holds(b2, 26, 4, ta)
  BY <1>2, <1>5, <1>9, <1>10, PutNumberIs
<1>12. PICK b3 : b3 = PutNumber(b2, 30, 4, tatype)
  OBVIOUS
<1>13. b3 \in Buffers(len) /\ Kept(b3, b2, len, 30, 30 + 4)
  BY <1>2, <1>11, <1>12, PutNumberIs
<1>14. PICK b4 : b4 = PutNumber(b3, 34, 4, l)
  OBVIOUS
<1>15. b4 \in Buffers(len) /\ Kept(b4, b3, len, 34, 34 + 4) /\ Holds(b4, 34, 4, l)
  BY <1>2, <1>13, <1>14, PutNumberIs
<1>16. PICK b5 : b5 = Put(b4, 38, data)
  OBVIOUS
<1>17. b5 \in Buffers(len) /\ Kept(b5, b4, len, 38, 38 + Len(data)) /\ Lies(b5, 38, data)
  BY <1>1, <1>2, <1>3, <1>15, <1>16, PutIs
<1>18. r = Headed(b5, cmd, 0, 0)
  BY <1>1, <1>2, <1>4, <1>6, <1>8, <1>10, <1>12, <1>14, <1>16 DEF ServiceMessage
<1>19. Fits(cmd, 4) /\ Fits(0, 4)
  BY DEF Fits
<1>20. len >= MsgSize
  BY <1>2, <1>4
<1>21. r \in Buffers(len) /\ Kept(r, b5, len, 0, MsgSize) /\ Command(r) = cmd
  BY <1>17, <1>18, <1>19, <1>20, HeadedIs
<1>22. Holds(r, 22, 4, sa)
  <2>1. \A i \in 1..4 : r[22 + i] = b1[22 + i]
    BY <1>2, <1>4, <1>11, <1>13, <1>15, <1>17, <1>21 DEF Kept
  <2> QED
    BY <1>9, <2>1 DEF Holds
<1>23. Holds(r, 26, 4, ta)
  <2>1. \A i \in 1..4 : r[26 + i] = b2[26 + i]
    BY <1>2, <1>4, <1>13, <1>15, <1>17, <1>21 DEF Kept
  <2> QED
    BY <1>11, <2>1 DEF Holds
<1>24. Holds(r, 34, 4, l)
  <2>1. \A i \in 1..4 : r[34 + i] = b4[34 + i]
    BY <1>2, <1>4, <1>17, <1>21 DEF Kept
  <2> QED
    BY <1>15, <2>1 DEF Holds
<1>25. Lies(r, 38, data)
  <2>1. \A i \in 1..l : r[38 + i] = b5[38 + i]
    BY <1>2, <1>4, <1>21 DEF Kept
  <2> QED
    BY <1>1, <1>17, <2>1 DEF Lies
<1>26. GetNumber(r, 22, 4) = sa
  BY <1>2, <1>5, <1>21, <1>22, GetNumberIs
<1>27. GetNumber(r, 26, 4) = ta
  BY <1>2, <1>5, <1>21, <1>23, GetNumberIs
<1>28. GetNumber(r, 34, 4) = l
  BY <1>1, <1>2, <1>21, <1>24, GetNumberIs
<1>29. Get(r, 38, Len(data)) = data
  BY <1>1, <1>2, <1>3, <1>21, <1>25, GetIs
<1>30. r \in Seq(Byte)
  BY <1>21, BufferIs
<1> QED
  BY <1>1, <1>4, <1>21, <1>26, <1>27, <1>28, <1>29, <1>30 DEF ServiceFields, ServiceSays

\* diag_master_service_request_result and its handler in the API.
LEMMA ResultMessageIs ==
  ASSUME NEW id \in DWord, NEW data \in Data, NEW r, r = ResultMessage(id, data)
  PROVE  /\ r \in Seq(Byte) /\ Command(r) = ServiceRequestResult
         /\ ResultFields(r).rr_callid = id /\ ResultFields(r).data = data
<1>1. PICK l \in Nat : l = Len(data) /\ Fits(l, 4)
  BY DataFits
<1>2. PICK len \in Nat : len = 26 + l
  OBVIOUS
<1>3. data \in Seq(Byte)
  BY DataFits
<1>4. CallIdOffset = 18 /\ ResultLenOffset = 22 /\ ResultOffset = 26 /\ MsgSize = 18
  BY DEF CallIdOffset, ResultLenOffset, ResultOffset, MsgSize
<1>5. Fits(id, 4) /\ id \in Nat
  BY DWordFits DEF Fits
<1>6. PICK b0 : b0 = Buffer(len)
  OBVIOUS
<1>7. b0 \in Buffers(len)
  BY <1>6, NewBufferIs
<1>8. PICK b1 : b1 = PutNumber(b0, 18, 4, id)
  OBVIOUS
<1>9. b1 \in Buffers(len) /\ Holds(b1, 18, 4, id)
  BY <1>2, <1>5, <1>7, <1>8, PutNumberIs
<1>10. PICK b2 : b2 = PutNumber(b1, 22, 4, l)
  OBVIOUS
<1>11. b2 \in Buffers(len) /\ Kept(b2, b1, len, 22, 22 + 4) /\ Holds(b2, 22, 4, l)
  BY <1>2, <1>9, <1>10, PutNumberIs
<1>12. PICK b3 : b3 = Put(b2, 26, data)
  OBVIOUS
<1>13. b3 \in Buffers(len) /\ Kept(b3, b2, len, 26, 26 + Len(data)) /\ Lies(b3, 26, data)
  BY <1>1, <1>2, <1>3, <1>11, <1>12, PutIs
<1>14. r = Headed(b3, ServiceRequestResult, 0, 0)
  BY <1>1, <1>2, <1>4, <1>6, <1>8, <1>10, <1>12 DEF ResultMessage
<1>15. Fits(ServiceRequestResult, 4) /\ Fits(0, 4)
  BY DEF Fits, ServiceRequestResult
<1>16. len >= MsgSize
  BY <1>2, <1>4
<1>17. /\ r \in Buffers(len) /\ Kept(r, b3, len, 0, MsgSize)
       /\ Command(r) = ServiceRequestResult
  BY <1>13, <1>14, <1>15, <1>16, HeadedIs
<1>18. Holds(r, 18, 4, id)
  <2>1. \A i \in 1..4 : r[18 + i] = b1[18 + i]
    BY <1>2, <1>4, <1>11, <1>13, <1>17 DEF Kept
  <2> QED
    BY <1>9, <2>1 DEF Holds
<1>19. Holds(r, 22, 4, l)
  <2>1. \A i \in 1..4 : r[22 + i] = b2[22 + i]
    BY <1>2, <1>4, <1>13, <1>17 DEF Kept
  <2> QED
    BY <1>11, <2>1 DEF Holds
<1>20. Lies(r, 26, data)
  <2>1. \A i \in 1..l : r[26 + i] = b3[26 + i]
    BY <1>2, <1>4, <1>17 DEF Kept
  <2> QED
    BY <1>1, <1>13, <2>1 DEF Lies
<1>21. GetNumber(r, 18, 4) = id
  BY <1>2, <1>5, <1>17, <1>18, GetNumberIs
<1>22. GetNumber(r, 22, 4) = l
  BY <1>1, <1>2, <1>17, <1>19, GetNumberIs
<1>23. Get(r, 26, Len(data)) = data
  BY <1>1, <1>2, <1>3, <1>17, <1>20, GetIs
<1>24. r \in Seq(Byte)
  BY <1>17, BufferIs
<1> QED
  BY <1>1, <1>4, <1>17, <1>21, <1>22, <1>23, <1>24 DEF ResultFields

\* What is read of r, a seed or a key, and of r, a finish.
SaSays(r, cmd, level, data) ==
  /\ r \in Seq(Byte) /\ Command(r) = cmd
  /\ SaFields(r).level = level /\ SaFields(r).data = data

FinishSays(r, recode, ind, resp) ==
  /\ r \in Seq(Byte) /\ Command(r) = ScriptResult /\ Recode(r) = recode
  /\ FinishFields(r).ind = ind /\ FinishFields(r).resp = resp

\* diag_master_service_sa_seed_request and dm_api_udsc_sa_key, and their handlers.
LEMMA SaMessageIs ==
  ASSUME NEW cmd \in 0..255, NEW level \in Byte, NEW data \in Seq(Byte), Fits(Len(data), 2),
         NEW r, r = SaMessage(cmd, level, data)
  PROVE  SaSays(r, cmd, level, data)
<1>1. PICK l \in Nat : l = Len(data) /\ Fits(l, 2)
  OBVIOUS
<1>2. PICK len \in Nat : len = 21 + l
  OBVIOUS
<1>4. LevelOffset = 18 /\ SaSizeOffset = 19 /\ SaDataOffset = 21 /\ MsgSize = 18
  BY DEF LevelOffset, SaSizeOffset, SaDataOffset, MsgSize
<1>5. Fits(level, 1) /\ level \in Nat
  BY DEF Fits, Byte
<1>6. PICK b0 : b0 = Buffer(len)
  OBVIOUS
<1>7. b0 \in Buffers(len)
  BY <1>6, NewBufferIs
<1>8. PICK b1 : b1 = PutNumber(b0, 18, 1, level)
  OBVIOUS
<1>9. b1 \in Buffers(len) /\ Holds(b1, 18, 1, level)
  BY <1>2, <1>5, <1>7, <1>8, PutNumberIs
<1>10. PICK b2 : b2 = PutNumber(b1, 19, 2, l)
  OBVIOUS
<1>11. b2 \in Buffers(len) /\ Kept(b2, b1, len, 19, 19 + 2) /\ Holds(b2, 19, 2, l)
  BY <1>2, <1>9, <1>10, PutNumberIs
<1>12. PICK b3 : b3 = Put(b2, 21, data)
  OBVIOUS
<1>13. b3 \in Buffers(len) /\ Kept(b3, b2, len, 21, 21 + Len(data)) /\ Lies(b3, 21, data)
  BY <1>1, <1>2, <1>11, <1>12, PutIs
<1>14. r = Headed(b3, cmd, 0, 0)
  BY <1>1, <1>2, <1>4, <1>6, <1>8, <1>10, <1>12 DEF SaMessage
<1>15. Fits(cmd, 4) /\ Fits(0, 4)
  BY DEF Fits
<1>16. len >= MsgSize
  BY <1>2, <1>4
<1>17. r \in Buffers(len) /\ Kept(r, b3, len, 0, MsgSize) /\ Command(r) = cmd
  BY <1>13, <1>14, <1>15, <1>16, HeadedIs
<1>18. Holds(r, 18, 1, level)
  <2>1. \A i \in 1..1 : r[18 + i] = b1[18 + i]
    BY <1>2, <1>4, <1>11, <1>13, <1>17 DEF Kept
  <2> QED
    BY <1>9, <2>1 DEF Holds
<1>19. Holds(r, 19, 2, l)
  <2>1. \A i \in 1..2 : r[19 + i] = b2[19 + i]
    BY <1>2, <1>4, <1>13, <1>17 DEF Kept
  <2> QED
    BY <1>11, <2>1 DEF Holds
<1>20. Lies(r, 21, data)
  <2>1. \A i \in 1..l : r[21 + i] = b3[21 + i]
    BY <1>2, <1>4, <1>17 DEF Kept
  <2> QED
    BY <1>1, <1>13, <2>1 DEF Lies
<1>21. GetNumber(r, 18, 1) = level
  BY <1>2, <1>5, <1>17, <1>18, GetNumberIs
<1>22. GetNumber(r, 19, 2) = l
  BY <1>1, <1>2, <1>17, <1>19, GetNumberIs
<1>23. Get(r, 21, Len(data)) = data
  BY <1>1, <1>2, <1>17, <1>20, GetIs
<1>24. r \in Seq(Byte)
  BY <1>17, BufferIs
<1> QED
  BY <1>1, <1>4, <1>17, <1>21, <1>22, <1>23, <1>24 DEF SaFields, SaSays

\* diag_master_all_service_result and its handler in the API: both lengths are
\* where the handler looks for them, and more is sent than is read.
LEMMA FinishMessageIs ==
  ASSUME NEW recode \in 0..255, NEW ind \in Data, NEW resp \in Data,
         NEW r, r = FinishMessage(recode, ind, resp)
  PROVE  FinishSays(r, recode, ind, resp)
<1>1. PICK l \in Nat : l = Len(ind) /\ Fits(l, 4)
  BY DataFits
<1>2. PICK m \in Nat : m = Len(resp) /\ Fits(m, 4)
  BY DataFits
<1>3. ind \in Seq(Byte) /\ resp \in Seq(Byte)
  BY DataFits
<1>4. IndLenOffset = 18 /\ IndOffset = 22 /\ MsgSize = 18
  BY DEF IndLenOffset, IndOffset, MsgSize
<1>5. PICK o \in Nat : o = 22 + l
  OBVIOUS
<1>6. PICK q \in Nat : q = o + 4
  OBVIOUS
<1>7. PICK len \in Nat : len = 18 + o + 4 + m
  OBVIOUS
<1>8. PICK b0 : b0 = Buffer(len)
  OBVIOUS
<1>9. b0 \in Buffers(len)
  BY <1>8, NewBufferIs
<1>10. PICK b1 : b1 = PutNumber(b0, 18, 4, l)
  OBVIOUS
<1>11. b1 \in Buffers(len) /\ Holds(b1, 18, 4, l)
  BY <1>7, <1>9, <1>10, PutNumberIs
<1>12. PICK b2 : b2 = Put(b1, 22, ind)
  OBVIOUS
<1>13. b2 \in Buffers(len) /\ Kept(b2, b1, len, 22, 22 + Len(ind)) /\ Lies(b2, 22, ind)
  BY <1>1, <1>3, <1>5, <1>7, <1>11, <1>12, PutIs
<1>14. PICK b3 : b3 = PutNumber(b2, o, 4, m)
  OBVIOUS
<1>15. b3 \in Buffers(len) /\ Kept(b3, b2, len, o, o + 4) /\ Holds(b3, o, 4, m)
  BY <1>7, <1>13, <1>14, PutNumberIs
<1>16. PICK b4 : b4 = Put(b3, q, resp)
  OBVIOUS
<1>17. b4 \in Buffers(len) /\ Kept(b4, b3, len, q, q + Len(resp)) /\ Lies(b4, q, resp)
  BY <1>2, <1>3, <1>6, <1>7, <1>15, <1>16, PutIs
<1>18. r = Headed(b4, ScriptResult, recode, 0)
  BY <1>1, <1>2, <1>4, <1>5, <1>6, <1>7, <1>8, <1>10, <1>12, <1>14, <1>16
  DEF FinishMessage
<1>19. Fits(ScriptResult, 4) /\ Fits(recode, 4)
  BY DEF Fits, ScriptResult
<1>20. len >= MsgSize
  BY <1>4, <1>7
<1>21. /\ r \in Buffers(len) /\ Kept(r, b4, len, 0, MsgSize)
       /\ Command(r) = ScriptResult /\ Recode(r) = recode
  BY <1>17, <1>18, <1>19, <1>20, HeadedIs
<1>22. Holds(r, 18, 4, l)
  <2>1. \A i \in 1..4 : r[18 + i] = b1[18 + i]
    BY <1>4, <1>5, <1>6, <1>7, <1>13, <1>15, <1>17, <1>21 DEF Kept
  <2> QED
    BY <1>11, <2>1 DEF Holds
<1>23. Lies(r, 22, ind)
  <2>1. \A i \in 1..l : r[22 + i] = b2[22 + i]
    BY <1>4, <1>5, <1>6, <1>7, <1>15, <1>17, <1>21 DEF Kept
  <2> QED
    BY <1>1, <1>13, <2>1 DEF Lies
<1>24. Holds(r, o, 4, m)
  <2>1. \A i \in 1..4 : r[o + i] = b3[o + i]
    BY <1>4, <1>5, <1>6, <1>7, <1>17, <1>21 DEF Kept
  <2> QED
    BY <1>15, <2>1 DEF Holds
<1>25. Lies(r, q, resp)
  <2>1. \A i \in 1..m : r[q + i] = b4[q + i]
    BY <1>4, <1>5, <1>6, <1>7, <1>21 DEF Kept
  <2> QED
    BY <1>2, <1>17, <2>1 DEF Lies
<1>26. GetNumber(r, 18, 4) = l
  BY <1>1, <1>7, <1>21, <1>22, GetNumberIs
<1>27. GetNumber(r, o, 4) = m
  BY <1>2, <1>7, <1>21, <1>24, GetNumberIs
<1>28. Get(r, 22, Len(ind)) = ind
  BY <1>1, <1>3, <1>5, <1>7, <1>21, <1>23, GetIs
<1>29. Get(r, q, Len(resp)) = resp
  BY <1>2, <1>3, <1>6, <1>7, <1>21, <1>25, GetIs
<1>30. r \in Seq(Byte)
  BY <1>21, BufferIs
<1>31. FinishFields(r).ind = ind /\ FinishFields(r).resp = resp
  BY <1>1, <1>2, <1>4, <1>5, <1>6, <1>26, <1>27, <1>28, <1>29 DEF FinishFields
<1> QED
  BY <1>21, <1>30, <1>31 DEF FinishSays

-----------------------------------------------------------------------------
(***************************************************************************)
(* Messages on their way                                                   *)
(***************************************************************************)

\* The kinds of messages the diag master sends and reads.
LEMMA ServiceKind ==
  ASSUME NEW cmd \in {ServiceIndication, ServiceResponse},
         NEW data \in Seq(Byte), Fits(Len(data), 4), NEW sa \in DWord, NEW ta \in DWord,
         NEW tatype \in Nat, NEW of \in Abouts,
         NEW m, m = Message(ServiceMessage(cmd, data, sa, ta, tatype), of)
  PROVE  /\ m \in Messages /\ m.of = of /\ Command(m.bytes) = cmd
         /\ ServiceFields(m.bytes).data = data
         /\ ServiceFields(m.bytes).sa = sa /\ ServiceFields(m.bytes).ta = ta
         /\ cmd = ServiceIndication =>
              Kind(m) = IF of.item = 0 THEN "present" ELSE "request"
         /\ cmd = ServiceResponse =>
              Kind(m) = IF IsPending(data) THEN "pending" ELSE "final"
<1>0. PICK r : r = ServiceMessage(cmd, data, sa, ta, tatype)
  OBVIOUS
<1>1. cmd \in 0..255
  BY DEF ServiceIndication, ServiceResponse
<1>2. /\ r \in Seq(Byte) /\ Command(r) = cmd
      /\ ServiceFields(r).data = data
      /\ ServiceFields(r).sa = sa /\ ServiceFields(r).ta = ta
  <2>1. ServiceSays(r, cmd, data, sa, ta)
    BY <1>0, <1>1, ServiceMessageIs, Zenon
  <2> QED
    BY <2>1 DEF ServiceSays
<1>3. m = [bytes |-> r, of |-> of]
  BY <1>0 DEF Message
<1>4. m \in Messages /\ m.bytes = r /\ m.of = of
  BY <1>2, <1>3 DEF Messages
<1>5. ServiceIndication # ServiceResponse
  BY DEF ServiceIndication, ServiceResponse
<1>6. cmd = ServiceIndication => Kind(m) = IF of.item = 0 THEN "present" ELSE "request"
  BY <1>2, <1>4 DEF Kind
<1>7. cmd = ServiceResponse => Kind(m) = IF IsPending(data) THEN "pending" ELSE "final"
  BY <1>2, <1>4, <1>5 DEF Kind
<1> QED
  BY <1>2, <1>4, <1>6, <1>7

\* So for an indication.
LEMMA IndicationKind ==
  ASSUME NEW data \in Seq(Byte), Fits(Len(data), 4), NEW sa \in DWord, NEW ta \in DWord,
         NEW tatype \in Nat, NEW of \in Abouts,
         NEW m, m = Message(ServiceMessage(ServiceIndication, data, sa, ta, tatype), of)
  PROVE  /\ m \in Messages /\ m.of = of
         /\ ServiceFields(m.bytes).data = data
         /\ ServiceFields(m.bytes).sa = sa /\ ServiceFields(m.bytes).ta = ta
         /\ Kind(m) = IF of.item = 0 THEN "present" ELSE "request"
<1>1. PICK cmd \in {ServiceIndication, ServiceResponse} : cmd = ServiceIndication
  OBVIOUS
<1>2. m = Message(ServiceMessage(cmd, data, sa, ta, tatype), of)
  BY <1>1
<1> QED
  BY <1>1, <1>2, ServiceKind

\* A result on its way.
LEMMA ResultKind ==
  ASSUME NEW id \in DWord, NEW data \in Data, NEW of \in Abouts,
         NEW m, m = Message(ResultMessage(id, data), of)
  PROVE  /\ m \in Messages /\ m.of = of /\ Kind(m) = "result"
         /\ ResultFields(m.bytes).rr_callid = id /\ ResultFields(m.bytes).data = data
<1>0. PICK r : r = ResultMessage(id, data)
  OBVIOUS
<1>1. /\ r \in Seq(Byte) /\ Command(r) = ServiceRequestResult
      /\ ResultFields(r).rr_callid = id /\ ResultFields(r).data = data
  BY <1>0, ResultMessageIs
<1>2. m = [bytes |-> r, of |-> of]
  BY <1>0 DEF Message
<1>3. m \in Messages /\ m.bytes = r /\ m.of = of
  BY <1>1, <1>2 DEF Messages
<1>4. Kind(m) = "result"
  BY <1>1, <1>3 DEF Kind, ServiceIndication, ServiceResponse, ServiceRequestResult
<1> QED
  BY <1>1, <1>3, <1>4

\* A seed or a key on its way.
LEMMA SaKind ==
  ASSUME NEW cmd \in {SaSeed, SaKey}, NEW level \in Byte, NEW data \in Seq(Byte),
         Fits(Len(data), 2), NEW of \in Abouts,
         NEW m, m = Message(SaMessage(cmd, level, data), of)
  PROVE  /\ m \in Messages /\ m.of = of
         /\ Kind(m) = IF cmd = SaSeed THEN "seed" ELSE "key"
         /\ SaFields(m.bytes).level = level /\ SaFields(m.bytes).data = data
<1>0. PICK r : r = SaMessage(cmd, level, data)
  OBVIOUS
<1>1. cmd \in 0..255
  BY DEF SaSeed, SaKey
<1>2. /\ r \in Seq(Byte) /\ Command(r) = cmd
      /\ SaFields(r).level = level /\ SaFields(r).data = data
  <2>1. SaSays(r, cmd, level, data)
    BY <1>0, <1>1, SaMessageIs, Zenon
  <2> QED
    BY <2>1 DEF SaSays
<1>3. m = [bytes |-> r, of |-> of]
  BY <1>0 DEF Message
<1>4. m \in Messages /\ m.bytes = r /\ m.of = of
  BY <1>2, <1>3 DEF Messages
<1>5. Kind(m) = IF cmd = SaSeed THEN "seed" ELSE "key"
  BY <1>2, <1>4 DEF Kind, ServiceIndication, ServiceResponse, ServiceRequestResult,
                    SaSeed, SaKey
<1> QED
  BY <1>2, <1>4, <1>5

\* A finish on its way.
FinishSent(m, recode, ind, resp, of) ==
  /\ m \in Messages /\ m.of = of /\ Kind(m) = "finish" /\ Recode(m.bytes) = recode
  /\ FinishFields(m.bytes).ind = ind /\ FinishFields(m.bytes).resp = resp

\* A message of the finish is a finish on its way, with its fields.
LEMMA FinishKind ==
  ASSUME NEW recode \in 0..255, NEW ind \in Data, NEW resp \in Data, NEW of \in Abouts,
         NEW m, m = Message(FinishMessage(recode, ind, resp), of)
  PROVE  FinishSent(m, recode, ind, resp, of)
<1>0. PICK r : r = FinishMessage(recode, ind, resp)
  OBVIOUS
<1>1. /\ r \in Seq(Byte) /\ Command(r) = ScriptResult /\ Recode(r) = recode
      /\ FinishFields(r).ind = ind /\ FinishFields(r).resp = resp
  <2>1. FinishSays(r, recode, ind, resp)
    BY <1>0, FinishMessageIs, Zenon
  <2> QED
    BY <2>1 DEF FinishSays
<1>2. m = [bytes |-> r, of |-> of]
  BY <1>0 DEF Message
<1>3. m \in Messages /\ m.bytes = r /\ m.of = of
  BY <1>1, <1>2 DEF Messages
<1>4. Kind(m) = "finish"
  BY <1>1, <1>3 DEF Kind, ServiceIndication, ServiceResponse, ServiceRequestResult,
                    SaSeed, SaKey, ScriptResult
<1> QED
  BY <1>1, <1>3, <1>4 DEF FinishSent

\* The command of a message tells its kind.
LEMMA KindOf ==
  ASSUME NEW m
  PROVE  /\ Command(m.bytes) = ServiceIndication =>
              Kind(m) = IF m.of.item = 0 THEN "present" ELSE "request"
         /\ Command(m.bytes) = ServiceResponse =>
              Kind(m) = IF IsPending(ServiceFields(m.bytes).data)
                          THEN "pending" ELSE "final"
         /\ Command(m.bytes) = ServiceRequestResult => Kind(m) = "result"
         /\ Command(m.bytes) = SaSeed => Kind(m) = "seed"
         /\ Command(m.bytes) = SaKey => Kind(m) = "key"
         /\ Command(m.bytes) = ScriptResult => Kind(m) = "finish"
  BY DEF Kind, ServiceIndication, ServiceResponse, ServiceRequestResult, SaSeed, SaKey,
         ScriptResult

-----------------------------------------------------------------------------
(***************************************************************************)
(* Queues                                                                  *)
(***************************************************************************)

\* What is left of a queue.
LEMMA TailIs ==
  ASSUME NEW S, NEW q \in Seq(S), q # <<>>
  PROVE  /\ Head(q) = q[1] /\ 1 \in 1..Len(q) /\ q[1] \in S
         /\ Tail(q) \in Seq(S) /\ Len(Tail(q)) = Len(q) - 1
         /\ \A k \in 1..Len(Tail(q)) : k + 1 \in 1..Len(q) /\ Tail(q)[k] = q[k + 1]
  OBVIOUS

\* A queue with one more.
LEMMA AppendIs ==
  ASSUME NEW S, NEW q \in Seq(S), NEW m \in S
  PROVE  /\ Append(q, m) \in Seq(S) /\ Len(Append(q, m)) = Len(q) + 1
         /\ \A k \in 1..Len(q) : Append(q, m)[k] = q[k]
         /\ Append(q, m)[Len(q) + 1] = m
  OBVIOUS

\* What holds of every message in a queue holds of those that are left.
LEMMA NoneTail ==
  ASSUME NEW q \in Seq(Messages), q # <<>>, NEW a, None(q, a)
  PROVE  None(Tail(q), a)
  BY TailIs DEF None

\* One message of a kind stays one.
LEMMA OnceTail ==
  ASSUME NEW q \in Seq(Messages), q # <<>>, NEW a, Once(q, a)
  PROVE  Once(Tail(q), a)
<1> SUFFICES ASSUME NEW j \in 1..Len(Tail(q)), NEW k \in 1..Len(Tail(q)),
                    Kind(Tail(q)[j]) = a, Kind(Tail(q)[k]) = a
             PROVE  j = k
  BY DEF Once
<1>1. j + 1 \in 1..Len(q) /\ k + 1 \in 1..Len(q) /\ Tail(q)[j] = q[j + 1]
      /\ Tail(q)[k] = q[k + 1]
  BY TailIs
<1>2. j + 1 = k + 1
  BY <1>1 DEF Once
<1>3. j \in Nat /\ k \in Nat
  BY TailIs
<1> QED
  BY <1>2, <1>3

\* The order stays.
LEMMA BeforeTail ==
  ASSUME NEW q \in Seq(Messages), q # <<>>, NEW a, NEW b, Before(q, a, b)
  PROVE  Before(Tail(q), a, b)
<1> SUFFICES ASSUME NEW j \in 1..Len(Tail(q)), NEW k \in 1..Len(Tail(q)),
                    Kind(Tail(q)[j]) = a, Kind(Tail(q)[k]) = b
             PROVE  j < k
  BY DEF Before
<1>1. j + 1 \in 1..Len(q) /\ k + 1 \in 1..Len(q) /\ Tail(q)[j] = q[j + 1]
      /\ Tail(q)[k] = q[k + 1]
  BY TailIs
<1>2. j + 1 < k + 1
  BY <1>1 DEF Before
<1>3. j \in Nat /\ k \in Nat
  BY TailIs
<1> QED
  BY <1>2, <1>3

\* The only one of its kind leaves none behind.
LEMMA OnceHead ==
  ASSUME NEW q \in Seq(Messages), q # <<>>, NEW a, Once(q, a), Kind(Head(q)) = a
  PROVE  None(Tail(q), a)
<1> SUFFICES ASSUME NEW k \in 1..Len(Tail(q)), Kind(Tail(q)[k]) = a
             PROVE  FALSE
  BY DEF None
<1>1. k + 1 \in 1..Len(q) /\ Tail(q)[k] = q[k + 1] /\ 1 \in 1..Len(q) /\ Head(q) = q[1]
  BY TailIs
<1>2. 1 = k + 1
  BY <1>1 DEF Once
<1>3. k \in Nat /\ k # 0
  BY TailIs
<1> QED
  BY <1>2, <1>3

\* Nothing is before the first message.
LEMMA BeforeHead ==
  ASSUME NEW q \in Seq(Messages), q # <<>>, NEW a, NEW b, Before(q, a, b), Kind(Head(q)) = b
  PROVE  None(q, a)
<1> SUFFICES ASSUME NEW k \in 1..Len(q), Kind(q[k]) = a
             PROVE  FALSE
  BY DEF None
<1>1. 1 \in 1..Len(q) /\ Head(q) = q[1]
  BY TailIs
<1>2. k < 1
  BY <1>1 DEF Before
<1> QED
  BY <1>2

\* The kind of the first message is in the queue.
LEMMA HeadThere ==
  ASSUME NEW q \in Seq(Messages), q # <<>>, NEW a, None(q, a)
  PROVE  Kind(Head(q)) # a
  BY TailIs DEF None

\* A message behind a queue.
LEMMA NoneAppend ==
  ASSUME NEW q \in Seq(Messages), NEW m \in Messages, NEW a, None(q, a), Kind(m) # a
  PROVE  None(Append(q, m), a)
<1> SUFFICES ASSUME NEW k \in 1..Len(Append(q, m))
             PROVE  Kind(Append(q, m)[k]) # a
  BY DEF None
<1>1. k \in 1..Len(q) \/ k = Len(q) + 1
  BY AppendIs
<1>2. CASE k \in 1..Len(q)
  BY <1>2, AppendIs DEF None
<1>3. CASE k = Len(q) + 1
  BY <1>3, AppendIs
<1> QED
  BY <1>1, <1>2, <1>3

\* The first of its kind may follow.
LEMMA OnceAppend ==
  ASSUME NEW q \in Seq(Messages), NEW m \in Messages, NEW a, Once(q, a),
         Kind(m) # a \/ None(q, a)
  PROVE  Once(Append(q, m), a)
<1> DEFINE r == Append(q, m)
<1> SUFFICES ASSUME NEW j \in 1..Len(r), NEW k \in 1..Len(r), Kind(r[j]) = a, Kind(r[k]) = a
             PROVE  j = k
  BY DEF Once
<1>1. /\ \A i \in 1..Len(q) : r[i] = q[i]
      /\ r[Len(q) + 1] = m
      /\ Len(r) = Len(q) + 1
  BY AppendIs
<1> HIDE DEF r
<1>2. (j \in 1..Len(q) \/ j = Len(q) + 1) /\ (k \in 1..Len(q) \/ k = Len(q) + 1)
  BY <1>1
<1>3. CASE j \in 1..Len(q) /\ k \in 1..Len(q)
  BY <1>1, <1>3 DEF Once
<1>4. CASE ~(j \in 1..Len(q)) /\ ~(k \in 1..Len(q))
  BY <1>2, <1>4
<1>5. CASE j \in 1..Len(q) /\ ~(k \in 1..Len(q))
  BY <1>1, <1>2, <1>5 DEF None
<1>6. CASE ~(j \in 1..Len(q)) /\ k \in 1..Len(q)
  BY <1>1, <1>2, <1>6 DEF None
<1> QED
  BY <1>3, <1>4, <1>5, <1>6

\* The order stays, when nothing of the one kind follows the other.
LEMMA BeforeAppend ==
  ASSUME NEW q \in Seq(Messages), NEW m \in Messages, NEW a, NEW b, a # b, Before(q, a, b),
         Kind(m) # a \/ None(q, b)
  PROVE  Before(Append(q, m), a, b)
<1> DEFINE r == Append(q, m)
<1> SUFFICES ASSUME NEW j \in 1..Len(r), NEW k \in 1..Len(r), Kind(r[j]) = a, Kind(r[k]) = b
             PROVE  j < k
  BY DEF Before
<1>1. /\ \A i \in 1..Len(q) : r[i] = q[i]
      /\ r[Len(q) + 1] = m
      /\ Len(r) = Len(q) + 1
  BY AppendIs
<1> HIDE DEF r
<1>2. (j \in 1..Len(q) \/ j = Len(q) + 1) /\ (k \in 1..Len(q) \/ k = Len(q) + 1)
  BY <1>1
<1>3. CASE j \in 1..Len(q) /\ k \in 1..Len(q)
  BY <1>1, <1>3 DEF Before
<1>4. CASE ~(j \in 1..Len(q)) /\ ~(k \in 1..Len(q))
  BY <1>1, <1>2, <1>4
<1>5. CASE j \in 1..Len(q) /\ ~(k \in 1..Len(q))
  BY <1>2, <1>5
<1>6. CASE ~(j \in 1..Len(q)) /\ k \in 1..Len(q)
  BY <1>1, <1>2, <1>6 DEF None
<1> QED
  BY <1>3, <1>4, <1>5, <1>6

-----------------------------------------------------------------------------
(***************************************************************************)
(* What is under way, when a message is sent or read                       *)
(***************************************************************************)

\* With nothing under way, whichever item is at work.
LEMMA StillAsked ==
  ASSUME NEW api, NEW dm, NEW e, Still(api, dm, e), NEW item, NEW request
  PROVE  Asked(api, dm, e, item, request)
  BY DEF Still, Asked, Once, Before, None

\* A message to the API that is no request.
LEMMA AskedAppend ==
  ASSUME NEW api \in Seq(Messages), NEW m \in Messages, Kind(m) # "request",
         NEW dm, NEW e
  PROVE  /\ Still(api, dm, e) => Still(Append(api, m), dm, e)
         /\ \A item, request : Asked(api, dm, e, item, request) =>
                                 Asked(Append(api, m), dm, e, item, request)
<1>1. None(api, "request") => None(Append(api, m), "request")
  BY NoneAppend
<1>2. Once(api, "request") => Once(Append(api, m), "request")
  BY OnceAppend
<1>3. ASSUME NEW k \in 1..Len(Append(api, m)), Kind(Append(api, m)[k]) = "request"
      PROVE  k \in 1..Len(api) /\ Append(api, m)[k] = api[k]
  <2>1. k \in 1..Len(api) \/ k = Len(api) + 1
    BY AppendIs
  <2> QED
    BY <1>3, <2>1, AppendIs
<1> QED
  BY <1>1, <1>2, <1>3 DEF Still, Asked

\* A message to the API that is no seed.
LEMMA KeyedAppend ==
  ASSUME NEW api \in Seq(Messages), NEW m \in Messages, Kind(m) # "seed",
         NEW dm, NEW e, NEW key, NEW n, Keyed(api, dm, e, key, n)
  PROVE  Keyed(Append(api, m), dm, e, key, n)
<1>1. None(api, "seed") => None(Append(api, m), "seed")
  BY NoneAppend
<1>2. Once(Append(api, m), "seed")
  BY OnceAppend DEF Keyed
<1>3. Before(Append(api, m), "seed", "request")
  BY BeforeAppend DEF Keyed
<1>4. ASSUME NEW k \in 1..Len(Append(api, m)), Kind(Append(api, m)[k]) = "seed"
      PROVE  k \in 1..Len(api) /\ Append(api, m)[k] = api[k]
  <2>1. k \in 1..Len(api) \/ k = Len(api) + 1
    BY AppendIs
  <2> QED
    BY <1>4, <2>1, AppendIs
<1> QED
  BY <1>1, <1>2, <1>3, <1>4 DEF Keyed

\* The request of the item at work is sent.
LEMMA RequestAppended ==
  ASSUME NEW api \in Seq(Messages), NEW m \in Messages, Kind(m) = "request",
         NEW dm, NEW e, Still(api, dm, e)
  PROVE  Asked(Append(api, m), dm, e, m.of.item, ServiceFields(m.bytes).data)
<1>1. Once(Append(api, m), "request")
  BY OnceAppend DEF Still, None, Once
<1>2. ASSUME NEW k \in 1..Len(Append(api, m)), Kind(Append(api, m)[k]) = "request"
      PROVE  Append(api, m)[k] = m
  <2>1. k \in 1..Len(api) \/ k = Len(api) + 1
    BY AppendIs
  <2>2. CASE k \in 1..Len(api)
    BY <1>2, <2>2, AppendIs DEF Still, None
  <2>3. CASE k = Len(api) + 1
    BY <2>3, AppendIs
  <2> QED
    BY <2>1, <2>2, <2>3
<1>3. Before(dm, "pending", "final") /\ Once(dm, "final")
  BY DEF Still, None, Before, Once
<1>4. \A k \in 1..Len(dm) : Kind(dm[k]) \notin {"pending", "final"}
  BY DEF Still, None
<1>5. e = <<>> /\ Len(e) = 0 /\ None(dm, "pending") /\ None(dm, "final")
  BY DEF Still
<1> QED
  BY <1>1, <1>2, <1>3, <1>4, <1>5 DEF Asked

\* A seed is sent.
LEMMA SeedAppended ==
  ASSUME NEW api \in Seq(Messages), NEW m \in Messages, Kind(m) = "seed",
         None(api, "seed"), NEW dm, None(dm, "key"), NEW e, Still(api, dm, e)
  PROVE  Keyed(Append(api, m), dm, e, <<>>, m.of.seeds)
<1>1. Once(Append(api, m), "seed")
  BY OnceAppend DEF None, Once
<1>2. Before(Append(api, m), "seed", "request")
  <2>1. None(Append(api, m), "request")
    BY NoneAppend DEF Still
  <2> QED
    BY <2>1 DEF None, Before
<1>3. ASSUME NEW k \in 1..Len(Append(api, m)), Kind(Append(api, m)[k]) = "seed"
      PROVE  Append(api, m)[k] = m
  <2>1. k \in 1..Len(api) \/ k = Len(api) + 1
    BY AppendIs
  <2>2. CASE k \in 1..Len(api)
    BY <1>3, <2>2, AppendIs DEF None
  <2>3. CASE k = Len(api) + 1
    BY <2>3, AppendIs
  <2> QED
    BY <2>1, <2>2, <2>3
<1>4. Once(dm, "key") /\ Before(dm, "key", "pending") /\ Before(dm, "key", "final")
  BY DEF None, Once, Before
<1>5. \A k \in 1..Len(dm) : Kind(dm[k]) # "key"
  BY DEF None
<1>6. e = <<>> /\ None(dm, "pending") /\ None(dm, "final")
  BY DEF Still
<1> QED
  BY <1>1, <1>2, <1>3, <1>4, <1>5, <1>6 DEF Keyed

\* The API reads a message.
LEMMA ApiTail ==
  ASSUME NEW api \in Seq(Messages), api # <<>>, NEW dm, NEW e
  PROVE  /\ Still(api, dm, e) => Still(Tail(api), dm, e)
         /\ \A item, request : Asked(api, dm, e, item, request) =>
                                 Asked(Tail(api), dm, e, item, request)
         /\ \A key, n : Keyed(api, dm, e, key, n) => Keyed(Tail(api), dm, e, key, n)
<1>1. \A a \in {"request", "seed"} : None(api, a) => None(Tail(api), a)
  BY NoneTail
<1>2. \A a \in {"request", "seed"} : Once(api, a) => Once(Tail(api), a)
  BY OnceTail
<1>3. Before(api, "seed", "request") => Before(Tail(api), "seed", "request")
  BY BeforeTail
<1>4. \A k \in 1..Len(Tail(api)) : k + 1 \in 1..Len(api) /\ Tail(api)[k] = api[k + 1]
  BY TailIs
<1>5. Still(api, dm, e) => Still(Tail(api), dm, e)
  BY <1>1 DEF Still
<1>6. ASSUME NEW item, NEW request, Asked(api, dm, e, item, request)
      PROVE  Asked(Tail(api), dm, e, item, request)
  BY <1>1, <1>2, <1>4, <1>6 DEF Asked
<1>7. ASSUME NEW key, NEW n, Keyed(api, dm, e, key, n)
      PROVE  Keyed(Tail(api), dm, e, key, n)
  BY <1>1, <1>2, <1>3, <1>4, <1>7 DEF Keyed
<1> QED
  BY <1>5, <1>6, <1>7

\* The diag master reads a message.
LEMMA DmTail ==
  ASSUME NEW dm \in Seq(Messages), dm # <<>>, NEW api, NEW e
  PROVE  /\ Still(api, dm, e) => Still(api, Tail(dm), e)
         /\ \A item, request : Asked(api, dm, e, item, request) =>
                                 Asked(api, Tail(dm), e, item, request)
         /\ \A key, n : Keyed(api, dm, e, key, n) => Keyed(api, Tail(dm), e, key, n)
<1>1. \A a \in {"pending", "final", "key"} : None(dm, a) => None(Tail(dm), a)
  BY NoneTail
<1>2. \A a \in {"final", "key"} : Once(dm, a) => Once(Tail(dm), a)
  BY OnceTail
<1>3. \A a \in {"pending", "key"}, b \in {"pending", "final"} :
        Before(dm, a, b) => Before(Tail(dm), a, b)
  BY BeforeTail
<1>4. \A k \in 1..Len(Tail(dm)) : k + 1 \in 1..Len(dm) /\ Tail(dm)[k] = dm[k + 1]
  BY TailIs
<1>5. Still(api, dm, e) => Still(api, Tail(dm), e)
  BY <1>1 DEF Still
<1>6. ASSUME NEW item, NEW request, Asked(api, dm, e, item, request)
      PROVE  Asked(api, Tail(dm), e, item, request)
  BY <1>1, <1>2, <1>3, <1>4, <1>6 DEF Asked
<1>7. ASSUME NEW key, NEW n, Keyed(api, dm, e, key, n)
      PROVE  Keyed(api, Tail(dm), e, key, n)
  BY <1>1, <1>2, <1>3, <1>4, <1>7 DEF Keyed
<1> QED
  BY <1>5, <1>6, <1>7

\* The request goes to an ECU, which has no other.
LEMMA RequestTaken ==
  ASSUME NEW api \in Seq(Messages), api # <<>>, Kind(Head(api)) = "request",
         NEW dm, NEW e, NEW item, NEW request, Asked(api, dm, e, item, request),
         NEW key, NEW n, Keyed(api, dm, e, key, n),
         NEW a, a.item = item, a.request = ServiceFields(Head(api).bytes).data
  PROVE  /\ Head(api).of.item = item /\ a.request = request /\ ~Still(api, dm, e)
         /\ None(api, "seed")
         /\ Asked(Tail(api), dm, Append(e, a), item, request)
         /\ Keyed(Tail(api), dm, Append(e, a), key, n)
<1>1. ~None(api, "request")
  BY HeadThere
<1>2. e = <<>> /\ None(dm, "pending") /\ None(dm, "final") /\ None(Tail(api), "request")
  BY <1>1, OnceHead DEF Asked
<1>3. Head(api).of.item = item /\ ServiceFields(Head(api).bytes).data = request
  BY TailIs DEF Asked
<1>4. None(api, "seed")
  BY BeforeHead DEF Keyed
<1>5. Append(e, a) = <<a>> /\ Len(<<a>>) = 1 /\ \A k \in 1..Len(<<a>>) : <<a>>[k] = a
  BY <1>2
<1>6. Asked(Tail(api), dm, e, item, request) /\ Keyed(Tail(api), dm, e, key, n)
  BY ApiTail
<1>7. Asked(Tail(api), dm, Append(e, a), item, request)
  BY <1>2, <1>3, <1>5, <1>6 DEF Asked
<1>8. None(Tail(api), "seed")
  BY <1>4, NoneTail
<1>9. Keyed(Tail(api), dm, Append(e, a), key, n)
  BY <1>6, <1>8 DEF Keyed
<1> QED
  BY <1>1, <1>3, <1>4, <1>7, <1>9 DEF Still

\* The user makes a key of the seed.
LEMMA SeedTaken ==
  ASSUME NEW api \in Seq(Messages), api # <<>>, Kind(Head(api)) = "seed",
         NEW dm \in Seq(Messages), NEW e, NEW item, NEW request,
         Asked(api, dm, e, item, request),
         NEW key, NEW n, Keyed(api, dm, e, key, n),
         NEW m \in Messages, Kind(m) = "key",
         SaFields(m.bytes).data = Key(Head(api).of.seeds)
  PROVE  /\ Still(api, dm, e) => Still(Tail(api), Append(dm, m), e)
         /\ Asked(Tail(api), Append(dm, m), e, item, request)
         /\ Keyed(Tail(api), Append(dm, m), e, key, n)
<1>1. ~None(api, "seed") /\ None(Tail(api), "seed")
  BY HeadThere, OnceHead DEF Keyed
<1>2. /\ e = <<>> /\ None(dm, "pending") /\ None(dm, "final") /\ None(dm, "key")
      /\ key = <<>>
  BY <1>1 DEF Keyed
<1>3. Head(api).of.seeds = n
  BY TailIs DEF Keyed
<1>4. None(Append(dm, m), "pending") /\ None(Append(dm, m), "final")
  BY <1>2, NoneAppend
<1>5. Once(Append(dm, m), "key")
  BY <1>2, OnceAppend DEF Keyed
<1>6. \A k \in 1..Len(Append(dm, m)) : Kind(Append(dm, m)[k]) = "key" =>
        Append(dm, m)[k] = m
  <2> SUFFICES ASSUME NEW k \in 1..Len(Append(dm, m)), Kind(Append(dm, m)[k]) = "key"
               PROVE  Append(dm, m)[k] = m
    OBVIOUS
  <2>1. k \in 1..Len(dm) \/ k = Len(dm) + 1
    BY AppendIs
  <2>2. CASE k \in 1..Len(dm)
    BY <1>2, <2>2, AppendIs DEF None
  <2>3. CASE k = Len(dm) + 1
    BY <2>3, AppendIs
  <2> QED
    BY <2>1, <2>2, <2>3
<1>7. /\ Still(api, dm, e) => Still(Tail(api), dm, e)
      /\ Asked(Tail(api), dm, e, item, request) /\ Keyed(Tail(api), dm, e, key, n)
  BY ApiTail
<1>8. Still(api, dm, e) => Still(Tail(api), Append(dm, m), e)
  BY <1>4, <1>7 DEF Still
<1>9. Asked(Tail(api), Append(dm, m), e, item, request)
  <2>1. /\ Before(Append(dm, m), "pending", "final") /\ Once(Append(dm, m), "final")
        /\ \A k \in 1..Len(Append(dm, m)) :
             Kind(Append(dm, m)[k]) \notin {"pending", "final"}
    BY <1>4 DEF None, Before, Once
  <2> QED
    BY <1>2, <1>4, <1>7, <2>1 DEF Asked
<1>10. Keyed(Tail(api), Append(dm, m), e, key, n)
  <2>1. Before(Append(dm, m), "key", "pending") /\ Before(Append(dm, m), "key", "final")
    BY <1>4 DEF None, Before
  <2> QED
    BY <1>1, <1>2, <1>3, <1>4, <1>5, <1>6, <1>7, <2>1 DEF Keyed
<1> QED
  BY <1>8, <1>9, <1>10

\* The diag master takes the key.
LEMMA KeyTaken ==
  ASSUME NEW dm \in Seq(Messages), dm # <<>>, Kind(Head(dm)) = "key",
         NEW api, NEW e, NEW key, NEW n, Keyed(api, dm, e, key, n)
  PROVE  /\ key = <<>> /\ SaFields(Head(dm).bytes).data = Key(n)
         /\ Keyed(api, Tail(dm), e, Key(n), n)
<1>1. ~None(dm, "key") /\ None(Tail(dm), "key")
  BY HeadThere, OnceHead DEF Keyed
<1>2. None(api, "seed") /\ key = <<>>
  BY <1>1 DEF Keyed
<1>3. SaFields(Head(dm).bytes).data = Key(n)
  BY TailIs DEF Keyed
<1>4. Keyed(api, Tail(dm), e, key, n)
  BY DmTail
<1>5. Keyed(api, Tail(dm), e, Key(n), n)
  BY <1>1, <1>2, <1>4 DEF Keyed
<1> QED
  BY <1>2, <1>3, <1>5

\* The diag master takes a response to the item at work.
LEMMA ResponseTaken ==
  ASSUME NEW dm \in Seq(Messages), dm # <<>>, Kind(Head(dm)) \in {"pending", "final"},
         NEW api, NEW e, NEW item, NEW request, Asked(api, dm, e, item, request),
         NEW key, NEW n, Keyed(api, dm, e, key, n)
  PROVE  /\ Head(dm).of.item = item /\ Head(dm).of.request = request
         /\ None(api, "seed") /\ None(dm, "key") /\ ~Still(api, dm, e)
         /\ Asked(api, Tail(dm), e, item, request) /\ Keyed(api, Tail(dm), e, key, n)
         /\ Kind(Head(dm)) = "final" => Still(api, Tail(dm), e)
<1>1. ~(None(dm, "pending") /\ None(dm, "final"))
  BY HeadThere
<1>2. Head(dm).of.item = item /\ Head(dm).of.request = request
  BY TailIs DEF Asked
<1>3. None(dm, "key")
  BY BeforeHead DEF Keyed
<1>4. None(api, "seed") /\ None(api, "request")
  BY <1>1 DEF Keyed, Asked
<1>5. Asked(api, Tail(dm), e, item, request) /\ Keyed(api, Tail(dm), e, key, n)
  BY DmTail
<1>6. ASSUME Kind(Head(dm)) = "final"
      PROVE  Still(api, Tail(dm), e)
  <2>1. ~None(dm, "final") /\ None(Tail(dm), "final")
    BY <1>6, HeadThere, OnceHead DEF Asked
  <2>2. None(Tail(dm), "pending")
    BY <1>6, BeforeHead, NoneTail DEF Asked
  <2> QED
    BY <1>4, <2>1, <2>2 DEF Asked, Still
<1> QED
  BY <1>1, <1>2, <1>3, <1>4, <1>5, <1>6 DEF Still

\* What the ECUs have is the request of the item.
AllOf(e, item, request) == \A k \in 1..Len(e) : e[k].item = item /\ e[k].request = request

\* The ECU sends a response to the request it has.
LEMMA ResponseGiven ==
  ASSUME NEW dm \in Seq(Messages), NEW e \in Seq(Abouts), e # <<>>,
         NEW api, NEW item, NEW request, Asked(api, dm, e, item, request),
         NEW key, NEW n, Keyed(api, dm, e, key, n),
         NEW m \in Messages, Kind(m) \in {"pending", "final"},
         m.of.item = item, m.of.request = request,
         NEW r, AllOf(r, item, request),
         Len(r) <= 1, Kind(m) = "final" => r = <<>>
  PROVE  /\ ~Still(api, dm, e)
         /\ Asked(api, Append(dm, m), r, item, request)
         /\ Keyed(api, Append(dm, m), r, key, n)
<1>1. None(api, "request") /\ None(dm, "final") /\ None(api, "seed")
  BY DEF Asked, Keyed
<1>2. Once(Append(dm, m), "final")
  BY <1>1, OnceAppend DEF Asked
<1>3. Before(Append(dm, m), "pending", "final")
  BY <1>1, BeforeAppend DEF Asked
<1>4. None(Append(dm, m), "final") \/ r = <<>>
  BY <1>1, NoneAppend
<1>5. \A k \in 1..Len(Append(dm, m)) :
        (k \in 1..Len(dm) /\ Append(dm, m)[k] = dm[k]) \/ Append(dm, m)[k] = m
  <2> SUFFICES ASSUME NEW k \in 1..Len(Append(dm, m))
               PROVE  (k \in 1..Len(dm) /\ Append(dm, m)[k] = dm[k]) \/ Append(dm, m)[k] = m
    OBVIOUS
  <2>1. k \in 1..Len(dm) \/ k = Len(dm) + 1
    BY AppendIs
  <2> QED
    BY <2>1, AppendIs
<1>6. \A k \in 1..Len(Append(dm, m)) : Kind(Append(dm, m)[k]) \in {"pending", "final"} =>
        Append(dm, m)[k].of.item = item /\ Append(dm, m)[k].of.request = request
  BY <1>5 DEF Asked
<1>7. Asked(api, Append(dm, m), r, item, request)
  BY <1>1, <1>2, <1>3, <1>4, <1>6 DEF Asked, AllOf
<1>8. /\ Once(Append(dm, m), "key")
      /\ Before(Append(dm, m), "key", "pending") /\ Before(Append(dm, m), "key", "final")
      /\ None(dm, "key") => None(Append(dm, m), "key")
  <2>1. Kind(m) # "key"
    OBVIOUS
  <2>2. Once(Append(dm, m), "key")
    BY <2>1, OnceAppend DEF Keyed
  <2>3. Before(Append(dm, m), "key", "pending") /\ Before(Append(dm, m), "key", "final")
    BY <2>1, BeforeAppend DEF Keyed
  <2>4. None(dm, "key") => None(Append(dm, m), "key")
    BY <2>1, NoneAppend
  <2> QED
    BY <2>2, <2>3, <2>4
<1>9. \A k \in 1..Len(Append(dm, m)) : Kind(Append(dm, m)[k]) = "key" =>
        k \in 1..Len(dm) /\ Append(dm, m)[k] = dm[k]
  BY <1>5
<1>10. Keyed(api, Append(dm, m), r, key, n)
  BY <1>1, <1>8, <1>9 DEF Keyed
<1>11. ~Still(api, dm, e)
  BY DEF Still
<1> QED
  BY <1>7, <1>10, <1>11

-----------------------------------------------------------------------------
(***************************************************************************)
(* The items and the general configuration                                 *)
(***************************************************************************)

\* The general configuration arrives.
LEMMA GeneralArrives ==
  ASSUME NEW g, g.tpta \in DWord, g.tpsa \in DWord
  PROVE  GeneralOK(GeneralDecoded(GeneralEncoded(g)), g)
<1> DEFINE u == GeneralDecoded(GeneralEncoded(g))
<1>1. /\ u.isFailAbort = IF g.isFailAbort # 0 THEN 1 ELSE 0
      /\ u.tpEnable = IF g.tpEnable # 0 THEN 1 ELSE 0
      /\ u.isTpRefresh = IF g.isTpRefresh # 0 THEN 1 ELSE 0
      /\ u.tpInterval = g.tpInterval /\ u.tpta = g.tpta /\ u.tpsa = g.tpsa
  BY DEF GeneralDecoded, GeneralEncoded
<1> HIDE DEF u
<1>2. /\ (u.isFailAbort # 0) = (g.isFailAbort # 0)
      /\ (u.tpEnable # 0) = (g.tpEnable # 0)
      /\ (u.isTpRefresh # 0) = (g.isTpRefresh # 0)
  BY <1>1
<1>3. \A f \in {"isFailAbort", "tpEnable", "isTpRefresh"} : (u[f] # 0) = (g[f] # 0)
  BY <1>2
<1>4. \A f \in {"tpInterval", "tpta", "tpsa"} : u[f] = g[f]
  BY <1>1
<1>5. GeneralOK(u, g)
  BY <1>3, <1>4 DEF GeneralOK
<1> QED
  BY <1>5 DEF u

\* A sequence, of whichever elements.
LEMMA SequenceIs ==
  ASSUME NEW S, NEW s \in Seq(S)
  PROVE  IsSequence(s)
<1>1. s \in Seq({s[k] : k \in 1..Len(s)})
  OBVIOUS
<1> QED
  BY <1>1 DEF IsSequence

\* The list r has one more item than s, or another one.
Longer(r, s, x) ==
  /\ IsSequence(r) /\ Len(s) \in Nat /\ Len(r) = Len(s) + 1
  /\ \A k \in 1..Len(s) : r[k] = s[k]
  /\ r[Len(s) + 1] = x

Changed(r, s, j, x) ==
  /\ IsSequence(r) /\ Len(s) \in Nat /\ Len(r) = Len(s) /\ r[j] = x
  /\ \A k \in 1..Len(s) : k # j => r[k] = s[k]

\* A list is longer.
LEMMA SequenceAppend ==
  ASSUME NEW s, IsSequence(s), NEW x, NEW r, r = Append(s, x)
  PROVE  Longer(r, s, x)
<1> DEFINE S == {s[k] : k \in 1..Len(s)} \cup {x}
<1>1. s \in Seq(S)
  BY DEF IsSequence
<1>2. x \in S
  OBVIOUS
<1> HIDE DEF S
<1>3. /\ r \in Seq(S) /\ Len(s) \in Nat /\ Len(r) = Len(s) + 1
      /\ \A k \in 1..Len(s) : r[k] = s[k]
      /\ r[Len(s) + 1] = x
  BY <1>1, <1>2
<1>4. IsSequence(r)
  BY <1>3, SequenceIs
<1> QED
  BY <1>3, <1>4 DEF Longer

\* A list with one item changed.
LEMMA SequenceExcept ==
  ASSUME NEW s, IsSequence(s), NEW j \in 1..Len(s), NEW x, NEW r, r = [s EXCEPT ![j] = x]
  PROVE  Changed(r, s, j, x)
<1> DEFINE S == {s[k] : k \in 1..Len(s)} \cup {x}
<1>1. s \in Seq(S)
  BY DEF IsSequence
<1>2. x \in S
  OBVIOUS
<1> HIDE DEF S
<1>3. /\ r \in Seq(S) /\ Len(s) \in Nat /\ Len(r) = Len(s) /\ r[j] = x
      /\ \A k \in 1..Len(s) : k # j => r[k] = s[k]
  BY <1>1, <1>2
<1>4. IsSequence(r)
  BY <1>3, SequenceIs
<1> QED
  BY <1>3, <1>4 DEF Changed

\* A service that a script holds.
LEMMA ServiceOK ==
  ASSUME NEW c \in Services
  PROVE  /\ ConfigOK(c) /\ c.sa \in DWord /\ c.ta \in DWord /\ c.timeout \in DWord
         /\ c.rr_callid \in DWord /\ c.sid \in Byte
<1>1. ConfigOK(c)
  BY ScriptAssumption
<1> QED
  BY <1>1 DEF ConfigOK

\* Another try of an item leaves all else.
LEMMA ItemTried ==
  ASSUME NEW i, NEW c, ItemOK(i, c), NEW x, NEW j, j = [i EXCEPT !.finish_try_num = x]
  PROVE  ItemOK(j, c) /\ j.request_byte = i.request_byte
<1>1. DOMAIN i = DOMAIN NewItem /\ Configured(i, c)
  BY DEF ItemOK
<1>2. DOMAIN j = DOMAIN NewItem /\ Configured(j, c)
  BY <1>1, ConfiguredStill
<1>3. \A f \in ItemArrays : f \in DOMAIN NewItem /\ f # "finish_try_num"
  BY DEF ItemArrays, NewItem
<1>4. \A f \in ItemArrays : j[f] = i[f]
  BY <1>1, <1>3
<1>5. "request_byte" \in ItemArrays
  BY DEF ItemArrays
<1>6. j.request_byte = i.request_byte
  BY <1>4, <1>5
<1>7. \A f \in ItemArrays : WellFormed(j[f])
  BY <1>4 DEF ItemOK
<1> QED
  BY <1>2, <1>6, <1>7 DEF ItemOK

\* The request that is kept is behind the key, if there is one.
LEMMA ItemPreprocessed ==
  ASSUME NEW c \in Services, NEW i, ItemOK(i, c), WellFormed(key_byte),
         NEW j, j = Preprocessed(i), j.request_byte.dlen <= DataMax
  PROVE  /\ ItemOK(j, c)
         /\ Content(j.request_byte) = IF c.sid = SA /\ c.sub % 2 = 0
                                      THEN Content(i.request_byte) \o Content(key_byte)
                                      ELSE Content(i.request_byte)
<1>1. DOMAIN i = DOMAIN NewItem /\ Configured(i, c)
  BY DEF ItemOK
<1>2. i.sid = c.sid /\ i.sub = c.sub
  BY <1>1 DEF Configured, Plain
<1>3. CASE ~(c.sid = SA /\ c.sub % 2 = 0)
  <2>1. j = i
    BY <1>2, <1>3 DEF Preprocessed
  <2> QED
    BY <1>3, <2>1
<1>4. CASE c.sid = SA /\ c.sub % 2 = 0
  <2> DEFINE b == ByteArrayAppendArray(i.request_byte, key_byte)
  <2>1. j = [i EXCEPT !.request_byte = b]
    BY <1>2, <1>4 DEF Preprocessed
  <2>2. "request_byte" \in ItemArrays
    BY DEF ItemArrays
  <2>3. WellFormed(i.request_byte)
    BY <2>2 DEF ItemOK
  <2>4. WellFormed(b) /\ Content(b) = Content(i.request_byte) \o Content(key_byte)
    BY <2>3, AppendArrayWellFormed
  <2> HIDE DEF b
  <2>5. DOMAIN j = DOMAIN NewItem /\ Configured(j, c)
    BY <1>1, <2>1, ConfiguredStill
  <2>6. \A f \in ItemArrays : f \in DOMAIN NewItem
    BY DEF ItemArrays, NewItem
  <2>7. j.request_byte = b
    BY <1>1, <2>1, <2>2, <2>6
  <2>8. \A f \in ItemArrays : WellFormed(j[f])
    BY <1>1, <2>1, <2>4, <2>6 DEF ItemOK
  <2>9. Content(b) \in Seq(Byte) /\ Len(Content(b)) = b.dlen
    BY <2>4, ContentOK
  <2>10. Content(b) \in Data
    BY <2>7, <2>9 DEF Data
  <2>11. Content(i.request_byte) \in Seq(Byte) /\ Content(key_byte) \in Seq(Byte)
    BY <2>3, ContentOK
  <2>12. Asks(Content(i.request_byte) \o Content(key_byte), c)
    BY <1>4, <2>11, AsksMore, ServiceOK DEF ItemOK
  <2>13. ItemOK(j, c)
    BY <2>4, <2>5, <2>7, <2>8, <2>10, <2>12 DEF ItemOK
  <2> QED
    BY <1>4, <2>4, <2>7, <2>13
<1> QED
  BY <1>3, <1>4

\* A request that is not a repeated one carries the key that is kept.
LEMMA KeySent ==
  ASSUME NEW c \in Services, NEW i, ItemOK(i, c), WellFormed(key_byte),
         NEW j, j = Preprocessed(i), j.request_byte.dlen <= DataMax,
         NEW of, of.first = (Content(i.request_byte)
                               = Content(RequestBuild(i).request_byte)),
         of.late = 0 => Content(key_byte) \in {<<>>, Key(of.seeds)}
  PROVE  KeyOK(Content(j.request_byte), of, c)
<1> SUFFICES ASSUME c.sid = SA, c.sub % 2 = 0, of.first, of.late = 0
             PROVE  KeyOf(Content(j.request_byte), c) \in {<<>>, Key(of.seeds)}
  BY DEF KeyOK
<1>1. DOMAIN i = DOMAIN NewItem /\ Configured(i, c) /\ ConfigOK(c)
  BY ServiceOK DEF ItemOK
<1>2. WellFormed(i.request_byte) /\ WellFormed(i.variable_byte)
  BY DEF ItemOK, ItemArrays
<1>3. PICK b : /\ RequestBuild(i) = [i EXCEPT !.request_byte = b]
               /\ Content(b) = (RequestHead(i) \o Parameters(i)) \o Content(i.variable_byte)
  BY <1>1, <1>2, BuildIs
<1>4. RequestBuild(i).request_byte = b
  BY <1>1, <1>3 DEF NewItem
<1>5. Content(b) \in Seq(Byte) /\ Len(Content(b)) = RequestLen(c)
  <2>1. PICK d : d = (RequestHead(i) \o Parameters(i)) \o Content(i.variable_byte)
    OBVIOUS
  <2>2. d \in Seq(Byte) /\ Len(d) = RequestLen(c)
    BY <1>1, <2>1, RequestAsks, Zenon
  <2> QED
    BY <1>3, <2>1, <2>2
<1>6. Content(i.request_byte) = Content(b)
  BY <1>4
<1>7. Content(j.request_byte) = Content(b) \o Content(key_byte)
  <2>1. Content(j.request_byte) = IF c.sid = SA /\ c.sub % 2 = 0
                                  THEN Content(i.request_byte) \o Content(key_byte)
                                  ELSE Content(i.request_byte)
    BY ItemPreprocessed, Zenon
  <2> QED
    BY <1>6, <2>1
<1>8. Content(key_byte) \in Seq(Byte)
  BY ContentOK
<1>9. KeyOf(Content(b) \o Content(key_byte), c) = Content(key_byte)
  BY <1>1, <1>5, <1>8, KeyOfIs
<1> QED
  BY <1>7, <1>9

-----------------------------------------------------------------------------
(***************************************************************************)
(* The steps                                                               *)
(***************************************************************************)

\* A message more, or one less, for the API and for the diag master.
LEMMA ApisAppend ==
  ASSUME NEW s, NEW g, NEW api \in Seq(Messages), ApisOK(api, s, g),
         NEW m \in Messages, ApiOK(m, s, g)
  PROVE  Append(api, m) \in Seq(Messages) /\ ApisOK(Append(api, m), s, g)
<1> SUFFICES ASSUME NEW k \in 1..Len(Append(api, m))
             PROVE  ApiOK(Append(api, m)[k], s, g)
  BY AppendIs DEF ApisOK
<1>1. k \in 1..Len(api) \/ k = Len(api) + 1
  BY AppendIs
<1>2. CASE k \in 1..Len(api)
  BY <1>2, AppendIs DEF ApisOK
<1>3. CASE k = Len(api) + 1
  BY <1>3, AppendIs
<1> QED
  BY <1>1, <1>2, <1>3

\* The API reads a message.
LEMMA ApisTail ==
  ASSUME NEW s, NEW g, NEW api \in Seq(Messages), ApisOK(api, s, g), api # <<>>
  PROVE  /\ Head(api) \in Messages /\ ApiOK(Head(api), s, g)
         /\ Tail(api) \in Seq(Messages) /\ ApisOK(Tail(api), s, g)
  BY TailIs DEF ApisOK

\* A message for the diag master.
LEMMA DmsAppend ==
  ASSUME NEW dm \in Seq(Messages), DmsOK(dm), NEW m \in Messages, DmOK(m)
  PROVE  Append(dm, m) \in Seq(Messages) /\ DmsOK(Append(dm, m))
<1> SUFFICES ASSUME NEW k \in 1..Len(Append(dm, m))
             PROVE  DmOK(Append(dm, m)[k])
  BY AppendIs DEF DmsOK
<1>1. k \in 1..Len(dm) \/ k = Len(dm) + 1
  BY AppendIs
<1>2. CASE k \in 1..Len(dm)
  BY <1>2, AppendIs DEF DmsOK
<1>3. CASE k = Len(dm) + 1
  BY <1>3, AppendIs
<1> QED
  BY <1>1, <1>2, <1>3

\* The diag master reads a message.
LEMMA DmsTail ==
  ASSUME NEW dm \in Seq(Messages), DmsOK(dm), dm # <<>>
  PROVE  /\ Head(dm) \in Messages /\ DmOK(Head(dm))
         /\ Tail(dm) \in Seq(Messages) /\ DmsOK(Tail(dm))
  BY TailIs DEF DmsOK

\* A request more for the ECUs.
LEMMA EcusAppend ==
  ASSUME NEW s, NEW e \in Seq(Abouts), EcusOK(e, s), NEW a \in Abouts, EcuOK(a, s)
  PROVE  Append(e, a) \in Seq(Abouts) /\ EcusOK(Append(e, a), s)
<1> SUFFICES ASSUME NEW k \in 1..Len(Append(e, a))
             PROVE  EcuOK(Append(e, a)[k], s)
  BY AppendIs DEF EcusOK
<1>1. k \in 1..Len(e) \/ k = Len(e) + 1
  BY AppendIs
<1>2. CASE k \in 1..Len(e)
  BY <1>2, AppendIs DEF EcusOK
<1>3. CASE k = Len(e) + 1
  BY <1>3, AppendIs
<1> QED
  BY <1>1, <1>2, <1>3

\* The invariant holds at the start.
LEMMA InitIInv == Init => IInv
<1> SUFFICES ASSUME Init
             PROVE  IInv
  OBVIOUS
<1> USE DEF Init
<1>1. Shape
  <2>1. IsSequence(items)
    <3>1. <<>> \in Seq({})
      OBVIOUS
    <3> QED
      BY <3>1, SequenceIs
  <2>2. WellFormed(key_byte)
    BY NewWellFormed
  <2>3. late \in 0..TimeoutMax /\ presents \in 0..TesterPresentMax
    BY ScriptAssumption
  <2>4. /\ script \in Seq(Services) /\ Len(items) = Len(script) /\ sindex \in 0..Len(items)
        /\ rr_handler \in Seq(Nat) /\ \A k \in 1..Len(rr_handler) : rr_handler[k] = k
    OBVIOUS
  <2>5. toApi \in Seq(Messages) /\ toDm \in Seq(Messages) /\ ecu \in Seq(Abouts)
    OBVIOUS
  <2> QED
    BY <2>1, <2>2, <2>3, <2>4, <2>5 DEF Shape
<1>2. Contents
  <2>1. 0 \in DWord
    BY DEF DWord
  <2>2. GeneralOK(udsc, general)
    BY <2>1 DEF GeneralOK, NoGeneral
  <2>3. GivenOK(given, script, general)
    BY DEF GivenOK
  <2> QED
    BY <2>2, <2>3 DEF Contents, ItemsOK, ApisOK, DmsOK, EcusOK
<1>3. NotStarted
  BY DEF NotStarted
<1>4. Flow
  <2>1. Still(toApi, toDm, ecu)
    BY DEF Still, None
  <2>2. Keyed(toApi, toDm, ecu, Content(key_byte), seeds)
    BY NewWellFormed DEF Keyed, None, Once, Before
  <2> QED
    BY <2>1, <2>2, StillAsked DEF Flow
<1> QED
  BY <1>1, <1>2, <1>3, <1>4 DEF IInv

\* The user sets a callback.
LEMMA ResultCallbackSetStep ==
  ASSUME IInv, ResultCallbackSet
  PROVE  IInv'
<1> USE DEF ResultCallbackSet, user, config, timers, history
<1>1. Shape'
  <2>1. rr_handler \in Seq(Nat) /\ \A k \in 1..Len(rr_handler) : rr_handler[k] = k
    BY DEF IInv, Shape
  <2>2. \A n \in Nat : n = Len(rr_handler) + 1 =>
          /\ Append(rr_handler, n) \in Seq(Nat) /\ Len(Append(rr_handler, n)) = n
          /\ \A k \in 1..n : Append(rr_handler, n)[k] = k
    BY <2>1
  <2>3. rr_handler' \in Seq(Nat) /\ \A k \in 1..Len(rr_handler') : rr_handler'[k] = k
    BY <2>1, <2>2
  <2> QED
    BY <2>3 DEF IInv, Shape
<1>2. Contents'
  BY DEF IInv, Contents
<1>3. (~started => NotStarted)' /\ (late = 0 => Flow)'
  BY DEF IInv, NotStarted, Flow
<1> QED
  BY <1>1, <1>2, <1>3 DEF IInv

\* The user adds a service.
LEMMA ServiceConfiguredStep ==
  ASSUME IInv, NEW c \in Services, ServiceConfigured(c)
  PROVE  IInv'
<1> USE DEF ServiceConfigured, user, timers, history
<1> DEFINE i == RequestBuild(ItemOf(Decoded(Encoded(c), NewConfig)))
<1>1. ItemOK(i, c)
  BY ItemBuilt
<1>2. items' = Append(items, i) /\ script' = Append(script, c)
  OBVIOUS
<1> HIDE DEF i
<1>3. NotStarted /\ NotStarted'
  BY DEF IInv, NotStarted
<1>4. /\ IsSequence(items') /\ Len(items) \in Nat /\ Len(items') = Len(items) + 1
      /\ \A k \in 1..Len(items) : items'[k] = items[k]
      /\ items'[Len(items) + 1] = i
  <2>1. IsSequence(items)
    BY DEF IInv, Shape
  <2>2. Longer(items', items, i)
    BY <1>2, <2>1, SequenceAppend
  <2> QED
    BY <2>2 DEF Longer
<1>5. /\ script' \in Seq(Services) /\ Len(script') = Len(script) + 1
      /\ Len(script) = Len(items)
      /\ \A k \in 1..Len(script) : script'[k] = script[k]
      /\ script'[Len(script) + 1] = c
  BY <1>2, AppendIs DEF IInv, Shape
<1>6. Shape'
  BY <1>3, <1>4, <1>5 DEF IInv, Shape, NotStarted
<1>7. ItemsOK(items', script')
  <2> SUFFICES ASSUME NEW k \in 1..Len(script')
               PROVE  ItemOK(items'[k], script'[k])
    BY DEF ItemsOK
  <2>1. k \in 1..Len(items) \/ k = Len(items) + 1
    BY <1>4, <1>5
  <2>2. CASE k \in 1..Len(items)
    BY <1>4, <1>5, <2>2 DEF IInv, Contents, ItemsOK
  <2>3. CASE k = Len(items) + 1
    BY <1>1, <1>4, <1>5, <2>3
  <2> QED
    BY <2>1, <2>2, <2>3
<1>8. GivenOK(given', script', general')
  BY <1>3 DEF NotStarted, GivenOK
<1>9. ApisOK(toApi', script', general') /\ DmsOK(toDm') /\ EcusOK(ecu', script')
  BY <1>3 DEF NotStarted, ApisOK, DmsOK, EcusOK
<1>10. Contents'
  BY <1>7, <1>8, <1>9 DEF IInv, Contents
<1>11. (late = 0 => Flow)'
  BY <1>3 DEF IInv, Flow, NotStarted, Request
<1> QED
  BY <1>3, <1>6, <1>10, <1>11 DEF IInv

\* The user sets the general configuration.
LEMMA GeneralConfiguredStep ==
  ASSUME IInv, NEW g \in Generals, GeneralConfigured(g)
  PROVE  IInv'
<1> USE DEF GeneralConfigured, user, timers, history
<1>1. NotStarted /\ NotStarted'
  BY DEF IInv, NotStarted
<1>2. Shape'
  BY DEF IInv, Shape
<1>3. GeneralOK(udsc', general')
  BY GeneralArrives, ScriptAssumption
<1>4. GivenOK(given', script', general')
  BY <1>1 DEF NotStarted, GivenOK
<1>5. ApisOK(toApi', script', general') /\ DmsOK(toDm') /\ EcusOK(ecu', script')
  BY <1>1 DEF NotStarted, ApisOK, DmsOK, EcusOK
<1>6. Contents'
  BY <1>3, <1>4, <1>5 DEF IInv, Contents
<1>7. (late = 0 => Flow)'
  BY DEF IInv, Flow
<1> QED
  BY <1>1, <1>2, <1>6, <1>7 DEF IInv

\* The user starts the script.
LEMMA StartStep ==
  ASSUME IInv, Start
  PROVE  IInv'
<1> USE DEF Start, config, history, RequestStart, TesterPresentStart
<1>1. NotStarted
  BY DEF IInv
<1>2. Len(items) \in Nat /\ Len(items) >= 1
  BY DEF IInv, Shape, IsSequence
<1>3. Shape'
  <2>1. sindex' \in 0..Len(items')
    BY <1>2
  <2>2. testerPresent_watcher' \in BOOLEAN
    BY DEF IInv, Shape
  <2> QED
    BY <2>1, <2>2 DEF IInv, Shape
<1>4. Contents'
  BY DEF IInv, Contents
<1>5. Still(toApi, toDm, ecu)
  BY <1>1 DEF NotStarted, Still, None
<1>6. (late = 0 => Flow)'
  BY <1>5, StillAsked DEF IInv, Flow
<1> QED
  BY <1>3, <1>4, <1>6 DEF IInv

\* A script that is under way was started.
LEMMA StartedIs ==
  ASSUME IInv, \/ request_watcher \/ response_watcher \/ testerPresent_watcher
               \/ toApi # <<>> \/ toDm # <<>> \/ ecu # <<>> \/ sindex # 0
  PROVE  started
  BY DEF IInv, NotStarted

\* A tester present request is sent.
LEMMA TesterPresentStep ==
  ASSUME IInv, TesterPresent
  PROVE  IInv'
<1> USE DEF TesterPresent, user, config, timers
<1>1. PICK of : of = About(0, TRUE)
  OBVIOUS
<1>2. PICK data : data = <<62, 128>>
  OBVIOUS
<1>3. PICK m : m = Message(ServiceMessage(ServiceIndication, data, udsc.tpsa,
                                          udsc.tpta, 0), of)
  OBVIOUS
<1>4. toApi' = Append(toApi, m)
  BY <1>1, <1>2, <1>3
<1>5. of \in Abouts /\ of.item = 0
  BY <1>1 DEF About, Abouts, IInv, Shape
<1>6. data \in Seq(Byte) /\ Fits(Len(data), 4)
  BY <1>2 DEF Byte, Fits
<1>7. /\ udsc.tpsa = general.tpsa /\ udsc.tpta = general.tpta
      /\ udsc.tpsa \in DWord /\ udsc.tpta \in DWord
  BY DEF IInv, Contents, GeneralOK
<1>8. /\ m \in Messages /\ m.of = of /\ Kind(m) = "present"
      /\ ServiceFields(m.bytes).data = data
      /\ ServiceFields(m.bytes).sa = udsc.tpsa /\ ServiceFields(m.bytes).ta = udsc.tpta
  <2>1. PICK z \in Nat : z = 0
    OBVIOUS
  <2>2. PICK sa \in DWord, ta \in DWord : sa = udsc.tpsa /\ ta = udsc.tpta
    BY <1>7
  <2>3. m = Message(ServiceMessage(ServiceIndication, data, sa, ta, z), of)
    BY <1>3, <2>1, <2>2
  <2> HIDE DEF TesterPresent
  <2>4. /\ m \in Messages /\ m.of = of /\ ServiceFields(m.bytes).data = data
        /\ ServiceFields(m.bytes).sa = sa /\ ServiceFields(m.bytes).ta = ta
    BY <1>5, <1>6, <2>3, IndicationKind
  <2>5. Kind(m) = "present"
    BY <1>5, <1>6, <2>3, IndicationKind
  <2> QED
    BY <2>2, <2>4, <2>5
<1>9. ApiOK(m, script, general)
  BY <1>2, <1>7, <1>8 DEF ApiOK, PresentOK
<1>10. toApi \in Seq(Messages) /\ ApisOK(toApi, script, general)
  BY DEF IInv, Shape, Contents
<1>11. toApi' \in Seq(Messages) /\ ApisOK(toApi', script, general)
  <2> HIDE DEF TesterPresent
  <2>1. Append(toApi, m) \in Seq(Messages) /\ ApisOK(Append(toApi, m), script, general)
    BY <1>8, <1>9, <1>10, ApisAppend
  <2> QED
    BY <1>4, <2>1
<1>12. presents' \in 0..TesterPresentMax
  BY ScriptAssumption DEF IInv, Shape
<1>13. Shape'
  BY <1>11, <1>12 DEF IInv, Shape
<1>14. Contents'
  BY <1>11 DEF IInv, Contents
<1>15. ASSUME late = 0
       PROVE  Flow'
  <2>1. Flow
    BY <1>15 DEF IInv
  <2>2. Still(toApi, toDm, ecu) => Still(toApi', toDm, ecu)
    BY <1>4, <1>8, <1>10, AskedAppend
  <2>3. Asked(toApi', toDm, ecu, sindex, Request(items, sindex))
    BY <1>4, <1>8, <1>10, <2>1, AskedAppend DEF Flow
  <2>4. Keyed(toApi', toDm, ecu, Content(key_byte), seeds)
    BY <1>4, <1>8, <1>10, <2>1, KeyedAppend DEF Flow
  <2> QED
    BY <2>1, <2>2, <2>3, <2>4 DEF Flow
<1>16. started'
  BY StartedIs
<1> QED
  BY <1>13, <1>14, <1>15, <1>16 DEF IInv

\* The request of the item at work is sent.
LEMMA RequestHandlerStep ==
  ASSUME IInv, RequestHandler
  PROVE  IInv'
<1> USE DEF RequestHandler, user, history, ResponseStart
<1>1. PICK i : i = items[sindex]
  OBVIOUS
<1>2. PICK j : j = Preprocessed(i)
  OBVIOUS
<1>3. PICK first \in BOOLEAN : first = (Content(i.request_byte)
                                          = Content(RequestBuild(i).request_byte))
  OBVIOUS
<1>4. PICK of : of = About(sindex, first)
  OBVIOUS
<1>5. PICK data : data = Content(j.request_byte)
  OBVIOUS
<1>6. PICK m :
        m = Message(ServiceMessage(ServiceIndication, data, j.sa, j.ta, j.timeout), of)
  OBVIOUS
<1>7. /\ toApi' = Append(toApi, m) /\ items' = [items EXCEPT ![sindex] = j]
      /\ j.request_byte.dlen <= DataMax
  BY <1>1, <1>2, <1>3, <1>4, <1>5, <1>6
<1>8. /\ IsSequence(items) /\ Len(items) = Len(script) /\ sindex \in 1..Len(items)
      /\ script \in Seq(Services) /\ WellFormed(key_byte)
  BY DEF IInv, Shape
<1>9. PICK c \in Services : c = script[sindex]
  BY <1>8
<1>10. ItemOK(i, c)
  BY <1>1, <1>8, <1>9 DEF IInv, Contents, ItemsOK
<1>11. ItemOK(j, c)
  BY <1>2, <1>7, <1>8, <1>10, ItemPreprocessed
<1>12. Changed(items', items, sindex, j)
  BY <1>7, <1>8, SequenceExcept
<1>13. /\ data \in Data /\ Asks(data, c) /\ j.sa = c.sa /\ j.ta = c.ta
       /\ j.timeout = c.timeout
  BY <1>5, <1>11 DEF ItemOK, Configured, Plain
<1>14. of \in Abouts /\ of.item = sindex /\ of.first = first /\ of.seeds = seeds
       /\ of.late = late
  <2>1. sindex \in Nat
    BY <1>8
  <2> QED
    BY <1>4, <2>1 DEF About, Abouts, IInv, Shape
<1>15. /\ m \in Messages /\ m.of = of /\ Kind(m) = "request"
       /\ ServiceFields(m.bytes).data = data
       /\ ServiceFields(m.bytes).sa = c.sa /\ ServiceFields(m.bytes).ta = c.ta
  <2>1. data \in Seq(Byte) /\ Fits(Len(data), 4)
    BY <1>13, DataFits
  <2>2. c.sa \in DWord /\ c.ta \in DWord /\ c.timeout \in Nat
    BY ServiceOK DEF DWord
  <2>3. m = Message(ServiceMessage(ServiceIndication, data, c.sa, c.ta, c.timeout), of)
    BY <1>6, <1>13
  <2>4. of.item # 0
    BY <1>8, <1>14
  <2> HIDE DEF RequestHandler
  <2>5. /\ m \in Messages /\ m.of = of /\ ServiceFields(m.bytes).data = data
        /\ ServiceFields(m.bytes).sa = c.sa /\ ServiceFields(m.bytes).ta = c.ta
    BY <1>14, <2>1, <2>2, <2>3, IndicationKind
  <2>6. Kind(m) = IF of.item = 0 THEN "present" ELSE "request"
    BY <1>14, <2>1, <2>2, <2>3, IndicationKind
  <2> QED
    BY <1>14, <2>4, <2>5, <2>6
<1>16. KeyOK(data, of, c)
  <2>1. of.late = 0 => Content(key_byte) \in {<<>>, Key(of.seeds)}
    BY <1>14 DEF IInv, Flow, Keyed
  <2>2. of.first = (Content(i.request_byte) = Content(RequestBuild(i).request_byte))
    BY <1>3, <1>14
  <2> QED
    BY <1>2, <1>5, <1>7, <1>8, <1>10, <2>1, <2>2, KeySent
<1>17. ApiOK(m, script, general)
  <2>1. RequestOK(ServiceFields(m.bytes), of, c)
    BY <1>13, <1>15, <1>16 DEF RequestOK
  <2> QED
    BY <1>8, <1>9, <1>14, <1>15, <2>1 DEF ApiOK
<1>18. toApi \in Seq(Messages) /\ ApisOK(toApi, script, general)
  BY DEF IInv, Shape, Contents
<1>19. toApi' \in Seq(Messages) /\ ApisOK(toApi', script, general)
  BY <1>7, <1>15, <1>17, <1>18, ApisAppend
<1>20. Shape'
  BY <1>8, <1>12, <1>19 DEF IInv, Shape, Changed
<1>21. ItemsOK(items', script)
  <2> SUFFICES ASSUME NEW k \in 1..Len(script)
               PROVE  ItemOK(items'[k], script[k])
    BY DEF ItemsOK
  <2>1. CASE k = sindex
    BY <1>9, <1>11, <1>12, <2>1 DEF Changed
  <2>2. CASE k # sindex
    BY <1>8, <1>12, <2>2 DEF Changed, IInv, Contents, ItemsOK
  <2> QED
    BY <2>1, <2>2
<1>22. Contents'
  BY <1>19, <1>21 DEF IInv, Contents
<1>23. ASSUME late = 0
       PROVE  Flow'
  <2>1. Flow
    BY <1>23 DEF IInv
  <2>2. Asked(toApi', toDm, ecu, sindex, data)
    <3>1. Still(toApi, toDm, ecu)
      BY <2>1 DEF Flow
    <3> QED
      BY <1>7, <1>14, <1>15, <1>18, <3>1, RequestAppended
  <2>3. Request(items', sindex) = data
    BY <1>5, <1>8, <1>12 DEF Request, Changed
  <2>4. Keyed(toApi', toDm, ecu, Content(key_byte), seeds)
    BY <1>7, <1>15, <1>18, <2>1, KeyedAppend DEF Flow
  <2> QED
    BY <1>8, <2>2, <2>3, <2>4 DEF Flow
<1>24. started'
  BY StartedIs
<1> QED
  BY <1>20, <1>22, <1>23, <1>24 DEF IInv

\* A message that is no request and no seed, and that the API has read.
LEMMA ApiReadsStep ==
  ASSUME IInv, NEW command, ApiReads(command), UNCHANGED <<toDm, ecu>>,
         GivenOK(given', script, general)
  PROVE  IInv'
<1> USE DEF ApiReads, config, timers, history
<1>1. toApi \in Seq(Messages) /\ ApisOK(toApi, script, general) /\ toApi # <<>>
  BY DEF IInv, Shape, Contents
<1>2. toApi' \in Seq(Messages) /\ ApisOK(toApi', script, general)
  BY <1>1, ApisTail
<1>3. Shape'
  BY <1>2 DEF IInv, Shape
<1>4. Contents'
  BY <1>2 DEF IInv, Contents
<1>5. ASSUME late = 0
      PROVE  Flow'
  <2>1. Flow
    BY <1>5 DEF IInv
  <2>2. Still(toApi, toDm, ecu) => Still(toApi', toDm, ecu)
    BY <1>1, ApiTail
  <2>3. Asked(toApi', toDm, ecu, sindex, Request(items, sindex))
    BY <1>1, <2>1, ApiTail DEF Flow
  <2>4. Keyed(toApi', toDm, ecu, Content(key_byte), seeds)
    BY <1>1, <2>1, ApiTail DEF Flow
  <2> QED
    BY <2>1, <2>2, <2>3, <2>4 DEF Flow
<1>6. started'
  BY <1>1, StartedIs
<1> QED
  BY <1>3, <1>4, <1>5, <1>6 DEF IInv

\* The API has the callback send a request.
LEMMA RequestReadStep ==
  ASSUME IInv, RequestRead
  PROVE  IInv'
<1>1. PICK m : m = Head(toApi)
  OBVIOUS
<1>2. PICK f : f = ServiceFields(m.bytes)
  OBVIOUS
<1>3. /\ ApiReads(ServiceIndication) /\ UNCHANGED toDm
      /\ given' = [kind |-> "request", data |-> f.data, sa |-> f.sa, ta |-> f.ta,
                   of |-> m.of]
      /\ ecu' = IF m.of.item = 0 THEN ecu
                ELSE Append(ecu, [m.of EXCEPT !.request = f.data])
      /\ Command(m.bytes) = ServiceIndication
  BY <1>1, <1>2 DEF RequestRead, ApiReads
<1>4. toApi \in Seq(Messages) /\ ApisOK(toApi, script, general) /\ toApi # <<>>
  BY <1>3 DEF IInv, Shape, Contents, ApiReads
<1>5. m \in Messages /\ ApiOK(m, script, general)
  BY <1>1, <1>4, ApisTail
<1>6. Kind(m) = IF m.of.item = 0 THEN "present" ELSE "request"
  BY <1>3, KindOf
<1>7. CASE m.of.item = 0
  <2>1. PresentOK(f, general)
    BY <1>2, <1>5, <1>6, <1>7 DEF ApiOK
  <2>2. GivenOK(given', script, general)
    BY <1>3, <1>7, <2>1 DEF GivenOK, PresentOK
  <2>3. ecu' = ecu
    BY <1>3, <1>7
  <2> QED
    BY <1>3, <2>2, <2>3, ApiReadsStep
<1>8. CASE m.of.item # 0
  <2>1. PICK c : c = script[m.of.item]
    OBVIOUS
  <2>2. m.of.item \in 1..Len(script) /\ RequestOK(f, m.of, c)
    BY <1>2, <1>5, <1>6, <1>8, <2>1 DEF ApiOK
  <2>3. GivenOK(given', script, general)
    BY <1>3, <1>8, <2>1, <2>2 DEF GivenOK, RequestOK
  <2>4. PICK a : a = [m.of EXCEPT !.request = f.data]
    OBVIOUS
  <2>5. f.data \in Data /\ f.data \in Seq(Byte)
    BY <2>2 DEF RequestOK, Data
  <2>6. /\ a \in Abouts /\ a.item = m.of.item /\ a.first = m.of.first
        /\ a.seeds = m.of.seeds /\ a.late = m.of.late /\ a.request = f.data
    <3>1. m.of \in Abouts
      BY <1>5 DEF Messages
    <3> QED
      BY <2>4, <2>5, <3>1 DEF Abouts
  <2>7. EcuOK(a, script)
    BY <2>1, <2>2, <2>5, <2>6 DEF EcuOK, RequestOK, KeyOK
  <2>8. ecu' = Append(ecu, a)
    BY <1>3, <1>8, <2>4
  <2>9. ecu \in Seq(Abouts) /\ EcusOK(ecu, script)
    BY DEF IInv, Shape, Contents
  <2>10. ecu' \in Seq(Abouts) /\ EcusOK(ecu', script)
    BY <2>6, <2>7, <2>8, <2>9, EcusAppend
  <2>11. toApi' \in Seq(Messages) /\ ApisOK(toApi', script, general) /\ toApi' = Tail(toApi)
    BY <1>3, <1>4, ApisTail DEF ApiReads
  <2> USE DEF config, timers, history
  <2>12. Shape'
    BY <1>3, <2>10, <2>11 DEF IInv, Shape, ApiReads
  <2>13. Contents'
    BY <1>3, <2>3, <2>10, <2>11 DEF IInv, Contents, ApiReads
  <2>14. ASSUME late = 0
         PROVE  Flow'
    <3>1. Flow
      BY <2>14 DEF IInv
    <3>2. PICK request : request = Request(items, sindex)
      OBVIOUS
    <3>3. /\ Asked(toApi, toDm, ecu, sindex, request)
          /\ Keyed(toApi, toDm, ecu, Content(key_byte), seeds)
      BY <3>1, <3>2 DEF Flow
    <3>4. Kind(Head(toApi)) = "request" /\ Head(toApi).of.item = m.of.item
          /\ ServiceFields(Head(toApi).bytes).data = a.request
      BY <1>1, <1>2, <1>6, <1>8, <2>6
    <3>5. m.of.item = sindex
      BY <1>1, <1>4, <3>3, <3>4, TailIs DEF Asked
    <3>6. /\ ~Still(toApi, toDm, ecu)
          /\ Asked(Tail(toApi), toDm, Append(ecu, a), sindex, request)
          /\ Keyed(Tail(toApi), toDm, Append(ecu, a), Content(key_byte), seeds)
      BY <1>4, <2>6, <3>3, <3>4, <3>5, RequestTaken
    <3>7. ~request_watcher /\ sindex # 0
      BY <3>1, <3>6 DEF Flow
    <3> QED
      BY <1>3, <2>8, <2>11, <3>2, <3>6, <3>7 DEF Flow, ApiReads
  <2>15. started'
    BY <1>3, <1>4, StartedIs DEF ApiReads
  <2> QED
    BY <1>3, <2>12, <2>13, <2>14, <2>15 DEF IInv, ApiReads
<1> QED
  BY <1>7, <1>8

\* The API hands a result to its callback.
LEMMA ResultReadStep ==
  ASSUME IInv, ResultRead
  PROVE  IInv'
<1>1. PICK m : m = Head(toApi)
  OBVIOUS
<1>2. PICK f : f = ResultFields(m.bytes)
  OBVIOUS
<1>3. /\ ApiReads(ServiceRequestResult) /\ UNCHANGED <<toDm, ecu>>
      /\ Command(m.bytes) = ServiceRequestResult
      /\ \/ UNCHANGED given
         \/ \E cb \in ResultHandler(f.rr_callid) :
              given' = [kind |-> "result", cb |-> cb, data |-> f.data, of |-> m.of]
  BY <1>1, <1>2 DEF ResultRead, ApiReads
<1>4. toApi \in Seq(Messages) /\ ApisOK(toApi, script, general) /\ toApi # <<>>
  BY <1>3 DEF IInv, Shape, Contents, ApiReads
<1>5. m \in Messages /\ ApiOK(m, script, general)
  BY <1>1, <1>4, ApisTail
<1>6. Kind(m) = "result"
  BY <1>3, KindOf
<1>7. ResultOK(f, m.of, script) /\ f.rr_callid \in Nat
  BY <1>2, <1>5, <1>6 DEF ApiOK
<1>8. \A cb \in ResultHandler(f.rr_callid) : cb = f.rr_callid
  <2>1. \A k \in 1..Len(rr_handler) : rr_handler[k] = k
    BY DEF IInv, Shape
  <2> SUFFICES ASSUME NEW cb \in ResultHandler(f.rr_callid)
               PROVE  cb = f.rr_callid
    OBVIOUS
  <2>2. ResultHandler(f.rr_callid) # {}
    OBVIOUS
  <2>3. /\ f.rr_callid > 0 /\ f.rr_callid <= Len(rr_handler)
        /\ cb = rr_handler[f.rr_callid]
    BY DEF ResultHandler
  <2> QED
    BY <1>7, <2>1, <2>3
<1>9. GivenOK(given', script, general)
  <2>1. CASE UNCHANGED given
    BY <2>1 DEF IInv, Contents
  <2>2. CASE \E cb \in ResultHandler(f.rr_callid) :
               given' = [kind |-> "result", cb |-> cb, data |-> f.data, of |-> m.of]
    BY <1>7, <1>8, <2>2 DEF GivenOK, ResultOK
  <2> QED
    BY <1>3, <2>1, <2>2
<1> QED
  BY <1>3, <1>9, ApiReadsStep

\* The API hands a finish to its callback.
LEMMA FinishReadStep ==
  ASSUME IInv, FinishRead
  PROVE  IInv'
<1>1. PICK m : m = Head(toApi)
  OBVIOUS
<1>2. PICK f : f = FinishFields(m.bytes)
  OBVIOUS
<1>3. /\ ApiReads(ScriptResult) /\ UNCHANGED <<toDm, ecu>>
      /\ Command(m.bytes) = ScriptResult
      /\ given' = [kind |-> "finish", recode |-> Recode(m.bytes), ind |-> f.ind,
                   resp |-> f.resp, of |-> m.of]
  BY <1>1, <1>2 DEF FinishRead, ApiReads
<1>4. toApi \in Seq(Messages) /\ ApisOK(toApi, script, general) /\ toApi # <<>>
  BY <1>3 DEF IInv, Shape, Contents, ApiReads
<1>5. m \in Messages /\ ApiOK(m, script, general)
  BY <1>1, <1>4, ApisTail
<1>6. Kind(m) = "finish"
  BY <1>3, KindOf
<1>7. FinishOK(Recode(m.bytes), f, m.of)
  BY <1>2, <1>5, <1>6 DEF ApiOK
<1>8. GivenOK(given', script, general)
  BY <1>3, <1>7 DEF GivenOK, FinishOK
<1> QED
  BY <1>3, <1>8, ApiReadsStep

\* The user makes a key of the seed.
LEMMA SeedReadStep ==
  ASSUME IInv, SeedRead
  PROVE  IInv'
<1>1. PICK m : m = Head(toApi)
  OBVIOUS
<1>2. PICK f : f = SaFields(m.bytes)
  OBVIOUS
<1>3. PICK key : key = Key(m.of.seeds)
  OBVIOUS
<1>4. PICK r : r = Message(SaMessage(SaKey, f.level, key), m.of)
  OBVIOUS
<1>5. /\ ApiReads(SaSeed) /\ UNCHANGED ecu
      /\ given' = [kind |-> "seed", data |-> f.data, of |-> m.of]
      /\ toDm' = Append(toDm, r) /\ Command(m.bytes) = SaSeed
  BY <1>1, <1>2, <1>3, <1>4 DEF SeedRead, ApiReads
<1>6. /\ toApi \in Seq(Messages) /\ ApisOK(toApi, script, general) /\ toApi # <<>>
      /\ toDm \in Seq(Messages) /\ DmsOK(toDm)
  BY <1>5 DEF IInv, Shape, Contents, ApiReads
<1>7. m \in Messages /\ ApiOK(m, script, general)
  BY <1>1, <1>6, ApisTail
<1>8. Kind(m) = "seed"
  BY <1>5, KindOf
<1>9. f.level \in Byte /\ m.of \in Abouts /\ m.of.seeds \in Nat
  BY <1>2, <1>7, <1>8 DEF ApiOK, Messages, Abouts
<1>10. key \in Seq(Byte) /\ Fits(Len(key), 2)
  BY <1>3, <1>9 DEF Key, Byte, Fits
<1>11. /\ r \in Messages /\ Kind(r) = "key" /\ SaFields(r.bytes).data = key
  <2>1. PICK cmd \in {SaSeed, SaKey} : cmd = SaKey /\ cmd # SaSeed
    BY DEF SaSeed, SaKey
  <2>2. PICK level \in Byte, of \in Abouts : level = f.level /\ of = m.of
    BY <1>9
  <2>3. r = Message(SaMessage(cmd, level, key), of)
    BY <1>4, <2>1, <2>2
  <2>4. r \in Messages /\ SaFields(r.bytes).data = key
    BY <1>10, <2>3, SaKind
  <2>5. Kind(r) = IF cmd = SaSeed THEN "seed" ELSE "key"
    BY <1>10, <2>3, SaKind
  <2> QED
    BY <2>1, <2>4, <2>5
<1>12. DmOK(r)
  BY <1>10, <1>11 DEF DmOK
<1>13. toDm' \in Seq(Messages) /\ DmsOK(toDm')
  BY <1>5, <1>6, <1>11, <1>12, DmsAppend
<1>14. toApi' \in Seq(Messages) /\ ApisOK(toApi', script, general) /\ toApi' = Tail(toApi)
  BY <1>5, <1>6, ApisTail DEF ApiReads
<1> USE DEF config, timers, history
<1>15. Shape'
  BY <1>5, <1>13, <1>14 DEF IInv, Shape, ApiReads
<1>16. GivenOK(given', script, general)
  BY <1>5 DEF GivenOK
<1>17. Contents'
  BY <1>5, <1>13, <1>14, <1>16 DEF IInv, Contents, ApiReads
<1>18. ASSUME late = 0
       PROVE  Flow'
  <2>1. Flow
    BY <1>18 DEF IInv
  <2>2. PICK request : request = Request(items, sindex)
    OBVIOUS
  <2>3. /\ Asked(toApi, toDm, ecu, sindex, request)
        /\ Keyed(toApi, toDm, ecu, Content(key_byte), seeds)
    BY <2>1, <2>2 DEF Flow
  <2>4. Kind(Head(toApi)) = "seed" /\ SaFields(r.bytes).data = Key(Head(toApi).of.seeds)
    BY <1>1, <1>3, <1>8, <1>11
  <2>5. /\ Still(toApi, toDm, ecu) => Still(toApi', toDm', ecu)
        /\ Asked(toApi', toDm', ecu, sindex, request)
        /\ Keyed(toApi', toDm', ecu, Content(key_byte), seeds)
    BY <1>5, <1>6, <1>11, <1>14, <2>3, <2>4, SeedTaken
  <2> QED
    BY <1>5, <2>1, <2>2, <2>5 DEF Flow, ApiReads
<1>19. started'
  BY <1>5, <1>6, StartedIs DEF ApiReads
<1> QED
  BY <1>5, <1>15, <1>17, <1>18, <1>19 DEF IInv, ApiReads

\* The diag master takes the key.
LEMMA KeyReadStep ==
  ASSUME IInv, KeyRead
  PROVE  IInv'
<1> USE DEF KeyRead, user, config, timers, history
<1>1. PICK m : m = Head(toDm)
  OBVIOUS
<1>2. PICK key : key = SaFields(m.bytes).data
  OBVIOUS
<1>3. /\ toDm # <<>> /\ toDm' = Tail(toDm) /\ Command(m.bytes) = SaKey
      /\ key_byte' = ByteArrayAppendNChar(key_byte, key)
  BY <1>1, <1>2 DEF KeyGenerate
<1>4. toDm \in Seq(Messages) /\ DmsOK(toDm) /\ WellFormed(key_byte)
  BY DEF IInv, Shape, Contents
<1>5. toDm' \in Seq(Messages) /\ DmsOK(toDm') /\ m \in Messages /\ DmOK(m)
  BY <1>1, <1>3, <1>4, DmsTail
<1>6. Kind(m) = "key"
  BY <1>3, KindOf
<1>7. key \in Seq(Byte)
  BY <1>2, <1>5, <1>6 DEF DmOK
<1>8. WellFormed(key_byte') /\ Content(key_byte') = Content(key_byte) \o key
  BY <1>3, <1>4, <1>7, AppendWellFormed
<1>9. Shape'
  BY <1>5, <1>8 DEF IInv, Shape
<1>10. Contents'
  BY <1>5 DEF IInv, Contents
<1>11. ASSUME late = 0
       PROVE  Flow'
  <2>1. Flow
    BY <1>11 DEF IInv
  <2>2. Kind(Head(toDm)) = "key"
    BY <1>1, <1>6
  <2>3. PICK old : old = Content(key_byte) /\ Keyed(toApi, toDm, ecu, old, seeds)
    BY <2>1 DEF Flow
  <2>4. /\ old = <<>> /\ SaFields(Head(toDm).bytes).data = Key(seeds)
        /\ Keyed(toApi, Tail(toDm), ecu, Key(seeds), seeds)
    BY <1>3, <1>4, <2>2, <2>3, KeyTaken
  <2>5. Content(key_byte') = Key(seeds)
    BY <1>1, <1>2, <1>7, <1>8, <2>3, <2>4
  <2>6. Still(toApi, toDm, ecu) => Still(toApi, toDm', ecu)
    BY <1>3, <1>4, DmTail
  <2>7. Asked(toApi, toDm', ecu, sindex, Request(items, sindex))
    BY <1>3, <1>4, <2>1, DmTail DEF Flow
  <2> QED
    BY <1>3, <2>1, <2>4, <2>5, <2>6, <2>7 DEF Flow
<1>12. started'
  BY <1>3, StartedIs
<1> QED
  BY <1>9, <1>10, <1>11, <1>12 DEF IInv

\* A sequence without one of its elements.
LEMMA WithoutIs ==
  ASSUME NEW S, NEW s \in Seq(S), NEW k \in 1..Len(s)
  PROVE  Without(s, k) \in Seq(S) /\ Len(Without(s, k)) = Len(s) - 1
<1>1. PICK u \in Seq(S) : u = SubSeq(s, 1, k - 1) /\ Len(u) = k - 1
  <2>1. SubSeq(s, 1, k - 1) \in Seq(S) /\ Len(SubSeq(s, 1, k - 1)) = k - 1
    OBVIOUS
  <2> QED
    BY <2>1
<1>2. PICK v \in Seq(S) : v = SubSeq(s, k + 1, Len(s)) /\ Len(v) = Len(s) - k
  <2>1. SubSeq(s, k + 1, Len(s)) \in Seq(S) /\ Len(SubSeq(s, k + 1, Len(s))) = Len(s) - k
    OBVIOUS
  <2> QED
    BY <2>1
<1>3. Without(s, k) = u \o v
  BY <1>1, <1>2 DEF Without
<1>4. u \o v \in Seq(S) /\ Len(u \o v) = Len(u) + Len(v)
  OBVIOUS
<1>5. Len(s) \in Nat /\ Len(u) = k - 1 /\ Len(v) = Len(s) - k
  BY <1>1, <1>2
<1>6. Len(u \o v) = Len(s) - 1
  BY <1>4, <1>5
<1> QED
  BY <1>3, <1>4, <1>6

\* A sequence with another element.
LEMMA ExceptIs ==
  ASSUME NEW S, NEW s \in Seq(S), NEW k \in 1..Len(s), NEW x \in S,
         NEW r, r = [s EXCEPT ![k] = x]
  PROVE  r \in Seq(S) /\ Len(r) = Len(s) /\ r[k] = x
  OBVIOUS

\* A sequence is one of what its elements are.
LEMMA SequenceOf ==
  ASSUME NEW A, NEW s \in Seq(A), NEW S, \A n \in 1..Len(s) : s[n] \in S
  PROVE  s \in Seq(S)
  OBVIOUS

\* An ECU answers.
LEMMA ServiceRespondedStep ==
  ASSUME IInv, NEW k \in 1..Len(ecu), NEW d, ServiceResponded(k, d)
  PROVE  IInv'
<1> USE DEF ServiceResponded, user, config, timers, history
<1>1. PICK a : a = ecu[k]
  OBVIOUS
<1>2. PICK c : c = script[a.item]
  OBVIOUS
<1>3. PICK of : of = [a EXCEPT !.answer = d]
  OBVIOUS
<1>4. PICK m : m = Message(ServiceMessage(ServiceResponse, d, c.ta, c.sa, 1), of)
  OBVIOUS
<1>5. /\ toDm' = Append(toDm, m) /\ IsAnswer(d)
      /\ ecu' = IF IsPending(d) THEN [ecu EXCEPT ![k].answer = d] ELSE Without(ecu, k)
  BY <1>1, <1>2, <1>3, <1>4
<1>6. ecu \in Seq(Abouts) /\ EcusOK(ecu, script) /\ script \in Seq(Services)
  BY DEF IInv, Shape, Contents
<1>7. a \in Abouts /\ EcuOK(a, script)
  BY <1>1, <1>6 DEF EcusOK
<1>8. c \in Services
  BY <1>2, <1>6, <1>7 DEF EcuOK
<1>9. d \in Seq(Byte) /\ d \in Data
  BY <1>5 DEF IsAnswer, Data
<1>10. /\ of \in Abouts /\ of.item = a.item /\ of.request = a.request /\ of.answer = d
       /\ of.first = a.first /\ of.seeds = a.seeds /\ of.late = a.late
  BY <1>3, <1>7, <1>9 DEF Abouts
<1>11. /\ m \in Messages /\ m.of = of /\ ServiceFields(m.bytes).data = d
       /\ Kind(m) = IF IsPending(d) THEN "pending" ELSE "final"
  <2>1. PICK cmd \in {ServiceIndication, ServiceResponse} : cmd = ServiceResponse
    OBVIOUS
  <2>2. PICK sa \in DWord, ta \in DWord, z \in Nat : sa = c.ta /\ ta = c.sa /\ z = 1
    BY <1>8, ServiceOK
  <2>3. m = Message(ServiceMessage(cmd, d, sa, ta, z), of)
    BY <1>4, <2>1, <2>2
  <2>4. Fits(Len(d), 4)
    BY <1>9, DataFits
  <2> HIDE DEF ServiceResponded
  <2>5. m \in Messages /\ m.of = of /\ ServiceFields(m.bytes).data = d
    BY <1>9, <1>10, <2>3, <2>4, ServiceKind
  <2>6. cmd = ServiceResponse => Kind(m) = IF IsPending(d) THEN "pending" ELSE "final"
    BY <1>9, <1>10, <2>3, <2>4, ServiceKind
  <2> QED
    BY <2>1, <2>5, <2>6
<1>12. DmOK(m)
  BY <1>5, <1>10, <1>11 DEF DmOK
<1>13. toDm \in Seq(Messages) /\ DmsOK(toDm)
  BY DEF IInv, Shape, Contents
<1>14. toDm' \in Seq(Messages) /\ DmsOK(toDm')
  BY <1>5, <1>11, <1>12, <1>13, DmsAppend
<1>15. EcuOK(of, script)
  BY <1>7, <1>10 DEF EcuOK, KeyOK
<1>16. ecu' \in Seq(Abouts) /\ EcusOK(ecu', script)
  <2> DEFINE S == {b \in Abouts : EcuOK(b, script)}
  <2>1. ecu \in Seq(S)
    <3>1. \A n \in 1..Len(ecu) : ecu[n] \in S
      BY <1>6 DEF EcusOK
    <3>2. ecu \in Seq(Abouts)
      BY <1>6
    <3> HIDE DEF S, ServiceResponded
    <3> QED
      BY <3>1, <3>2, SequenceOf
  <2>2. ecu' \in Seq(S)
    <3>1. CASE IsPending(d)
      <4>1. ecu' = [ecu EXCEPT ![k] = of]
        BY <1>1, <1>3, <1>5, <1>6, <3>1
      <4>2. of \in S
        BY <1>10, <1>15
      <4>3. k \in 1..Len(ecu)
        OBVIOUS
      <4> HIDE DEF S, ServiceResponded
      <4> QED
        BY <2>1, <4>1, <4>2, <4>3, ExceptIs, Zenon
    <3>2. CASE ~IsPending(d)
      <4> HIDE DEF S
      <4> QED
        BY <1>5, <2>1, <3>2, WithoutIs
    <3> QED
      BY <3>1, <3>2
  <2>3. ecu' \in Seq(Abouts)
    <3>1. \A b \in S : b \in Abouts
      OBVIOUS
    <3> HIDE DEF S, ServiceResponded
    <3> QED
      BY <2>2, <3>1
  <2>4. \A j \in 1..Len(ecu') : ecu'[j] \in S
    <3> HIDE DEF S, ServiceResponded
    <3> QED
      BY <2>2
  <2> QED
    BY <2>3, <2>4 DEF EcusOK
<1>17. Shape'
  BY <1>14, <1>16 DEF IInv, Shape
<1>18. Contents'
  BY <1>14, <1>16 DEF IInv, Contents
<1>19. ecu # <<>>
  BY <1>6
<1>20. ASSUME late = 0
       PROVE  Flow'
  <2>1. Flow
    BY <1>20 DEF IInv
  <2>2. PICK request : request = Request(items, sindex)
    OBVIOUS
  <2>3. /\ Asked(toApi, toDm, ecu, sindex, request)
        /\ Keyed(toApi, toDm, ecu, Content(key_byte), seeds)
    BY <2>1, <2>2 DEF Flow
  <2>4. a.item = sindex /\ a.request = request /\ Len(ecu) = 1 /\ k = 1
    <3>1. Len(ecu) <= 1 /\ Len(ecu) \in Nat /\ k \in Nat
      BY <1>6, <2>3 DEF Asked
    <3>2. ecu[k].item = sindex /\ ecu[k].request = request
      BY <2>3 DEF Asked
    <3>3. Len(ecu) = 1 /\ k = 1
      <4> HIDE DEF ServiceResponded
      <4> QED
        BY <3>1
    <3> QED
      BY <1>1, <3>2, <3>3, Zenon
  <2>5. /\ \A j \in 1..Len(ecu') : ecu'[j].item = sindex /\ ecu'[j].request = request
        /\ Len(ecu') <= 1
        /\ Kind(m) = "final" => ecu' = <<>>
    <3>1. CASE IsPending(d)
      <4>1. ecu' = [ecu EXCEPT ![k] = of]
        BY <1>1, <1>3, <1>5, <1>6, <3>1
      <4>2. Len(ecu') = 1 /\ ecu'[1] = of
        BY <1>6, <1>10, <2>4, <4>1, ExceptIs
      <4>3. \A j \in 1..Len(ecu') : j = 1
        <5> HIDE DEF ServiceResponded
        <5> QED
          BY <4>2
      <4>4. Kind(m) = "pending"
        BY <1>11, <3>1
      <4> HIDE DEF ServiceResponded
      <4> QED
        BY <1>10, <2>4, <4>2, <4>3, <4>4
    <3>2. CASE ~IsPending(d)
      <4>0. Len(Without(ecu, k)) = Len(ecu) - 1
        BY <1>6, WithoutIs
      <4>1. Len(ecu') = 0 /\ ecu' \in Seq(Abouts)
        BY <1>5, <1>16, <2>4, <3>2, <4>0
      <4> QED
        BY <4>1
    <3> QED
      BY <3>1, <3>2
  <2>6. /\ Kind(m) \in {"pending", "final"} /\ m.of.item = sindex /\ m.of.request = request
    BY <1>10, <1>11, <2>4
  <2>7. /\ ~Still(toApi, toDm, ecu)
        /\ Asked(toApi, toDm', ecu', sindex, request)
        /\ Keyed(toApi, toDm', ecu', Content(key_byte), seeds)
    <3>1. PICK r : r = ecu'
      OBVIOUS
    <3>2. /\ AllOf(r, sindex, request)
          /\ Len(r) <= 1
          /\ Kind(m) = "final" => r = <<>>
      BY <2>5, <3>1 DEF AllOf
    <3>4. PICK key : key = Content(key_byte) /\ Keyed(toApi, toDm, ecu, key, seeds)
      BY <2>3
    <3>5. m \in Messages /\ Asked(toApi, toDm, ecu, sindex, request)
      BY <1>11, <2>3
    <3> HIDE DEF ServiceResponded
    <3>3. /\ ~Still(toApi, toDm, ecu)
          /\ Asked(toApi, Append(toDm, m), r, sindex, request)
          /\ Keyed(toApi, Append(toDm, m), r, key, seeds)
      BY <1>6, <1>13, <1>19, <2>6, <3>2, <3>4, <3>5, ResponseGiven
    <3> QED
      BY <1>5, <3>1, <3>3, <3>4
  <2> QED
    BY <2>1, <2>2, <2>7 DEF Flow
<1>21. started'
  BY <1>19, StartedIs
<1> QED
  BY <1>17, <1>18, <1>20, <1>21 DEF IInv

\* What is sent besides a seed when a response is handled: at most a result or a
\* finish.
Quiet(t, s, g) ==
  \/ t = <<>>
  \/ \E m \in Messages : /\ t = <<m>> /\ ApiOK(m, s, g)
                         /\ Kind(m) \in {"result", "finish"}

\* It is a message at most.
LEMMA QuietType ==
  ASSUME NEW t, NEW s, NEW g, Quiet(t, s, g)
  PROVE  t \in Seq(Messages)
<1>1. t = <<>> \/ \E m \in Messages : t = <<m>>
  BY DEF Quiet
<1>2. <<>> \in Seq(Messages)
  OBVIOUS
<1>3. \A m \in Messages : <<m>> \in Seq(Messages)
  OBVIOUS
<1> QED
  BY <1>1, <1>2, <1>3, Zenon

\* r is api with that behind it.
More(r, api, s, g) ==
  \/ r = api
  \/ \E m \in Messages : /\ r = Append(api, m) /\ ApiOK(m, s, g)
                         /\ Kind(m) # "request" /\ Kind(m) # "seed"

\* It is a message more, or none.
LEMMA QuietIs ==
  ASSUME NEW s, NEW g, NEW api \in Seq(Messages), NEW t, Quiet(t, s, g)
  PROVE  More(api \o t, api, s, g)
<1>1. CASE t = <<>>
  BY <1>1 DEF More
<1>2. ASSUME NEW m \in Messages, t = <<m>>, ApiOK(m, s, g), Kind(m) \in {"result", "finish"}
      PROVE  \E n \in Messages : /\ api \o t = Append(api, n) /\ ApiOK(n, s, g)
                                 /\ Kind(n) # "request" /\ Kind(n) # "seed"
  <2>1. api \o t = Append(api, m)
    BY <1>2
  <2> QED
    BY <1>2, <2>1
<1> QED
  BY <1>1, <1>2 DEF Quiet, More

\* The messages stay in order.
LEMMA QuietOK ==
  ASSUME NEW s, NEW g, NEW api \in Seq(Messages), NEW t, Quiet(t, s, g)
  PROVE  ApisOK(api, s, g) => api \o t \in Seq(Messages) /\ ApisOK(api \o t, s, g)
<1>1. CASE api \o t = api
  BY <1>1
<1>2. CASE \E m \in Messages : /\ api \o t = Append(api, m) /\ ApiOK(m, s, g)
                               /\ Kind(m) # "request" /\ Kind(m) # "seed"
  <2>1. PICK m \in Messages : api \o t = Append(api, m) /\ ApiOK(m, s, g)
    BY <1>2
  <2> QED
    BY <2>1, ApisAppend
<1>3. More(api \o t, api, s, g)
  BY QuietIs
<1> QED
  BY <1>1, <1>2, <1>3 DEF More

\* What is under way stays so.
LEMMA QuietStill ==
  ASSUME NEW s, NEW g, NEW api \in Seq(Messages), NEW t, Quiet(t, s, g), NEW dm, NEW e
  PROVE  /\ None(api, "seed") => None(api \o t, "seed")
         /\ Still(api, dm, e) => Still(api \o t, dm, e)
<1>1. CASE api \o t = api
  BY <1>1
<1>2. CASE \E m \in Messages : /\ api \o t = Append(api, m) /\ ApiOK(m, s, g)
                               /\ Kind(m) # "request" /\ Kind(m) # "seed"
  <2>1. PICK m \in Messages : /\ api \o t = Append(api, m)
                              /\ Kind(m) # "request" /\ Kind(m) # "seed"
    BY <1>2
  <2>2. None(api, "seed") => None(api \o t, "seed")
    BY <2>1, NoneAppend
  <2>3. Still(api, dm, e) => Still(api \o t, dm, e)
    BY <2>1, AskedAppend
  <2> QED
    BY <2>2, <2>3
<1> QED
  BY <1>1, <1>2, QuietIs DEF More

\* The request at work is the same.
LEMMA QuietAsked ==
  ASSUME NEW s, NEW g, NEW api \in Seq(Messages), NEW t, Quiet(t, s, g), NEW dm, NEW e,
         NEW item, NEW request, Asked(api, dm, e, item, request)
  PROVE  Asked(api \o t, dm, e, item, request)
<1>1. CASE api \o t = api
  BY <1>1
<1>2. CASE \E m \in Messages : /\ api \o t = Append(api, m) /\ ApiOK(m, s, g)
                               /\ Kind(m) # "request" /\ Kind(m) # "seed"
  <2>1. PICK m \in Messages : api \o t = Append(api, m) /\ Kind(m) # "request"
    BY <1>2
  <2> QED
    BY <2>1, AskedAppend
<1> QED
  BY <1>1, <1>2, QuietIs DEF More

\* The seed and the key are the same.
LEMMA QuietKeyed ==
  ASSUME NEW s, NEW g, NEW api \in Seq(Messages), NEW t, Quiet(t, s, g), NEW dm, NEW e,
         NEW key, NEW n, Keyed(api, dm, e, key, n)
  PROVE  Keyed(api \o t, dm, e, key, n)
<1>1. CASE api \o t = api
  BY <1>1
<1>2. CASE \E m \in Messages : /\ api \o t = Append(api, m) /\ ApiOK(m, s, g)
                               /\ Kind(m) # "request" /\ Kind(m) # "seed"
  <2>1. PICK m \in Messages : api \o t = Append(api, m) /\ Kind(m) # "seed"
    BY <1>2
  <2> QED
    BY <2>1, KeyedAppend
<1> QED
  BY <1>1, <1>2, QuietIs DEF More

\* A finish is sent.
LEMMA FinishedIs ==
  ASSUME NEW code \in {0, 12, 13}, NEW ind \in Data, NEW resp \in Data, NEW of \in Abouts,
         of.late = 0 /\ code # 0 => ind = of.request /\ resp = of.answer
  PROVE  Quiet(Finished(code, ind, resp, of), script, general)
<1>1. PICK recode \in 0..255 : recode = code
  OBVIOUS
<1>2. PICK m : m = Message(FinishMessage(recode, ind, resp), of)
  OBVIOUS
<1>3. /\ m \in Messages /\ m.of = of /\ Kind(m) = "finish"
      /\ Recode(m.bytes) = recode
      /\ FinishFields(m.bytes).ind = ind /\ FinishFields(m.bytes).resp = resp
  <2>1. FinishSent(m, recode, ind, resp, of)
    BY <1>2, FinishKind, Zenon
  <2> QED
    BY <2>1 DEF FinishSent
<1>4. ApiOK(m, script, general)
  BY <1>1, <1>3 DEF ApiOK, FinishOK, FinishCode
<1>5. Finished(code, ind, resp, of) = <<m>>
  BY <1>1, <1>2 DEF Finished
<1> QED
  BY <1>3, <1>4, <1>5 DEF Quiet

\* A result is sent, or none.
LEMMA ResultSentIs ==
  ASSUME IInv, sindex > 0, NEW d \in Data, NEW of \in Abouts,
         of.late = 0 => of.item = sindex /\ of.answer = d
  PROVE  Quiet(ResultSent(d, of), script, general)
<1>1. PICK i : i = items[sindex]
  OBVIOUS
<1>2. sindex \in 1..Len(script) /\ script \in Seq(Services)
  BY DEF IInv, Shape
<1>3. PICK c \in Services : c = script[sindex]
  BY <1>2
<1>4. i.rr_callid = c.rr_callid
  BY <1>1, <1>2, <1>3 DEF IInv, Contents, ItemsOK, ItemOK, Configured, Plain
<1>5. PICK id \in DWord : id = c.rr_callid
  BY ServiceOK
<1>6. PICK m : m = Message(ResultMessage(id, d), of)
  OBVIOUS
<1>7. /\ m \in Messages /\ m.of = of /\ Kind(m) = "result"
      /\ ResultFields(m.bytes).rr_callid = id /\ ResultFields(m.bytes).data = d
  BY <1>6, ResultKind
<1>8. id \in Nat
  BY DEF DWord
<1>9. ApiOK(m, script, general)
  BY <1>3, <1>5, <1>7, <1>8 DEF ApiOK, ResultOK
<1>10. ResultSent(d, of) \in {<<>>, <<m>>}
  BY <1>1, <1>4, <1>5, <1>6 DEF ResultSent
<1> QED
  BY <1>7, <1>9, <1>10 DEF Quiet

\* A seed is sent.
LEMMA SeedSentIs ==
  ASSUME NEW d, d[2] \in Byte, NEW of \in Abouts, seeds \in Nat
  PROVE  \E m \in Messages : /\ SeedSent(d, of) = <<m>> /\ Kind(m) = "seed"
                             /\ m.of.seeds = seeds + 1 /\ ApiOK(m, script, general)
<1>1. PICK level \in Byte : level = d[2]
  OBVIOUS
<1>2. PICK a : a = [of EXCEPT !.seeds = seeds + 1]
  OBVIOUS
<1>3. a \in Abouts /\ a.seeds = seeds + 1
  <2>1. PICK n \in Nat : n = seeds + 1
    OBVIOUS
  <2>2. a = [of EXCEPT !.seeds = n]
    BY <1>2, <2>1
  <2> QED
    BY <2>1, <2>2 DEF Abouts
<1>4. PICK data \in Seq(Byte) : data = <<>>
  <2>1. <<>> \in Seq(Byte)
    OBVIOUS
  <2> QED
    BY <2>1
<1>5. Fits(Len(data), 2)
  BY <1>4 DEF Fits
<1>6. PICK cmd \in {SaSeed, SaKey} : cmd = SaSeed
  OBVIOUS
<1>7. PICK m : m = Message(SaMessage(cmd, level, data), a)
  OBVIOUS
<1>8. /\ m \in Messages /\ m.of = a /\ SaFields(m.bytes).level = level
  BY <1>3, <1>5, <1>7, SaKind
<1>9. Kind(m) = IF cmd = SaSeed THEN "seed" ELSE "key"
  BY <1>3, <1>5, <1>7, SaKind
<1>10. ApiOK(m, script, general)
  BY <1>6, <1>8, <1>9 DEF ApiOK
<1>11. SeedSent(d, of) = <<m>>
  BY <1>1, <1>2, <1>4, <1>6, <1>7 DEF SeedSent
<1> QED
  BY <1>3, <1>6, <1>8, <1>9, <1>10, <1>11

\* What an answer leads to: seed tells whether one is sent, sent is what is sent
\* before the finish.
Ending(i, d, of, sent) ==
  \/ \E code \in {12, 13} :
       /\ toApi' = (toApi \o sent) \o Finished(code, Content(i.request_byte), d, of)
       /\ Stopped
  \/ toApi' = (toApi \o sent) \o Finished(0, <<>>, <<>>, of) /\ Stopped
  \/ /\ toApi' = toApi \o sent
     /\ \E keep \in BOOLEAN : (keep \/ sindex # Len(items)) /\ Proceed(keep)

Handled(d, of, out, seed, x) ==
  /\ seed => IsSeed(items[sindex], d)
  /\ items' = [items EXCEPT ![sindex].finish_try_num = x]
  /\ key_byte' = KeyAfterSeed(seed)
  /\ seeds' = IF seed THEN seeds + 1 ELSE seeds
  /\ Ending(items[sindex], d, of, out \o (IF seed THEN SeedSent(d, of) ELSE <<>>))

\* An answer ends the script, or leads to another try or another item.
LEMMA AnsweredIs ==
  ASSUME NEW d, NEW of, NEW out, Answered(d, of, out)
  PROVE  \E seed \in BOOLEAN : \E x : Handled(d, of, out, seed, x)
<1> DEFINE i == items[sindex]
           abort == udsc.isFailAbort # 0
           early == ~MeetsExpect(i, d) /\ abort
           seed == ~early /\ IsSeed(i, d)
           sent == out \o (IF seed THEN SeedSent(d, of) ELSE <<>>)
           keep == FinishKeeps(i, d)
           try == i.finish_try_num + FinishTried(i)
<1>1. PICK meets :
        LET failed == ~meets /\ abort
            last == ~keep /\ sindex = Len(items)
        IN  /\ items' = [items EXCEPT ![sindex].finish_try_num =
                           IF keep /\ ~failed THEN try + 1 ELSE try]
            /\ key_byte' = KeyAfterSeed(seed)
            /\ seeds' = IF seed THEN seeds + 1 ELSE seeds
            /\ \/ /\ failed
                  /\ toApi' = toApi \o sent \o
                       Finished(IF d = <<>> THEN FinishCode.TIMEOUT
                                            ELSE FinishCode.UNEXPECT,
                                Content(i.request_byte), d, of)
                  /\ Stopped
               \/ /\ ~failed /\ last
                  /\ toApi' = toApi \o sent \o
                       Finished(FinishCode.NORMAL, <<>>, <<>>, of)
                  /\ Stopped
               \/ /\ ~failed /\ ~last
                  /\ toApi' = toApi \o sent
                  /\ Proceed(keep)
  BY Zenon DEF Answered
<1> DEFINE failed == ~meets /\ abort
           x == IF keep /\ ~failed THEN try + 1 ELSE try
<1>2. PICK s \in BOOLEAN, k \in BOOLEAN : s = seed /\ k = keep
  <2>1. seed \in BOOLEAN /\ keep \in BOOLEAN
    BY DEF FinishKeeps, IsSeed
  <2> QED
    BY <2>1
<1>3. FinishCode.TIMEOUT = 12 /\ FinishCode.UNEXPECT = 13 /\ FinishCode.NORMAL = 0
  BY DEF FinishCode
<1>4. Ending(i, d, of, sent)
  <2> HIDE DEF i, sent, keep, seed
  <2>1. CASE failed
    <3>1. PICK code \in {12, 13} :
            toApi' = (toApi \o sent) \o Finished(code, Content(i.request_byte), d, of)
      BY <1>1, <1>3, <2>1
    <3>2. Stopped
      BY <1>1, <2>1
    <3> QED
      BY <3>1, <3>2, Zenon DEF Ending
  <2>2. CASE ~failed /\ ~keep /\ sindex = Len(items)
    BY <1>1, <1>3, <2>2 DEF Ending
  <2>3. CASE ~failed /\ ~(~keep /\ sindex = Len(items))
    <3>1. toApi' = toApi \o sent /\ Proceed(keep) /\ (keep \/ sindex # Len(items))
      BY <1>1, <2>3
    <3>2. toApi' = toApi \o sent /\ Proceed(k) /\ (k \/ sindex # Len(items))
      BY <1>2, <3>1
    <3> QED
      BY <3>2 DEF Ending
  <2> QED
    BY <2>1, <2>2, <2>3
<1>5. Handled(d, of, out, seed, x)
  <2>1. /\ items' = [items EXCEPT ![sindex].finish_try_num = x]
        /\ key_byte' = KeyAfterSeed(seed)
        /\ seeds' = IF seed THEN seeds + 1 ELSE seeds
    BY <1>1
  <2> HIDE DEF x, failed
  <2> QED
    BY <1>4, <2>1, Zenon DEF Handled
<1>6. Handled(d, of, out, s, x)
  BY <1>2, <1>5
<1> QED
  BY <1>6

\* What an answer to of rests on, as long as no response was late: dm is what is
\* left for the diag master.
Awaited(of, d, dm) ==
  of.late = 0 =>
    /\ of.request = Content(items[sindex].request_byte) /\ of.answer = d
    /\ Still(toApi, dm, ecu) /\ None(toApi, "seed") /\ None(dm, "key")
    /\ Keyed(toApi, dm, ecu, Content(key_byte), seeds)

\* A timeout and a final response: the step of udsc_service_response_finish.
LEMMA AnsweredStep ==
  ASSUME IInv, sindex > 0, NEW d \in Data, NEW of \in Abouts,
         NEW out, Quiet(out, script, general), Answered(d, of, out),
         items[sindex].sid = SA /\ d # <<>> => d[2] \in Byte,
         late' = of.late, late' \in 0..TimeoutMax, started,
         toDm' \in Seq(Messages), DmsOK(toDm'), Awaited(of, d, toDm'),
         UNCHANGED <<user, udsc, presents, ecu>>
  PROVE  IInv'
<1> USE DEF user
<1>0. PICK seed \in BOOLEAN : \E x : Handled(d, of, out, seed, x)
  BY AnsweredIs
<1>1. PICK x : Handled(d, of, out, seed, x)
  BY <1>0
<1>2. PICK i : i = items[sindex]
  OBVIOUS
<1>3. PICK more : more = IF seed THEN SeedSent(d, of) ELSE <<>>
  OBVIOUS
<1>4. PICK j : j = [i EXCEPT !.finish_try_num = x]
  OBVIOUS
<1>5. /\ IsSequence(items) /\ Len(items) = Len(script) /\ sindex \in 1..Len(items)
      /\ script \in Seq(Services) /\ WellFormed(key_byte) /\ seeds \in Nat
      /\ toApi \in Seq(Messages) /\ ApisOK(toApi, script, general)
  BY DEF IInv, Shape, Contents
<1>6. /\ seed => IsSeed(i, d)
      /\ items' = [items EXCEPT ![sindex] = j]
      /\ key_byte' = KeyAfterSeed(seed)
      /\ seeds' = IF seed THEN seeds + 1 ELSE seeds
      /\ Ending(i, d, of, out \o more)
  <2>1. items' = [items EXCEPT ![sindex].finish_try_num = x]
    BY <1>1 DEF Handled
  <2>2. [items EXCEPT ![sindex].finish_try_num = x] = [items EXCEPT ![sindex] = j]
    BY <1>2, <1>4, <1>5
  <2> QED
    BY <1>1, <1>2, <1>3, <2>1, <2>2 DEF Handled
<1>7. PICK c \in Services : c = script[sindex]
  BY <1>5
<1>8. ItemOK(i, c)
  BY <1>2, <1>5, <1>7 DEF IInv, Contents, ItemsOK
<1>9. ItemOK(j, c)
  BY <1>4, <1>8, ItemTried
<1>10. Changed(items', items, sindex, j)
  BY <1>5, <1>6, SequenceExcept
<1>11. IsSequence(items') /\ Len(items') = Len(script)
  BY <1>5, <1>10 DEF Changed
<1>12. ItemsOK(items', script)
  <2> SUFFICES ASSUME NEW k \in 1..Len(script)
               PROVE  ItemOK(items'[k], script[k])
    BY DEF ItemsOK
  <2>1. CASE k = sindex
    BY <1>7, <1>9, <1>10, <2>1 DEF Changed
  <2>2. CASE k # sindex
    BY <1>5, <1>10, <2>2 DEF Changed, IInv, Contents, ItemsOK
  <2> QED
    BY <2>1, <2>2
<1>13. WellFormed(key_byte') /\ seeds' \in Nat
  BY <1>5, <1>6, ClearWellFormed DEF KeyAfterSeed
<1>14. PICK a : a = toApi \o out
  OBVIOUS
<1>15. a \in Seq(Messages) /\ ApisOK(a, script, general)
  BY <1>5, <1>14, QuietOK
<1>16. PICK b : b = a \o more
  OBVIOUS
<1>17. ASSUME seed
       PROVE  \E m \in Messages : /\ more = <<m>> /\ Kind(m) = "seed"
                                  /\ m.of.seeds = seeds + 1 /\ ApiOK(m, script, general)
  <2>1. d[2] \in Byte
    BY <1>2, <1>6, <1>17 DEF IsSeed
  <2> QED
    BY <1>3, <1>5, <1>17, <2>1, SeedSentIs
<1>18. b \in Seq(Messages) /\ ApisOK(b, script, general) /\ more \in Seq(Messages)
  <2>1. CASE seed
    <3>1. PICK m \in Messages : more = <<m>> /\ ApiOK(m, script, general)
      BY <1>17, <2>1
    <3>2. b = Append(a, m)
      BY <1>15, <1>16, <3>1
    <3>3. more \in Seq(Messages)
      BY <3>1
    <3> QED
      BY <1>15, <3>1, <3>2, <3>3, ApisAppend
  <2>2. CASE ~seed
    <3>1. more = <<>> /\ b = a
      BY <1>3, <1>15, <1>16, <2>2
    <3> QED
      BY <1>15, <3>1
  <2> QED
    BY <2>1, <2>2
<1>19. toApi \o (out \o more) = b
  <2>1. out \in Seq(Messages)
    BY QuietType
  <2>2. toApi \in Seq(Messages) /\ more \in Seq(Messages)
    BY <1>5, <1>18
  <2>3. (toApi \o out) \o more = toApi \o (out \o more)
    BY <2>1, <2>2, ConcatAssociative, SMTT(30)
  <2> QED
    BY <1>14, <1>16, <2>3
<1>20. \E fin : Quiet(fin, script, general) /\ toApi' = b \o fin
  <2>1. Content(i.request_byte) \in Data
    BY <1>8 DEF ItemOK
  <2>2. CASE \E code \in {12, 13} :
               /\ toApi' = (toApi \o (out \o more))
                             \o Finished(code, Content(i.request_byte), d, of)
               /\ Stopped
    <3>1. PICK code \in {12, 13} :
            toApi' = b \o Finished(code, Content(i.request_byte), d, of)
      BY <1>19, <2>2
    <3>2. PICK recode \in {0, 12, 13}, ind \in Data :
            recode = code /\ ind = Content(i.request_byte)
      BY <2>1
    <3>3. of.late = 0 /\ recode # 0 => ind = of.request /\ d = of.answer
      BY <1>2, <3>2 DEF Awaited
    <3>4. Quiet(Finished(recode, ind, d, of), script, general)
      BY <3>3, FinishedIs
    <3> QED
      BY <3>1, <3>2, <3>4
  <2>3. CASE toApi' = (toApi \o (out \o more)) \o Finished(0, <<>>, <<>>, of) /\ Stopped
    <3>1. PICK recode \in {0, 12, 13}, none \in Data : recode = 0 /\ none = <<>>
      <4>1. <<>> \in Data
        BY ScriptAssumption DEF Data, Word
      <4> QED
        BY <4>1
    <3>2. Quiet(Finished(recode, none, none, of), script, general)
      BY <3>1, FinishedIs
    <3> QED
      BY <1>19, <2>3, <3>1, <3>2
  <2>4. CASE toApi' = toApi \o (out \o more)
    <3>1. toApi' = b \o <<>>
      BY <1>18, <1>19, <2>4
    <3> QED
      BY <3>1 DEF Quiet
  <2> QED
    BY <1>6, <2>2, <2>3, <2>4 DEF Ending
<1>21. PICK fin : Quiet(fin, script, general) /\ toApi' = b \o fin
  BY <1>20
<1>22. toApi' \in Seq(Messages) /\ ApisOK(toApi', script, general)
  BY <1>18, <1>21, QuietOK
<1>23. /\ sindex' \in 0..Len(items') /\ request_watcher' \in BOOLEAN
       /\ response_watcher' \in BOOLEAN /\ testerPresent_watcher' \in BOOLEAN
  <2>1. PICK n \in Nat : n = Len(items) /\ Len(items') = n
    BY <1>10 DEF Changed
  <2>2. CASE Stopped
    <3>1. /\ sindex' = 0 /\ request_watcher' = FALSE /\ response_watcher' = FALSE
          /\ testerPresent_watcher' = FALSE
      BY <2>2 DEF Stopped, ResponseStop
    <3>2. 0 \in 0..n
      OBVIOUS
    <3> QED
      BY <2>1, <3>1, <3>2
  <2>3. ASSUME NEW keep \in BOOLEAN, keep \/ sindex # Len(items), Proceed(keep)
        PROVE  /\ sindex' \in 0..Len(items') /\ request_watcher' \in BOOLEAN
               /\ response_watcher' \in BOOLEAN /\ testerPresent_watcher' \in BOOLEAN
    <3>1. /\ sindex' = IF keep THEN sindex ELSE sindex + 1
          /\ request_watcher' = TRUE /\ response_watcher' = FALSE
          /\ testerPresent_watcher' = testerPresent_watcher
      BY <2>3 DEF Proceed, RequestStart, ResponseStop
    <3>2. PICK k \in 1..n : k = sindex
      BY <1>5, <2>1
    <3>3. k \in 0..n /\ (k # n => k + 1 \in 0..n)
      OBVIOUS
    <3>4. sindex' \in 0..n
      BY <2>1, <2>3, <3>1, <3>2, <3>3
    <3>5. testerPresent_watcher \in BOOLEAN
      BY DEF IInv, Shape
    <3> QED
      BY <2>1, <3>1, <3>4, <3>5
  <2> QED
    BY <1>6, <2>2, <2>3 DEF Ending
<1>24. Shape'
  BY <1>11, <1>13, <1>22, <1>23 DEF IInv, Shape
<1>25. Contents'
  BY <1>12, <1>22 DEF IInv, Contents
<1>26. ASSUME late' = 0
       PROVE  Flow'
  <2>1. PICK dm : dm = toDm'
    OBVIOUS
  <2>2. PICK key : key = Content(key_byte)
    OBVIOUS
  <2>3. /\ Still(toApi, dm, ecu) /\ None(toApi, "seed") /\ None(dm, "key")
        /\ Keyed(toApi, dm, ecu, key, seeds)
    BY <1>26, <2>1, <2>2 DEF Awaited
  <2>4. Still(a, dm, ecu) /\ None(a, "seed") /\ Keyed(a, dm, ecu, key, seeds)
    BY <1>5, <1>14, <2>3, QuietStill, QuietKeyed
  <2>5. PICK new : new = Content(key_byte')
    OBVIOUS
  <2>6. Still(b, dm, ecu) /\ Keyed(b, dm, ecu, new, seeds')
    <3>1. CASE seed
      <4>1. PICK m \in Messages : /\ more = <<m>> /\ Kind(m) = "seed"
                                  /\ m.of.seeds = seeds + 1
        BY <1>17, <3>1
      <4>2. b = Append(a, m)
        BY <1>15, <1>16, <4>1
      <4>3. new = <<>> /\ seeds' = m.of.seeds
        BY <1>5, <1>6, <2>5, <3>1, <4>1, ClearWellFormed DEF KeyAfterSeed
      <4>4. Still(b, dm, ecu)
        BY <1>15, <2>4, <4>1, <4>2, AskedAppend
      <4>5. Keyed(b, dm, ecu, <<>>, m.of.seeds)
        BY <1>15, <2>3, <2>4, <4>1, <4>2, SeedAppended
      <4> QED
        BY <4>3, <4>4, <4>5
    <3>2. CASE ~seed
      <4>1. more = <<>> /\ b = a
        BY <1>3, <1>15, <1>16, <3>2
      <4>2. new = key /\ seeds' = seeds
        BY <1>6, <2>2, <2>5, <3>2 DEF KeyAfterSeed
      <4> QED
        BY <2>4, <4>1, <4>2
    <3> QED
      BY <3>1, <3>2
  <2>7. Still(b \o fin, dm, ecu)
    BY <1>18, <1>21, <2>6, QuietStill
  <2>8. Keyed(b \o fin, dm, ecu, new, seeds')
    <3>1. PICK n : n = seeds'
      OBVIOUS
    <3>2. Keyed(b, dm, ecu, new, n)
      BY <2>6, <3>1
    <3>3. Keyed(b \o fin, dm, ecu, new, n)
      BY <1>18, <1>21, <3>2, QuietKeyed
    <3> QED
      BY <3>1, <3>3
  <2>9. Still(toApi', toDm', ecu')
    BY <1>21, <2>1, <2>7
  <2>10. Keyed(toApi', toDm', ecu', Content(key_byte'), seeds')
    BY <1>21, <2>1, <2>5, <2>8
  <2>11. Asked(toApi', toDm', ecu', sindex', Request(items', sindex'))
    BY <2>9, StillAsked
  <2> QED
    BY <2>9, <2>10, <2>11 DEF Flow
<1> QED
  BY <1>24, <1>25, <1>26 DEF IInv

\* No response came in time.
LEMMA ResponseTimeoutStep ==
  ASSUME IInv, ResponseTimeout
  PROVE  IInv'
<1>1. PICK of : of = [About(sindex, TRUE) EXCEPT !.late = late + 1]
  OBVIOUS
<1>2. PICK d : d = <<>>
  OBVIOUS
<1>3. PICK out : out = <<>>
  OBVIOUS
<1>4. /\ response_watcher /\ sindex > 0 /\ late < TimeoutMax /\ late' = late + 1
      /\ Answered(d, of, out) /\ UNCHANGED <<user, udsc, presents, toDm, ecu>>
  BY <1>1, <1>2, <1>3 DEF ResponseTimeout
<1>5. /\ late \in 0..TimeoutMax /\ sindex \in 0..Len(items) /\ seeds \in Nat
      /\ toDm \in Seq(Messages) /\ DmsOK(toDm)
  BY DEF IInv, Shape, Contents
<1>6. TimeoutMax \in Nat /\ DataMax \in Nat
  BY ScriptAssumption DEF Word
<1>7. late' \in 0..TimeoutMax /\ late' # 0
  BY <1>4, <1>5, <1>6
<1>8. d \in Data
  BY <1>2, <1>6 DEF Data
<1>9. of \in Abouts /\ of.late = late'
  <2>1. sindex \in Nat /\ late \in Nat /\ late + 1 \in Nat
    BY <1>4, <1>5, <1>6
  <2>2. PICK first \in BOOLEAN : first = TRUE
    OBVIOUS
  <2>3. of = [item |-> sindex, first |-> first, seeds |-> seeds, late |-> late + 1,
              request |-> <<>>, answer |-> <<>>]
    BY <1>1, <2>2 DEF About
  <2>4. <<>> \in Seq(Byte)
    OBVIOUS
  <2> QED
    BY <1>4, <1>5, <2>1, <2>3, <2>4 DEF Abouts
<1>10. Quiet(out, script, general)
  BY <1>3 DEF Quiet
<1>11. Awaited(of, d, toDm')
  BY <1>7, <1>9 DEF Awaited
<1>12. started
  BY <1>4, StartedIs
<1>13. toDm' \in Seq(Messages) /\ DmsOK(toDm')
  BY <1>4, <1>5
<1>14. UNCHANGED <<user, udsc, presents, ecu>>
  BY <1>4
<1>15. items[sindex].sid = SA /\ d # <<>> => d[2] \in Byte
  BY <1>2
<1>16. late' = of.late
  BY <1>9
<1> QED
  BY <1>4, <1>7, <1>8, <1>9, <1>10, <1>11, <1>12, <1>13, <1>14, <1>15, <1>16, AnsweredStep

\* A response is handed to the user at most.
LEMMA ForwardedStep ==
  ASSUME IInv, toDm # <<>>, toDm' = Tail(toDm), Kind(Head(toDm)) \in {"pending", "final"},
         NEW out, Quiet(out, script, general), toApi' = toApi \o out,
         response_watcher' \in BOOLEAN,
         UNCHANGED <<user, udsc, late, presents, ecu, items, sindex, request_watcher,
                     testerPresent_watcher, key_byte, seeds>>
  PROVE  IInv'
<1> USE DEF user
<1>1. /\ toApi \in Seq(Messages) /\ ApisOK(toApi, script, general)
      /\ toDm \in Seq(Messages) /\ DmsOK(toDm)
  BY DEF IInv, Shape, Contents
<1>2. toApi' \in Seq(Messages) /\ ApisOK(toApi', script, general)
  BY <1>1, QuietOK
<1>3. toDm' \in Seq(Messages) /\ DmsOK(toDm')
  BY <1>1, DmsTail
<1>4. Shape'
  BY <1>2, <1>3 DEF IInv, Shape
<1>5. Contents'
  BY <1>2, <1>3 DEF IInv, Contents
<1>6. ASSUME late = 0
      PROVE  Flow'
  <2>1. Flow
    BY <1>6 DEF IInv
  <2>2. PICK request : request = Request(items, sindex)
    OBVIOUS
  <2>3. PICK key : key = Content(key_byte)
    OBVIOUS
  <2>4. Asked(toApi, toDm, ecu, sindex, request) /\ Keyed(toApi, toDm, ecu, key, seeds)
    BY <2>1, <2>2, <2>3 DEF Flow
  <2>5. /\ ~Still(toApi, toDm, ecu)
        /\ Asked(toApi, Tail(toDm), ecu, sindex, request)
        /\ Keyed(toApi, Tail(toDm), ecu, key, seeds)
    BY <1>1, <2>4, ResponseTaken
  <2>6. Asked(toApi', toDm', ecu, sindex, request)
    BY <1>1, <2>5, QuietAsked
  <2>7. Keyed(toApi', toDm', ecu, key, seeds)
    BY <1>1, <2>5, QuietKeyed
  <2>8. ~request_watcher /\ sindex # 0
    BY <2>1, <2>5 DEF Flow
  <2> QED
    BY <2>2, <2>3, <2>6, <2>7, <2>8 DEF Flow
<1>7. started'
  BY StartedIs
<1> QED
  BY <1>4, <1>5, <1>6, <1>7 DEF IInv

\* The diag master reads a response.
LEMMA ResponseReadStep ==
  ASSUME IInv, ResponseRead
  PROVE  IInv'
<1>1. PICK m : m = Head(toDm)
  OBVIOUS
<1>2. PICK d : d = ServiceFields(m.bytes).data
  OBVIOUS
<1>3. PICK of : of = [m.of EXCEPT !.late = late]
  OBVIOUS
<1>4. PICK out : out = ResultSent(d, of)
  OBVIOUS
<1>5. PICK i : i = items[sindex]
  OBVIOUS
<1>6. /\ toDm # <<>> /\ Command(m.bytes) = ServiceResponse /\ toDm' = Tail(toDm)
      /\ \/ /\ sindex > 0 /\ IsOwnResponse(i, d) /\ ~IsPending(d)
            /\ Answered(d, of, out)
         \/ /\ sindex > 0 /\ toApi' = toApi \o out
            /\ response_watcher' \in {TRUE, response_watcher}
            /\ UNCHANGED <<items, sindex, request_watcher,
                           testerPresent_watcher, key_byte, seeds>>
         \/ /\ sindex = 0
            /\ UNCHANGED <<items, sindex, timers, key_byte, seeds, toApi>>
      /\ UNCHANGED <<user, udsc, late, presents, ecu>>
  BY <1>1, <1>2, <1>3, <1>4, <1>5 DEF ResponseRead, ResponseRefresh, timers
<1>7. /\ toDm \in Seq(Messages) /\ DmsOK(toDm) /\ toApi \in Seq(Messages)
      /\ sindex \in 0..Len(items) /\ late \in 0..TimeoutMax /\ late \in Nat
      /\ response_watcher \in BOOLEAN
  BY DEF IInv, Shape, Contents
<1>8. m \in Messages /\ DmOK(m) /\ toDm' \in Seq(Messages) /\ DmsOK(toDm')
  BY <1>1, <1>6, <1>7, DmsTail
<1>9. Kind(m) = IF IsPending(d) THEN "pending" ELSE "final"
  BY <1>2, <1>6, KindOf
<1>10. d = m.of.answer /\ IsAnswer(d)
  BY <1>2, <1>8, <1>9 DEF DmOK
<1>11. d \in Data /\ d \in Seq(Byte)
  BY <1>10 DEF IsAnswer, Data
<1>12. /\ of \in Abouts /\ of.late = late /\ of.item = m.of.item
       /\ of.request = m.of.request /\ of.answer = d
  <2>1. m.of \in Abouts
    BY <1>8 DEF Messages
  <2> QED
    BY <1>3, <1>7, <1>10, <2>1 DEF Abouts
<1>13. Kind(Head(toDm)) \in {"pending", "final"}
  BY <1>1, <1>9
<1>14. ASSUME late = 0
       PROVE  /\ of.item = sindex /\ of.request = Request(items, sindex)
              /\ None(toApi, "seed") /\ None(toDm', "key")
              /\ Keyed(toApi, toDm', ecu, Content(key_byte), seeds)
              /\ Kind(m) = "final" => Still(toApi, toDm', ecu)
  <2>1. Flow
    BY <1>14 DEF IInv
  <2>2. PICK request : request = Request(items, sindex)
    OBVIOUS
  <2>3. PICK key : key = Content(key_byte)
    OBVIOUS
  <2>4. Asked(toApi, toDm, ecu, sindex, request) /\ Keyed(toApi, toDm, ecu, key, seeds)
    BY <2>1, <2>2, <2>3 DEF Flow
  <2>5. /\ Head(toDm).of.item = sindex /\ Head(toDm).of.request = request
        /\ None(toApi, "seed") /\ None(toDm, "key")
        /\ Keyed(toApi, Tail(toDm), ecu, key, seeds)
        /\ Kind(Head(toDm)) = "final" => Still(toApi, Tail(toDm), ecu)
    BY <1>6, <1>7, <1>13, <2>4, ResponseTaken
  <2>6. None(toDm', "key")
    BY <1>6, <1>7, <2>5, NoneTail
  <2> QED
    BY <1>1, <1>6, <1>12, <2>2, <2>3, <2>5, <2>6
<1>15. sindex > 0 => Quiet(out, script, general)
  <2>1. of.late = 0 => of.item = sindex /\ of.answer = d
    BY <1>12, <1>14
  <2> QED
    BY <1>4, <1>11, <1>12, <2>1, ResultSentIs
<1>16. CASE sindex > 0 /\ IsOwnResponse(i, d) /\ ~IsPending(d) /\ Answered(d, of, out)
  <2>1. Awaited(of, d, toDm')
    <3>1. Kind(m) = "final"
      BY <1>9, <1>16
    <3>2. Request(items, sindex) = Content(items[sindex].request_byte)
      BY <1>16 DEF Request
    <3> QED
      BY <1>12, <1>14, <3>1, <3>2 DEF Awaited
  <2>2. items[sindex].sid = SA /\ d # <<>> => d[2] \in Byte
    <3> SUFFICES ASSUME i.sid = SA
                 PROVE  d[2] \in Byte
      BY <1>5
    <3>1. d[1] \in {127, SA + 64}
      BY <1>16 DEF IsOwnResponse
    <3>2. Len(d) >= 2
      BY <1>10, <3>1 DEF IsAnswer
    <3> QED
      BY <1>11, <3>2
  <2>3. started
    BY <1>6, StartedIs
  <2>4. late' = of.late /\ late' \in 0..TimeoutMax
    BY <1>6, <1>7, <1>12
  <2>5. UNCHANGED <<user, udsc, presents, ecu>>
    BY <1>6
  <2>6. Quiet(out, script, general) /\ sindex > 0 /\ Answered(d, of, out)
    BY <1>15, <1>16
  <2> QED
    BY <1>8, <1>11, <1>12, <2>1, <2>2, <2>3, <2>4, <2>5, <2>6, AnsweredStep
<1>17. CASE /\ sindex > 0 /\ toApi' = toApi \o out
            /\ response_watcher' \in {TRUE, response_watcher}
            /\ UNCHANGED <<items, sindex, request_watcher,
                           testerPresent_watcher, key_byte, seeds>>
  <2>1. response_watcher' \in BOOLEAN
    BY <1>7, <1>17
  <2>2. UNCHANGED <<user, udsc, late, presents, ecu, items, sindex, request_watcher,
                    testerPresent_watcher, key_byte, seeds>>
    BY <1>6, <1>17
  <2>3. Quiet(out, script, general) /\ toApi' = toApi \o out
    BY <1>15, <1>17
  <2> QED
    BY <1>6, <1>13, <2>1, <2>2, <2>3, ForwardedStep
<1>18. CASE sindex = 0 /\ UNCHANGED <<items, sindex, timers, key_byte, seeds, toApi>>
  <2>1. PICK none : none = <<>> /\ Quiet(none, script, general)
    BY DEF Quiet
  <2>2. toApi' = toApi \o none
    BY <1>7, <1>18, <2>1
  <2>3. response_watcher' \in BOOLEAN
    BY <1>7, <1>18 DEF timers
  <2>4. UNCHANGED <<user, udsc, late, presents, ecu, items, sindex, request_watcher,
                    testerPresent_watcher, key_byte, seeds>>
    BY <1>6, <1>18 DEF timers
  <2> QED
    BY <1>6, <1>13, <2>1, <2>2, <2>3, <2>4, ForwardedStep
<1> QED
  BY <1>6, <1>16, <1>17, <1>18

\* Every step keeps the invariant.
LEMMA NextIInv == IInv /\ [Next]_vars => IInv'
<1> SUFFICES ASSUME IInv, [Next]_vars
             PROVE  IInv'
  OBVIOUS
<1>1. CASE ResultCallbackSet
  BY <1>1, ResultCallbackSetStep
<1>2. CASE \E c \in Services : ServiceConfigured(c)
  BY <1>2, ServiceConfiguredStep
<1>3. CASE \E g \in Generals : GeneralConfigured(g)
  BY <1>3, GeneralConfiguredStep
<1>4. CASE Start
  BY <1>4, StartStep
<1>5. CASE RequestHandler
  BY <1>5, RequestHandlerStep
<1>6. CASE TesterPresent
  BY <1>6, TesterPresentStep
<1>7. CASE ResponseTimeout
  BY <1>7, ResponseTimeoutStep
<1>8. CASE ResponseRead
  BY <1>8, ResponseReadStep
<1>9. CASE KeyRead
  BY <1>9, KeyReadStep
<1>10. CASE RequestRead
  BY <1>10, RequestReadStep
<1>11. CASE ResultRead
  BY <1>11, ResultReadStep
<1>12. CASE SeedRead
  BY <1>12, SeedReadStep
<1>13. CASE FinishRead
  BY <1>13, FinishReadStep
<1>14. CASE \E k \in 1..Len(ecu) : \E d \in Answers(ecu[k].request) : ServiceResponded(k, d)
  BY <1>14, ServiceRespondedStep
<1>15. CASE UNCHANGED vars
  BY <1>15 DEF vars, user, config, timers, history, IInv, Shape, Contents, NotStarted, Flow
<1> QED
  BY <1>1, <1>2, <1>3, <1>4, <1>5, <1>6, <1>7, <1>8, <1>9, <1>10, <1>11, <1>12, <1>13,
     <1>14, <1>15 DEF Next

-----------------------------------------------------------------------------
(***************************************************************************)
(* Answers the user has not been given yet                                 *)
(***************************************************************************)

\* It is in a datagram to the diag master.
AtDm(item, d, dm) ==
  \E k \in 1..Len(dm) : /\ Command(dm[k].bytes) = ServiceResponse
                        /\ dm[k].of.item = item /\ ServiceFields(dm[k].bytes).data = d

\* It is in one to the API, for the callback cb.
AtApi(cb, d, api) ==
  \E k \in 1..Len(api) :
    /\ Command(api[k].bytes) = ServiceRequestResult
    /\ ResultFields(api[k].bytes) = [rr_callid |-> cb, data |-> d]

\* An answer that is owed is one to its service, for a callback that was set.
OwedOK(a) ==
  /\ a.item \in 1..Len(script)
  /\ script[a.item].rr_callid \in 1..Len(rr_handler)
  /\ IsOwnResponse(script[a.item], a.data)

Coming(a) ==
  AtDm(a.item, a.data, toDm) \/ AtApi(script[a.item].rr_callid, a.data, toApi)

OwedInv ==
  /\ ~started => owed = {}
  /\ \A k \in 1..Len(script) : script[k].rr_callid <= Len(rr_handler)
  /\ \A a \in owed : OwedOK(a)
  /\ late = 0 => \A a \in owed : script[a.item].rr_callid < RrMax => Coming(a)

\* A datagram stays on its way when another is sent behind it.
LEMMA ApiMore ==
  ASSUME NEW S, NEW s \in Seq(S), NEW t \in Seq(S), NEW cb, NEW d
  PROVE  AtApi(cb, d, s) \/ AtApi(cb, d, t) => AtApi(cb, d, s \o t)
<1>1. /\ Len(s \o t) = Len(s) + Len(t) /\ Len(s) \in Nat /\ Len(t) \in Nat
      /\ \A k \in 1..Len(s) : (s \o t)[k] = s[k]
      /\ \A k \in 1..Len(t) : (s \o t)[Len(s) + k] = t[k]
  OBVIOUS
<1>2. ASSUME NEW k \in 1..Len(s)
      PROVE  k \in 1..Len(s \o t)
  BY <1>1
<1>3. ASSUME NEW k \in 1..Len(t)
      PROVE  Len(s) + k \in 1..Len(s \o t)
  BY <1>1
<1>4. PICK r : r = s \o t
  OBVIOUS
<1>5. AtApi(cb, d, s) => AtApi(cb, d, r)
  BY <1>1, <1>2, <1>4 DEF AtApi
<1>6. AtApi(cb, d, t) => AtApi(cb, d, r)
  BY <1>1, <1>3, <1>4 DEF AtApi
<1> QED
  BY <1>4, <1>5, <1>6

\* So it is when one is appended to either queue.
LEMMA WayAppend ==
  ASSUME NEW q \in Seq(Messages), NEW m, NEW x, NEW d
  PROVE  /\ AtApi(x, d, q) => AtApi(x, d, Append(q, m))
         /\ AtDm(x, d, q) => AtDm(x, d, Append(q, m))
         /\ /\ Command(m.bytes) = ServiceResponse /\ m.of.item = x
            /\ ServiceFields(m.bytes).data = d
            => AtDm(x, d, Append(q, m))
<1>1. PICK r : r = Append(q, m)
  OBVIOUS
<1>2. /\ Len(r) = Len(q) + 1 /\ Len(q) \in Nat /\ r[Len(q) + 1] = m
      /\ \A k \in 1..Len(q) : r[k] = q[k]
  <2>1. PICK S : q \in Seq(S) /\ m \in S
    <3>1. q \in Seq(Messages \cup {m}) /\ m \in Messages \cup {m}
      OBVIOUS
    <3> QED
      BY <3>1
  <2> QED
    BY <1>1, <2>1, AppendIs
<1>3. Len(q) + 1 \in 1..Len(r) /\ \A k \in 1..Len(q) : k \in 1..Len(r)
  BY <1>2
<1>4. AtApi(x, d, q) => AtApi(x, d, r)
  BY <1>2, <1>3 DEF AtApi
<1>5. AtDm(x, d, q) => AtDm(x, d, r)
  BY <1>2, <1>3 DEF AtDm
<1>6. /\ Command(m.bytes) = ServiceResponse /\ m.of.item = x
      /\ ServiceFields(m.bytes).data = d
      => AtDm(x, d, r)
  BY <1>2, <1>3 DEF AtDm
<1> QED
  BY <1>1, <1>4, <1>5, <1>6

\* When the first one is taken, the others stay.
LEMMA WayTail ==
  ASSUME NEW q \in Seq(Messages), q # <<>>, NEW x, NEW d
  PROVE  /\ AtApi(x, d, q) =>
              \/ AtApi(x, d, Tail(q))
              \/ /\ Command(Head(q).bytes) = ServiceRequestResult
                 /\ ResultFields(Head(q).bytes) = [rr_callid |-> x, data |-> d]
         /\ AtDm(x, d, q) =>
              \/ AtDm(x, d, Tail(q))
              \/ /\ Command(Head(q).bytes) = ServiceResponse
                 /\ Head(q).of.item = x /\ ServiceFields(Head(q).bytes).data = d
<1>1. PICK r, m : r = Tail(q) /\ m = Head(q)
  OBVIOUS
<1>2. \A k \in 1..Len(q) : q[k] = m \/ \E j \in 1..Len(r) : r[j] = q[k]
  <2> SUFFICES ASSUME NEW k \in 1..Len(q), q[k] # m
               PROVE  \E j \in 1..Len(r) : r[j] = q[k]
    OBVIOUS
  <2>1. q[1] = m /\ Len(r) = Len(q) - 1 /\ \A j \in 1..Len(r) : r[j] = q[j + 1]
    BY <1>1, TailIs
  <2>2. k # 1 /\ Len(q) \in Nat
    BY <2>1
  <2>3. k - 1 \in 1..Len(r) /\ (k - 1) + 1 = k
    BY <2>1, <2>2
  <2> QED
    BY <2>1, <2>3
<1>3. AtApi(x, d, q) =>
        \/ AtApi(x, d, r)
        \/ /\ Command(m.bytes) = ServiceRequestResult
           /\ ResultFields(m.bytes) = [rr_callid |-> x, data |-> d]
  BY <1>2 DEF AtApi
<1>4. AtDm(x, d, q) =>
        \/ AtDm(x, d, r)
        \/ /\ Command(m.bytes) = ServiceResponse
           /\ m.of.item = x /\ ServiceFields(m.bytes).data = d
  BY <1>2 DEF AtDm
<1> QED
  BY <1>1, <1>3, <1>4

\* A step that leaves what is owed and every answer on its way keeps the invariant.
LEMMA OwedKept ==
  ASSUME OwedInv, UNCHANGED <<script, rr_handler, owed>>, started => started',
         late' = 0 => late = 0,
         late' = 0 => \A a \in owed : Coming(a) => Coming(a)'
  PROVE  OwedInv'
<1>1. \A a \in owed : OwedOK(a)'
  BY DEF OwedInv, OwedOK
<1> QED
  BY <1>1 DEF OwedInv

\* The API reads anything but a result.
LEMMA OwedApiRead ==
  ASSUME IInv, OwedInv, NEW command, ApiReads(command), command # ServiceRequestResult,
         UNCHANGED owed, UNCHANGED toDm \/ \E m : toDm' = Append(toDm, m)
  PROVE  OwedInv'
<1>1. toApi \in Seq(Messages) /\ toDm \in Seq(Messages)
  BY DEF IInv, Shape
<1>2. /\ toApi # <<>> /\ Command(Head(toApi).bytes) # ServiceRequestResult
      /\ toApi' = Tail(toApi) /\ UNCHANGED <<script, rr_handler, started, late>>
  BY DEF ApiReads
<1>3. \A cb, d : AtApi(cb, d, toApi) => AtApi(cb, d, toApi')
  BY <1>1, <1>2, WayTail
<1>4. \A item, d : AtDm(item, d, toDm) => AtDm(item, d, toDm')
  BY <1>1, WayAppend
<1>5. \A a \in owed : Coming(a) => Coming(a)'
  BY <1>2, <1>3, <1>4 DEF Coming
<1> QED
  BY <1>2, <1>5, OwedKept

\* The API hands a result to the callback it is for.
LEMMA OwedResultRead ==
  ASSUME IInv, OwedInv, ResultRead
  PROVE  OwedInv'
<1>1. PICK m : m = Head(toApi)
  OBVIOUS
<1>2. PICK f : f = ResultFields(m.bytes)
  OBVIOUS
<1>3. /\ toApi # <<>> /\ toApi' = Tail(toApi)
      /\ UNCHANGED <<script, rr_handler, started, late, toDm>>
      /\ \/ /\ ResultHandler(f.rr_callid) = {} /\ UNCHANGED owed
         \/ \E cb \in ResultHandler(f.rr_callid) : owed' = owed \ GivenTo(cb, f.data)
  BY <1>1, <1>2 DEF ResultRead, ApiReads
<1>4. toApi \in Seq(Messages) /\ \A k \in 1..Len(rr_handler) : rr_handler[k] = k
  BY DEF IInv, Shape
<1>5. owed' \subseteq owed
  BY <1>3 DEF GivenTo
<1>6. \A a \in owed' : OwedOK(a)'
  BY <1>3, <1>5 DEF OwedInv, OwedOK
<1>7. ASSUME late = 0, NEW a \in owed', script[a.item].rr_callid < RrMax
      PROVE  Coming(a)'
  <2>1. PICK cb : cb = script[a.item].rr_callid
    OBVIOUS
  <2>2. cb \in 1..Len(rr_handler) /\ cb < RrMax
    BY <1>5, <1>7, <2>1 DEF OwedInv, OwedOK
  <2>3. Coming(a)
    BY <1>5, <1>7 DEF OwedInv
  <2>4. f # [rr_callid |-> cb, data |-> a.data]
    <3> SUFFICES ASSUME f = [rr_callid |-> cb, data |-> a.data]
                 PROVE  FALSE
      OBVIOUS
    <3>1. f.rr_callid = cb /\ f.data = a.data
      OBVIOUS
    <3>2. ResultHandler(f.rr_callid) = {cb}
      BY <1>4, <2>2, <3>1 DEF ResultHandler
    <3>3. owed' = owed \ GivenTo(cb, a.data)
      BY <1>3, <3>1, <3>2
    <3>4. a \in GivenTo(cb, a.data)
      BY <1>5, <2>1 DEF GivenTo
    <3> QED
      BY <3>3, <3>4
  <2>5. AtApi(cb, a.data, toApi) => AtApi(cb, a.data, toApi')
    BY <1>1, <1>2, <1>3, <1>4, <2>4, WayTail
  <2> QED
    BY <1>3, <2>1, <2>3, <2>5 DEF Coming
<1> QED
  BY <1>3, <1>5, <1>6, <1>7 DEF OwedInv

\* An ECU answers, and the user is owed the answer.
LEMMA OwedServiceResponded ==
  ASSUME IInv, OwedInv, NEW k \in 1..Len(ecu), NEW d, ServiceResponded(k, d)
  PROVE  OwedInv'
<1>1. PICK e : e = ecu[k]
  OBVIOUS
<1>2. PICK c : c = script[e.item]
  OBVIOUS
<1>3. PICK of : of = [e EXCEPT !.answer = d]
  OBVIOUS
<1>4. PICK m : m = Message(ServiceMessage(ServiceResponse, d, c.ta, c.sa, 1), of)
  OBVIOUS
<1>5. /\ toDm' = Append(toDm, m) /\ IsAnswer(d) /\ owed' = owed \cup Owing(e.item, d)
      /\ UNCHANGED <<script, rr_handler, started, late, toApi>>
  BY <1>1, <1>2, <1>3, <1>4 DEF ServiceResponded, user
<1>6. ecu \in Seq(Abouts) /\ EcusOK(ecu, script) /\ script \in Seq(Services)
      /\ toDm \in Seq(Messages) /\ Len(items) = Len(script)
  BY DEF IInv, Shape, Contents
<1>7. e \in Abouts /\ e.item \in 1..Len(script)
  BY <1>1, <1>6 DEF EcusOK, EcuOK
<1>8. c \in Services /\ c.rr_callid \in Nat
  <2>1. c \in Services
    BY <1>2, <1>6, <1>7
  <2> QED
    BY <2>1, ServiceOK DEF DWord
<1>9. d \in Seq(Byte) /\ d \in Data
  BY <1>5 DEF IsAnswer, Data
<1>10. of \in Abouts /\ of.item = e.item
  BY <1>3, <1>7, <1>9 DEF Abouts
<1>11. /\ m \in Messages /\ Command(m.bytes) = ServiceResponse /\ m.of = of
       /\ ServiceFields(m.bytes).data = d
  <2>1. PICK cmd \in {ServiceIndication, ServiceResponse} : cmd = ServiceResponse
    OBVIOUS
  <2>2. PICK sa \in DWord, ta \in DWord, z \in Nat : sa = c.ta /\ ta = c.sa /\ z = 1
    BY <1>8, ServiceOK
  <2>3. m = Message(ServiceMessage(cmd, d, sa, ta, z), of)
    BY <1>4, <2>1, <2>2
  <2>4. Fits(Len(d), 4)
    BY <1>9, DataFits
  <2>5. m \in Messages /\ m.of = of /\ Command(m.bytes) = cmd /\ ServiceFields(m.bytes).data = d
    BY <1>9, <1>10, <2>3, <2>4, ServiceKind
  <2> QED
    BY <2>1, <2>5
<1>12. \A item, x : AtDm(item, x, toDm) => AtDm(item, x, toDm')
  BY <1>5, <1>6, <1>11, WayAppend
<1>13. AtDm(e.item, d, toDm')
  BY <1>5, <1>6, <1>10, <1>11, WayAppend
<1>14. started
  BY <1>6, StartedIs
<1>15. items[e.item].sid = c.sid
  BY <1>2, <1>7 DEF IInv, Contents, ItemsOK, ItemOK, Configured, Plain
<1>16. ASSUME NEW a \in owed', a \notin owed
       PROVE  /\ a.item = e.item /\ a.data = d /\ c.rr_callid > 0
              /\ IsOwnResponse(items[e.item], d)
  <2>1. script[e.item].rr_callid > 0 /\ IsOwnResponse(items[e.item], d)
        /\ a = [item |-> e.item, data |-> d]
    BY <1>5, <1>16 DEF Owing
  <2> QED
    BY <1>2, <2>1
<1>17. \A a \in owed' : OwedOK(a)'
  <2> SUFFICES ASSUME NEW a \in owed'
               PROVE  OwedOK(a)
    BY <1>5 DEF OwedOK
  <2>1. CASE a \in owed
    BY <2>1 DEF OwedInv
  <2>2. CASE a \notin owed
    <3>1. a.item = e.item /\ a.data = d /\ c.rr_callid > 0 /\ IsOwnResponse(items[e.item], d)
      BY <1>16, <2>2
    <3>2. c.rr_callid <= Len(rr_handler)
      BY <1>2, <1>7 DEF OwedInv
    <3>3. Len(rr_handler) \in Nat
      BY DEF IInv, Shape
    <3>4. IsOwnResponse(c, d)
      BY <1>15, <3>1 DEF IsOwnResponse
    <3> QED
      BY <1>2, <1>7, <1>8, <3>1, <3>2, <3>3, <3>4 DEF OwedOK
  <2> QED
    BY <2>1, <2>2
<1>18. ASSUME late = 0, NEW a \in owed', script[a.item].rr_callid < RrMax
       PROVE  Coming(a)'
  <2>1. CASE a \in owed
    BY <1>5, <1>12, <1>18, <2>1 DEF OwedInv, Coming
  <2>2. CASE a \notin owed
    BY <1>13, <1>16, <2>2 DEF Coming
  <2> QED
    BY <2>1, <2>2
<1> QED
  BY <1>5, <1>14, <1>17, <1>18 DEF OwedInv

\* The result of an answer to the service of the item at work, for its callback.
LEMMA ResultIsSent ==
  ASSUME IInv, sindex > 0, NEW d \in Data, NEW of \in Abouts,
         IsOwnResponse(items[sindex], d), script[sindex].rr_callid > 0
  PROVE  AtApi(script[sindex].rr_callid, d, ResultSent(d, of))
<1>1. sindex \in 1..Len(script) /\ script \in Seq(Services)
  BY DEF IInv, Shape
<1>2. PICK c \in Services : c = script[sindex]
  BY <1>1
<1>3. PICK i : i = items[sindex]
  OBVIOUS
<1>4. i.rr_callid = c.rr_callid /\ i.sid = c.sid
  BY <1>1, <1>2, <1>3 DEF IInv, Contents, ItemsOK, ItemOK, Configured, Plain
<1>5. PICK id \in DWord : id = c.rr_callid
  BY ServiceOK
<1>6. PICK m : m = Message(ResultMessage(id, d), of)
  OBVIOUS
<1>7. m.bytes = ResultMessage(id, d)
  BY <1>6 DEF Message
<1>8. PICK r : r = ResultMessage(id, d)
  OBVIOUS
<1>9. /\ Command(r) = ServiceRequestResult
      /\ ResultFields(r).rr_callid = id /\ ResultFields(r).data = d
  BY <1>8, ResultMessageIs
<1>10. ResultFields(r) = [rr_callid |-> id, data |-> d]
  BY <1>9 DEF ResultFields
<1>11. d[1] = i.sid + 64 \/ d[2] = i.sid
  BY <1>3 DEF IsOwnResponse
<1>12. ResultSent(d, of) = <<m>>
  BY <1>2, <1>3, <1>4, <1>5, <1>6, <1>11 DEF ResultSent
<1>13. PICK q : q = <<m>>
  OBVIOUS
<1>14. 1 \in 1..Len(q) /\ q[1] = m
  BY <1>13
<1>15. AtApi(id, d, q)
  BY <1>7, <1>8, <1>9, <1>10, <1>14 DEF AtApi
<1> QED
  BY <1>2, <1>5, <1>12, <1>13, <1>15

\* Nothing is taken back when an answer is handled, and what is sent first is sent.
LEMMA AnsweredSends ==
  ASSUME toApi \in Seq(Messages), NEW out \in Seq(Messages), NEW d, NEW of,
         Answered(d, of, out), NEW cb, NEW e
  PROVE  AtApi(cb, e, toApi) \/ AtApi(cb, e, out) => AtApi(cb, e, toApi')
<1>0. PICK seed \in BOOLEAN : \E x : Handled(d, of, out, seed, x)
  BY AnsweredIs
<1>1. PICK x : Handled(d, of, out, seed, x)
  BY <1>0
<1>2. PICK more : more = IF seed THEN SeedSent(d, of) ELSE <<>>
  OBVIOUS
<1>3. Ending(items[sindex], d, of, out \o more)
  BY <1>1, <1>2 DEF Handled
<1>4. \E fin : /\ fin = <<>> \/ \E y : fin = <<y>>
               /\ \/ toApi' = (toApi \o (out \o more)) \o fin
                  \/ toApi' = toApi \o (out \o more) /\ fin = <<>>
  BY <1>3 DEF Ending, Finished
<1>5. PICK fin : /\ fin = <<>> \/ \E y : fin = <<y>>
                 /\ \/ toApi' = (toApi \o (out \o more)) \o fin
                    \/ toApi' = toApi \o (out \o more) /\ fin = <<>>
  BY <1>4
<1>6. more = <<>> \/ \E y : more = <<y>>
  BY <1>2 DEF SeedSent
<1>7. PICK S : /\ toApi \in Seq(S) /\ out \in Seq(S) /\ more \in Seq(S) /\ fin \in Seq(S)
  <2>1. PICK T1 : more \in Seq(T1)
    <3>1. \A y : <<y>> \in Seq({y})
      OBVIOUS
    <3>2. <<>> \in Seq({})
      OBVIOUS
    <3> QED
      BY <1>6, <3>1, <3>2
  <2>2. PICK T2 : fin \in Seq(T2)
    <3>1. \A y : <<y>> \in Seq({y})
      OBVIOUS
    <3>2. <<>> \in Seq({})
      OBVIOUS
    <3> QED
      BY <1>5, <3>1, <3>2
  <2>3. PICK U : U = (Messages \cup T1) \cup T2
    OBVIOUS
  <2>4. \A T : \A s \in Seq(T) : T \subseteq U => s \in Seq(U)
    OBVIOUS
  <2>5. Messages \subseteq U /\ T1 \subseteq U /\ T2 \subseteq U
    BY <2>3
  <2> QED
    BY <2>1, <2>2, <2>4, <2>5
<1>8. PICK sent \in Seq(S) : sent = out \o more
  <2>1. out \o more \in Seq(S)
    BY <1>7
  <2> QED
    BY <2>1
<1>9. PICK all \in Seq(S) : all = toApi \o sent
  <2>1. toApi \o sent \in Seq(S)
    BY <1>7
  <2> QED
    BY <2>1
<1>10. AtApi(cb, e, out) => AtApi(cb, e, sent)
  BY <1>7, <1>8, ApiMore
<1>11. AtApi(cb, e, toApi) \/ AtApi(cb, e, sent) => AtApi(cb, e, all)
  BY <1>7, <1>8, <1>9, ApiMore
<1>12. AtApi(cb, e, all) => AtApi(cb, e, all \o fin)
  BY <1>7, <1>9, ApiMore
<1>13. toApi' = all \o fin \/ toApi' = all
  BY <1>5, <1>8, <1>9
<1> QED
  BY <1>10, <1>11, <1>12, <1>13

\* The diag master passes an answer on.
LEMMA OwedResponseRead ==
  ASSUME IInv, OwedInv, ResponseRead
  PROVE  OwedInv'
<1>1. PICK m : m = Head(toDm)
  OBVIOUS
<1>2. PICK d : d = ServiceFields(m.bytes).data
  OBVIOUS
<1>3. PICK of : of = [m.of EXCEPT !.late = late]
  OBVIOUS
<1>4. PICK out : out = ResultSent(d, of)
  OBVIOUS
<1>5. /\ toDm # <<>> /\ Command(m.bytes) = ServiceResponse /\ toDm' = Tail(toDm)
      /\ \/ sindex > 0 /\ (Answered(d, of, out) \/ toApi' = toApi \o out)
         \/ sindex = 0 /\ toApi' = toApi
      /\ UNCHANGED <<script, rr_handler, started, late, owed>>
  BY <1>1, <1>2, <1>3, <1>4 DEF ResponseRead, user
<1>6. /\ toDm \in Seq(Messages) /\ DmsOK(toDm) /\ toApi \in Seq(Messages)
      /\ late \in Nat /\ sindex \in 0..Len(items) /\ Len(items) = Len(script)
  BY DEF IInv, Shape, Contents
<1>7. m \in Messages /\ DmOK(m)
  BY <1>1, <1>5, <1>6, DmsTail
<1>8. Kind(m) \in {"pending", "final"}
  BY <1>5, KindOf
<1>9. d = m.of.answer /\ IsAnswer(d)
  BY <1>2, <1>7, <1>8 DEF DmOK
<1>10. d \in Data
  BY <1>9 DEF IsAnswer, Data
<1>11. of \in Abouts
  <2>1. m.of \in Abouts
    BY <1>7 DEF Messages
  <2> QED
    BY <1>3, <1>6, <2>1 DEF Abouts
<1>12. ASSUME late = 0
       PROVE  m.of.item = sindex /\ sindex > 0
  <2>1. Flow
    BY <1>12 DEF IInv
  <2>2. Kind(Head(toDm)) \in {"pending", "final"}
    BY <1>1, <1>8
  <2>3. PICK request, key : /\ Asked(toApi, toDm, ecu, sindex, request)
                            /\ Keyed(toApi, toDm, ecu, key, seeds)
    BY <2>1 DEF Flow
  <2>4. Head(toDm).of.item = sindex /\ ~Still(toApi, toDm, ecu)
    BY <1>5, <1>6, <2>2, <2>3, ResponseTaken
  <2> QED
    BY <1>1, <1>6, <2>1, <2>4 DEF Flow
<1>13. ASSUME late = 0
       PROVE  out \in Seq(Messages)
  <2>1. of.late = 0 => of.item = sindex /\ of.answer = d
    BY <1>3, <1>7, <1>9, <1>12, <1>13 DEF Messages, Abouts
  <2>2. Quiet(out, script, general)
    BY <1>4, <1>10, <1>11, <1>12, <1>13, <2>1, ResultSentIs
  <2> QED
    BY <2>2, QuietType
<1>14. ASSUME late = 0, NEW cb, NEW e
       PROVE  AtApi(cb, e, toApi) \/ AtApi(cb, e, out) => AtApi(cb, e, toApi')
  <2>1. out \in Seq(Messages) /\ (Answered(d, of, out) \/ toApi' = toApi \o out)
    BY <1>5, <1>12, <1>13, <1>14
  <2>2. CASE Answered(d, of, out)
    BY <1>6, <2>1, <2>2, AnsweredSends
  <2>3. CASE toApi' = toApi \o out
    BY <1>6, <2>1, <2>3, ApiMore
  <2> QED
    BY <2>1, <2>2, <2>3
<1>15. ASSUME late = 0, NEW a \in owed, Coming(a)
       PROVE  Coming(a)'
  <2>1. PICK cb : cb = script[a.item].rr_callid
    OBVIOUS
  <2>2. OwedOK(a)
    BY DEF OwedInv
  <2>3. CASE AtApi(cb, a.data, toApi)
    BY <1>5, <1>14, <1>15, <2>1, <2>3 DEF Coming
  <2>4. CASE AtDm(a.item, a.data, toDm')
    BY <2>4 DEF Coming
  <2>5. CASE m.of.item = a.item /\ d = a.data
    <3>1. sindex = a.item /\ sindex > 0
      BY <1>12, <1>15, <2>5
    <3>2. items[sindex].sid = script[sindex].sid
      BY <2>2, <3>1 DEF IInv, Contents, ItemsOK, ItemOK, Configured, Plain, OwedOK
    <3>3. IsOwnResponse(items[sindex], d)
      BY <2>2, <2>5, <3>1, <3>2 DEF OwedOK, IsOwnResponse
    <3>4. script[sindex].rr_callid > 0
      BY <2>2, <3>1 DEF OwedOK
    <3>5. AtApi(cb, d, out)
      BY <1>4, <1>10, <1>11, <2>1, <3>1, <3>3, <3>4, ResultIsSent
    <3>6. AtApi(cb, d, toApi')
      BY <1>14, <1>15, <3>5
    <3> QED
      BY <1>5, <2>1, <2>5, <3>6 DEF Coming
  <2>6. AtDm(a.item, a.data, toDm) =>
          AtDm(a.item, a.data, toDm') \/ (m.of.item = a.item /\ d = a.data)
    BY <1>1, <1>2, <1>5, <1>6, WayTail
  <2> QED
    BY <1>15, <2>1, <2>3, <2>4, <2>5, <2>6 DEF Coming
<1> QED
  BY <1>5, <1>15, OwedKept

\* What is owed before the script runs, and at first: nothing.
LEMMA OwedConfigured ==
  ASSUME IInv, OwedInv,
         \/ ResultCallbackSet
         \/ \E c \in Services : ServiceConfigured(c)
         \/ \E g \in Generals : GeneralConfigured(g)
         \/ Start
  PROVE  OwedInv'
<1>1. owed = {} /\ owed' = {}
  BY DEF OwedInv, ResultCallbackSet, ServiceConfigured, GeneralConfigured, Start, history
<1>2. \A k \in 1..Len(script') : script'[k].rr_callid <= Len(rr_handler')
  <2>1. CASE ResultCallbackSet
    <3>1. script' = <<>>
      BY <2>1 DEF ResultCallbackSet
    <3> QED
      BY <3>1
  <2>2. CASE \E c \in Services : ServiceConfigured(c)
    <3>1. PICK c \in Services : ServiceConfigured(c)
      BY <2>2
    <3>2. /\ script' = Append(script, c) /\ c.rr_callid <= Len(rr_handler)
          /\ rr_handler' = rr_handler /\ script \in Seq(Services)
      BY <3>1 DEF ServiceConfigured, IInv, Shape
    <3>3. /\ Len(script') = Len(script) + 1 /\ script'[Len(script) + 1] = c
          /\ \A k \in 1..Len(script) : script'[k] = script[k]
      BY <3>2, AppendIs
    <3>4. \A k \in 1..Len(script') : k \in 1..Len(script) \/ k = Len(script) + 1
      BY <3>2, <3>3
    <3> QED
      BY <3>2, <3>3, <3>4 DEF OwedInv
  <2>3. CASE (\E g \in Generals : GeneralConfigured(g)) \/ Start
    BY <2>3 DEF GeneralConfigured, Start, OwedInv
  <2> QED
    BY <2>1, <2>2, <2>3
<1> QED
  BY <1>1, <1>2 DEF OwedInv

\* Every step keeps it.
LEMMA NextOwed == IInv /\ OwedInv /\ [Next]_vars => OwedInv'
<1> SUFFICES ASSUME IInv, OwedInv, [Next]_vars
             PROVE  OwedInv'
  OBVIOUS
<1>1. toApi \in Seq(Messages) /\ toDm \in Seq(Messages) /\ late \in Nat
  BY DEF IInv, Shape
<1>2. ASSUME NEW m, toApi' = Append(toApi, m),
             UNCHANGED <<script, rr_handler, started, late, owed, toDm>>
      PROVE  OwedInv'
  <2>1. \A x, d : AtApi(x, d, toApi) => AtApi(x, d, toApi')
    BY <1>1, <1>2, WayAppend
  <2>2. \A a \in owed : Coming(a) => Coming(a)'
    BY <1>2, <2>1 DEF Coming
  <2> QED
    BY <1>2, <2>2, OwedKept
<1>3. CASE RequestHandler
  BY <1>2, <1>3 DEF RequestHandler, user, history
<1>4. CASE TesterPresent
  BY <1>2, <1>4 DEF TesterPresent, user
<1>5. CASE ResponseTimeout
  <2>1. late' # 0 /\ UNCHANGED <<script, rr_handler, started, owed>>
    BY <1>1, <1>5 DEF ResponseTimeout, user
  <2> QED
    BY <2>1, OwedKept
<1>6. CASE KeyRead
  <2>1. /\ toDm # <<>> /\ Command(Head(toDm).bytes) = SaKey /\ toDm' = Tail(toDm)
        /\ UNCHANGED <<script, rr_handler, started, late, owed, toApi>>
    BY <1>6 DEF KeyRead, user, history
  <2>2. SaKey # ServiceResponse
    BY DEF SaKey, ServiceResponse
  <2>3. \A x, d : AtDm(x, d, toDm) => AtDm(x, d, toDm')
    BY <1>1, <2>1, <2>2, WayTail
  <2>4. \A a \in owed : Coming(a) => Coming(a)'
    BY <2>1, <2>3 DEF Coming
  <2> QED
    BY <2>1, <2>4, OwedKept
<1>7. CASE RequestRead
  BY <1>7, OwedApiRead DEF RequestRead, ServiceIndication, ServiceRequestResult
<1>8. CASE SeedRead
  BY <1>8, OwedApiRead DEF SeedRead, SaSeed, ServiceRequestResult
<1>9. CASE FinishRead
  BY <1>9, OwedApiRead DEF FinishRead, ScriptResult, ServiceRequestResult
<1>10. CASE UNCHANGED vars
  BY <1>10 DEF vars, user, config, history, OwedInv, OwedOK, Coming
<1> QED
  BY <1>3, <1>4, <1>5, <1>6, <1>7, <1>8, <1>9, <1>10, OwedConfigured, OwedResponseRead,
     OwedResultRead, OwedServiceResponded DEF Next

-----------------------------------------------------------------------------
(***************************************************************************)
(* Theorems                                                                *)
(***************************************************************************)

\* Every state a script can be in has the invariant.
THEOREM ScriptCorrect == Spec => []IInv
  BY InitIInv, NextIInv, PTL DEF Spec

\* The arrays and the messages of dm_uds_client.c and dm_api.c are in order, for
\* every script, answer and bound.
THEOREM TypeCorrect == Spec => []TypeOK
<1>1. IInv => TypeOK
  <2> SUFFICES ASSUME IInv
               PROVE  TypeOK
    OBVIOUS
  <2>1. \A k \in 1..Len(items) :
          \A f \in {"request_byte", "variable_byte", "expect_byte", "finish_byte"} :
            WellFormed(items[k][f])
    BY DEF IInv, Shape, Contents, ItemsOK, ItemOK, ItemArrays
  <2>2. \A q \in Seq(Messages) : \A k \in 1..Len(q) : q[k].bytes \in Seq(Byte)
    <3>1. \A m \in Messages : m.bytes \in Seq(Byte)
      BY DEF Messages
    <3> QED
      BY <3>1
  <2> QED
    BY <2>1, <2>2 DEF IInv, Shape, TypeOK
<1> QED
  BY <1>1, ScriptCorrect, PTL

\* dm_service_config_encode to diag_master_cammand_service_config_handler: whatever
\* a user configures is in the item, before the script and while it runs.
THEOREM ItemsAreConfigured == Spec => []ItemIsConfigured
<1>1. IInv => ItemIsConfigured
  <2> SUFFICES ASSUME IInv
               PROVE  ItemIsConfigured
    OBVIOUS
  <2>1. \A k \in 1..Len(script) : Configured(items[k], script[k])
    BY DEF IInv, Contents, ItemsOK, ItemOK
  <2>2. GeneralOK(udsc, general)
    BY DEF IInv, Contents
  <2> QED
    BY <2>1, <2>2 DEF ItemIsConfigured, Configured, GeneralOK
<1> QED
  BY <1>1, ScriptCorrect, PTL

\* dm_udsc_service_request_build: an ECU that follows the layout of a request finds
\* in it what the user configured, whichever its bytes.
THEOREM ConfigReachesEcu == Spec => []EcuReadsConfig
<1>1. IInv => EcuReadsConfig
  BY DEF IInv, Contents, GivenOK, EcuReadsConfig, PresentOK, RequestOK
<1> QED
  BY <1>1, ScriptCorrect, PTL

\* diag_master_cammand_sa_key_handler: unless an answer was late, a request that is
\* not a repeated one has no key but that of the last seed.
THEOREM KeysFitSeeds == Spec => []KeyIsOfLastSeed
<1>1. IInv => KeyIsOfLastSeed
  BY DEF IInv, Contents, EcusOK, EcuOK, KeyOK, KeyIsOfLastSeed
<1> QED
  BY <1>1, ScriptCorrect, PTL

\* What an ECU answers is owed to the user until a callback is given it.
THEOREM AnswersOwed == Spec => []OwedInv
<1>1. Init => OwedInv
  BY DEF Init, OwedInv
<1> QED
  BY <1>1, NextOwed, ScriptCorrect, PTL DEF Spec

\* diag_master_cammand_service_response_handler to dm_api_cammand_service_result_handler:
\* unless a response timer fired, every answer to a service with a callback is on its way
\* to that callback until it is given to it, and to no other; only the last id that can be
\* handed out is left aside.
THEOREM AnswersArrive == Spec => []AnswerReachesUser
<1>1. OwedInv => (late = 0 => \A a \in owed : script[a.item].rr_callid < RrMax => OnItsWay(a))
  BY DEF OwedInv, Coming, AtDm, AtApi, OnItsWay
<1>2. IInv /\ OwedInv => AnswerReachesUser
  BY <1>1 DEF IInv, Contents, GivenOK, ResultOK, FinishOK, AnswerReachesUser
<1> QED
  BY <1>2, ScriptCorrect, AnswersOwed, PTL
=============================================================================
