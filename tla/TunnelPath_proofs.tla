------------------------- MODULE TunnelPath_proofs -------------------------
(***************************************************************************)
(* For any number of packets of any size, a pipe of any capacity, and      *)
(* however the extension, the main thread and the edge thread interleave:  *)
(* the way of a packet from the system to the edge keeps its types, the    *)
(* framing in the pipe and the order of the packets, and implements the    *)
(* mailbox.  First what the steps of PacketPipe preserve, then the whole   *)
(* way.                                                                    *)
(***************************************************************************)
EXTENDS TunnelPath, Wormhole_proofs, SequenceTheorems

(* Streams of bytes: c[1], ..., c[l] and the one that comes after them, of *)
(* packets whose lengths are L.                                            *)

\* Byte c may come d bytes after byte b.
After(L, b, c, d) ==
    /\ b[1] <= c[1]
    /\ b[1] = c[1] => c[2] = b[2] + d
    /\ b[1] < c[1] => d > 4 + L[b[1]] - b[2]

\* Byte c comes next after byte b.
Follows(L, b, c) ==
    IF b[2] < 4 + L[b[1]] THEN c[1] = b[1] /\ c[2] = b[2] + 1 ELSE c[1] = b[1] + 1 /\ c[2] = 1

\* Nothing is missing, doubled or exchanged.
Unbroken(L, c, l) ==
    /\ \A i \in 1 .. l : Follows(L, c[i], c[i + 1])
    /\ \A i \in 1 .. l, j \in 1 .. l + 1 : i < j => After(L, c[i], c[j], j - i)

LEMMA FartherOn ==
    ASSUME NEW L, NEW b, NEW c, NEW e, NEW d \in Nat, NEW f \in Nat,
           b[1] \in Nat, b[2] \in Nat, c[1] \in Nat, c[2] \in Nat, L[b[1]] \in Nat,
           After(L, b, c, d), e[1] = c[1], e[2] = c[2] + f
    PROVE  After(L, b, e, d + f)
  BY DEF After

LEMMA NextPacket ==
    ASSUME NEW L, NEW b, NEW c, NEW e, NEW d \in Nat, NEW f \in Nat,
           b[1] \in Nat, b[2] \in Nat, c[1] \in Nat, c[2] \in Nat, L[b[1]] \in Nat, L[c[1]] \in Nat,
           After(L, b, c, d), e[1] = c[1] + 1, e[2] = 1, c[2] + f - 1 = 4 + L[c[1]]
    PROVE  After(L, b, e, d + f)
  BY DEF After

\* b is stream a of l bytes with m more of packet w, from its k-th on.
GoesOn(L, b, a, l, m, w, k) ==
    /\ \A i \in 1 .. l : b[i] = a[i]
    /\ \A i \in l + 1 .. l + m : b[i][1] = w /\ b[i][2] = k + i - l - 1
    /\ IF k + m - 1 = 4 + L[w] THEN b[l + m + 1][1] = w + 1 /\ b[l + m + 1][2] = 1
       ELSE b[l + m + 1][1] = w /\ b[l + m + 1][2] = k + m


LEMMA NumbersUpTo == \A w \in Nat \ {0} : \A v \in 1 .. w : v \in Nat
  OBVIOUS

LEMMA FirstNew ==
    ASSUME NEW l \in Nat, NEW m \in Nat \ {0}, NEW k \in Nat
    PROVE  l + 1 \in l + 1 .. l + m /\ k + (l + 1) - l - 1 = k
  OBVIOUS

\* A stream goes on with bytes of the packet that is being written.
LEMMA Extended ==
    ASSUME NEW l \in Nat, NEW m \in Nat \ {0}, NEW w \in Nat \ {0}, NEW k \in Nat \ {0},
           NEW L, NEW a, NEW b,
           L \in [1 .. w -> Nat],
           \A i \in 1 .. l : a[i][1] \in 1 .. w /\ a[i][2] \in Nat,
           Unbroken(L, a, l), a[l + 1][1] = w /\ a[l + 1][2] = k, k + m - 1 <= 4 + L[w],
           GoesOn(L, b, a, l, m, w, k)
    PROVE  Unbroken(L, b, l + m)
  <1>1. l + 1 \in l + 1 .. l + m /\ k + (l + 1) - l - 1 = k
      BY FirstNew
  <1>2. b[l + 1][1] = w /\ b[l + 1][2] = k
      BY <1>1 DEF GoesOn
  <1>3. L[w] \in Nat
      OBVIOUS
  <1>4. \A i \in 1 .. l : b[i] = a[i]
      BY DEF GoesOn
  <1>5. \A i \in l + 1 .. l + m : b[i][1] = w /\ b[i][2] = k + i - l - 1
      BY DEF GoesOn
  <1>6. /\ k + m - 1 = 4 + L[w] => b[l + m + 1][1] = w + 1 /\ b[l + m + 1][2] = 1
        /\ k + m - 1 # 4 + L[w] => b[l + m + 1][1] = w /\ b[l + m + 1][2] = k + m
      BY DEF GoesOn
  <1>7. \A i \in 1 .. l, j \in 1 .. l + 1 : i < j => After(L, a[i], a[j], j - i)
      BY DEF Unbroken
  <1>8. \A i \in 1 .. l : Follows(L, a[i], a[i + 1])
      BY DEF Unbroken
  <1>9. \A i \in 1 .. l + m : Follows(L, b[i], b[i + 1])
    <2> TAKE i \in 1 .. l + m
    <2>1. CASE i < l
      <3>1. i \in 1 .. l /\ i + 1 \in 1 .. l
          BY <2>1
      <3> QED BY <1>4, <1>8, <3>1
    <2>2. CASE i = l
      <3>1. i \in 1 .. l
          BY <2>2
      <3>2. Follows(L, a[i], a[i + 1]) /\ b[i] = a[i]
          BY <1>4, <1>8, <3>1
      <3> QED BY <1>2, <2>2, <3>2 DEF Follows
    <2>3. CASE i > l /\ i < l + m
      <3>1. i \in l + 1 .. l + m /\ i + 1 \in l + 1 .. l + m
          BY <2>3
      <3>2. b[i][1] = w /\ b[i][2] = k + i - l - 1 /\ b[i + 1][1] = w /\ b[i + 1][2] = k + (i + 1) - l - 1
          BY <1>5, <3>1
      <3> QED BY <1>3, <2>3, <3>2 DEF Follows
    <2>4. CASE i = l + m
      <3>1. i \in l + 1 .. l + m
          BY <2>4
      <3>2. b[i][1] = w /\ b[i][2] = k + i - l - 1
          BY <1>5, <3>1
      <3> QED BY <1>3, <1>6, <2>4, <3>2 DEF Follows
    <2> QED BY <2>1, <2>2, <2>3, <2>4
  <1>10. ASSUME NEW i \in 1 .. l + m, NEW j \in 1 .. l + m + 1, i < j
         PROVE  After(L, b[i], b[j], j - i)
    <2>1. CASE j <= l
      <3>1. i \in 1 .. l /\ j \in 1 .. l /\ j \in 1 .. l + 1
          BY <1>10, <2>1
      <3> QED BY <1>4, <1>7, <1>10, <3>1
    <2>2. CASE i <= l /\ j >= l + 1
      <3>1. i \in 1 .. l /\ l + 1 \in 1 .. l + 1 /\ i < l + 1
          BY <2>2
      <3>2. After(L, a[i], a[l + 1], (l + 1) - i) /\ b[i] = a[i]
          BY <1>4, <1>7, <3>1
      <3>3. b[i][1] \in Nat /\ b[i][2] \in Nat /\ L[b[i][1]] \in Nat
        <4>1. a[i][1] \in 1 .. w /\ a[i][2] \in Nat
            BY <3>1
        <4>2. L[a[i][1]] \in Nat
            BY <4>1
        <4>3. b[i] = a[i]
            BY <3>2
        <4>4. a[i][1] \in Nat
            BY <4>1, NumbersUpTo, Zenon
        <4> QED BY <4>1, <4>2, <4>3, <4>4, Zenon
      <3>4. (l + 1) - i \in Nat /\ j - (l + 1) \in Nat /\ ((l + 1) - i) + (j - (l + 1)) = j - i
          BY <2>2, <3>1
      <3>5. CASE j <= l + m
        <4>1. j \in l + 1 .. l + m /\ k + j - l - 1 = k + (j - (l + 1))
            BY <2>2, <3>5
        <4>2. b[j][1] = a[l + 1][1] /\ b[j][2] = a[l + 1][2] + (j - (l + 1))
            BY <1>5, <4>1
        <4>3. After(L, b[i], b[j], ((l + 1) - i) + (j - (l + 1)))
            BY <3>2, <3>3, <3>4, <4>2, FartherOn
        <4> QED BY <3>4, <4>3
      <3>6. CASE j = l + m + 1
        <4>1. j - (l + 1) = m
            BY <3>6
        <4>2. CASE k + m - 1 = 4 + L[w]
          <5>1. After(L, b[i], b[j], ((l + 1) - i) + (j - (l + 1)))
              BY <1>3, <1>6, <3>2, <3>3, <3>4, <3>6, <4>1, <4>2, NextPacket
          <5> QED BY <3>4, <5>1
        <4>3. CASE k + m - 1 # 4 + L[w]
          <5>1. After(L, b[i], b[j], ((l + 1) - i) + (j - (l + 1)))
              BY <1>6, <3>2, <3>3, <3>4, <3>6, <4>1, <4>3, FartherOn
          <5> QED BY <3>4, <5>1
        <4> QED BY <4>2, <4>3
      <3> QED BY <3>5, <3>6
    <2>3. CASE i > l
      <3>1. i \in l + 1 .. l + m
          BY <2>3
      <3>2. b[i][1] = w /\ b[i][2] = k + i - l - 1 /\ k + i - l - 1 \in Nat
          BY <1>5, <3>1
      <3>3. After(L, b[i], b[i], 0)
          BY <3>2 DEF After
      <3>4. j - i \in Nat /\ 0 + (j - i) = j - i
          BY <1>10
      <3>5. CASE j <= l + m
        <4>1. j \in l + 1 .. l + m
            BY <1>10, <2>3, <3>5
        <4>2. b[j][1] = w /\ b[j][2] = k + j - l - 1 /\ k + j - l - 1 = (k + i - l - 1) + (j - i)
            BY <1>5, <4>1
        <4>3. After(L, b[i], b[j], 0 + (j - i))
            BY <1>3, <3>2, <3>3, <3>4, <4>2, FartherOn
        <4> QED BY <3>4, <4>3
      <3>6. CASE j = l + m + 1
        <4>1. (k + i - l - 1) + (j - i) = k + m
          <5>1. (k + i - l - 1) + ((l + m + 1) - i) = k + m
              OBVIOUS
          <5> QED BY <3>6, <5>1
        <4>2. CASE k + m - 1 = 4 + L[w]
          <5>1. (k + i - l - 1) + (j - i) - 1 = 4 + L[w]
              BY <4>1, <4>2
          <5>2. After(L, b[i], b[j], 0 + (j - i))
              BY <1>3, <1>6, <3>2, <3>3, <3>4, <3>6, <4>2, <5>1, NextPacket
          <5> QED BY <3>4, <5>2
        <4>3. CASE k + m - 1 # 4 + L[w]
          <5>1. After(L, b[i], b[j], 0 + (j - i))
              BY <1>3, <1>6, <3>2, <3>3, <3>4, <3>6, <4>1, <4>3, FartherOn
          <5> QED BY <3>4, <5>1
        <4> QED BY <4>2, <4>3
      <3> QED BY <3>5, <3>6
    <2> QED BY <2>1, <2>2, <2>3
  <1> QED BY <1>9, <1>10 DEF Unbroken

\* What is left of a stream when its beginning is taken.
LEMMA Shortened ==
    ASSUME NEW l \in Nat, NEW m \in 1 .. l, NEW L, NEW a, NEW b,
           Unbroken(L, a, l), \A i \in 1 .. l - m + 1 : b[i] = a[i + m]
    PROVE  Unbroken(L, b, l - m)
  <1>1. \A i \in 1 .. l - m : Follows(L, b[i], b[i + 1])
    <2> TAKE i \in 1 .. l - m
    <2>1. b[i] = a[i + m] /\ b[i + 1] = a[(i + m) + 1] /\ i + m \in 1 .. l
        OBVIOUS
    <2> QED BY <2>1 DEF Unbroken
  <1>2. \A i \in 1 .. l - m, j \in 1 .. l - m + 1 : i < j => After(L, b[i], b[j], j - i)
    <2> SUFFICES ASSUME NEW i \in 1 .. l - m, NEW j \in 1 .. l - m + 1, i < j
                 PROVE  After(L, b[i], b[j], j - i)
        OBVIOUS
    <2>1. b[i] = a[i + m] /\ b[j] = a[j + m] /\ i + m \in 1 .. l /\ j + m \in 1 .. l + 1
          /\ (j + m) - (i + m) = j - i /\ i + m < j + m
        OBVIOUS
    <2>2. After(L, a[i + m], a[j + m], (j + m) - (i + m))
        BY <2>1 DEF Unbroken
    <2> QED BY <2>1, <2>2
  <1> QED BY <1>1, <1>2 DEF Unbroken

\* One more packet is given.
LEMMA OneMore ==
    ASSUME NEW l \in Nat, NEW w \in Nat, NEW L, NEW M, NEW a,
           \A i \in 1 .. l : a[i][1] \in 1 .. w, \A n \in 1 .. w : M[n] = L[n],
           Unbroken(L, a, l)
    PROVE  Unbroken(M, a, l)
  BY DEF Unbroken, Follows, After

\* A stream begins with the payload of packet n.
AtPayload(L, a, l, n) ==
    /\ l \in Nat /\ n \in Nat /\ L[n] \in Nat
    /\ Unbroken(L, a, l) /\ a[1] = <<n, 5>>
    /\ \A i \in 1 .. l + 1 : a[i] \in Nat \X Nat

PayloadBytes(L, a, l, n) == \A j \in 1 .. l + 1 : j <= L[n] => a[j] = <<n, 4 + j>>

\* From the first byte of a payload on, its bytes follow one another.
LEMMA PayloadFollows == \A L, a, l, n : AtPayload(L, a, l, n) => PayloadBytes(L, a, l, n)
  <1> SUFFICES ASSUME NEW L, NEW a, NEW l, NEW n, AtPayload(L, a, l, n),
                      NEW j \in 1 .. l + 1, j <= L[n]
               PROVE  a[j] = <<n, 4 + j>>
      BY DEF PayloadBytes
  <1>0. /\ l \in Nat /\ n \in Nat /\ L[n] \in Nat
        /\ Unbroken(L, a, l) /\ a[1] = <<n, 5>> /\ a[j] \in Nat \X Nat
      BY DEF AtPayload
  <1>1. CASE j = 1
      BY <1>0, <1>1
  <1>2. CASE j > 1
    <2>0. 1 \in 1 .. l
        BY <1>0, <1>2
    <2>1. After(L, a[1], a[j], j - 1)
        BY <1>0, <1>2, <2>0 DEF Unbroken
    <2>2. a[j][1] = n /\ a[j][2] = 4 + j
        BY <1>0, <1>2, <2>1 DEF After
    <2> QED BY <1>0, <2>2
  <1> QED BY <1>0, <1>1, <1>2

----------------------------------------------------------------------------
(* What the reader reads from here on: what is in the pipe, and the byte   *)
(* that writePackets writes next.                                          *)

NextByte ==
    CASE main.doing = "idle" -> <<Len(given) + 1, 1>>
      [] main.doing = "head" -> <<Len(given), 1>>
      [] main.doing = "length" -> <<Len(given), 3>>
      [] main.doing = "payload" -> <<Len(given), 5 + main.written>>

Coming == [i \in 1 .. Len(pipe) + 1 |-> IF i <= Len(pipe) THEN pipe[i] ELSE NextByte]

Lengths == [n \in 1 .. Len(given) |-> Length(n)]

Bytes == Unbroken(Lengths, Coming, Len(pipe))

LEMMA Constants ==
    /\ Packets \subseteq Nat /\ Size \in [Packets -> Nat \ {0}]
    /\ Misread \in Nat \ {0} /\ Capacity \in Nat /\ Atomic \in Nat /\ MaxPackets \in Nat
    /\ 2 <= Atomic /\ Atomic <= Capacity
  BY PipeAssumption

LEMMA LengthOfPacket == TypeOK => \A n \in 1 .. Len(given) : Length(n) \in Nat \ {0}
  <1> SUFFICES ASSUME TypeOK, NEW n \in 1 .. Len(given) PROVE Length(n) \in Nat \ {0}
      OBVIOUS
  <1>1. given \in Seq(Packets)
      BY DEF TypeOK
  <1>2. given[n] \in Packets
      BY <1>1
  <1> QED BY <1>2, Constants DEF Length

LEMMA LengthsType ==
    TypeOK => /\ Len(given) \in Nat /\ Len(pipe) \in Nat
              /\ Lengths \in [1 .. Len(given) -> Nat]
              /\ \A n \in 1 .. Len(given) : Lengths[n] = Length(n)
  <1> SUFFICES ASSUME TypeOK PROVE /\ Len(given) \in Nat /\ Len(pipe) \in Nat
                                   /\ Lengths \in [1 .. Len(given) -> Nat]
      BY DEF Lengths
  <1>1. Len(given) \in Nat /\ Len(pipe) \in Nat
      BY DEF TypeOK
  <1> QED BY <1>1, LengthOfPacket DEF Lengths

LEMMA ByteType ==
    TypeOK => \A i \in 1 .. Len(pipe) :
                 /\ pipe[i] \in (1 .. Len(given)) \X Nat
                 /\ pipe[i] = <<pipe[i][1], pipe[i][2]>>
                 /\ pipe[i][1] \in 1 .. Len(given)
                 /\ pipe[i][2] \in 1 .. 4 + Length(pipe[i][1])
                 /\ Coming[i] = pipe[i]
  <1> SUFFICES ASSUME TypeOK, NEW i \in 1 .. Len(pipe)
               PROVE  /\ pipe[i] \in (1 .. Len(given)) \X Nat
                      /\ pipe[i] = <<pipe[i][1], pipe[i][2]>>
                      /\ pipe[i][1] \in 1 .. Len(given)
                      /\ pipe[i][2] \in 1 .. 4 + Length(pipe[i][1])
                      /\ Coming[i] = pipe[i]
      OBVIOUS
  <1>1. pipe \in Seq(FrameBytes) /\ given \in Seq(Packets)
      BY DEF TypeOK
  <1>2. pipe[i] \in FrameBytes
      BY <1>1
  <1>3. DOMAIN given = 1 .. Len(given)
      BY <1>1
  <1>4. pipe[i] \in (1 .. Len(given)) \X Nat /\ pipe[i][2] \in 1 .. 4 + Length(pipe[i][1])
      BY <1>2, <1>3 DEF FrameBytes, Length
  <1>5. Len(pipe) \in Nat
      BY <1>1
  <1>6. Coming[i] = pipe[i]
      BY <1>5 DEF Coming
  <1> QED BY <1>4, <1>6

LEMMA NextType ==
    TypeOK => /\ Coming[Len(pipe) + 1] = NextByte
              /\ NextByte[1] \in Nat /\ NextByte[2] \in Nat
              /\ NextByte = <<NextByte[1], NextByte[2]>>
              /\ Len(given) <= NextByte[1]
  <1> SUFFICES ASSUME TypeOK PROVE /\ Coming[Len(pipe) + 1] = NextByte
                                   /\ NextByte[1] \in Nat /\ NextByte[2] \in Nat
                                   /\ NextByte = <<NextByte[1], NextByte[2]>>
                                   /\ Len(given) <= NextByte[1]
      OBVIOUS
  <1>1. Len(given) \in Nat /\ Len(pipe) \in Nat
      BY LengthsType
  <1>2. main.doing \in {"idle", "head", "length", "payload"} /\ main.written \in Nat
      BY DEF TypeOK
  <1>3. Coming[Len(pipe) + 1] = NextByte
      BY <1>1 DEF Coming
  <1> QED BY <1>1, <1>2, <1>3 DEF NextByte

\* The writer writes m bytes where it is.
LEMMA Wrote ==
    ASSUME TypeOK, Bytes, UNCHANGED given,
           NEW m \in Nat \ {0}, NEW k \in Nat \ {0},
           Len(given) >= 1, NextByte = <<Len(given), k>>, k + m - 1 <= 4 + Length(Len(given)),
           Len(pipe') = Len(pipe) + m,
           \A i \in 1 .. Len(pipe) : pipe'[i] = pipe[i],
           \A i \in Len(pipe) + 1 .. Len(pipe) + m :
               pipe'[i][1] = Len(given) /\ pipe'[i][2] = k + i - Len(pipe) - 1,
           IF k + m - 1 = 4 + Length(Len(given)) THEN NextByte' = <<Len(given) + 1, 1>>
           ELSE NextByte' = <<Len(given), k + m>>
    PROVE  Bytes' /\ Coming'[1][1] = Coming[1][1] /\ Coming'[1][2] = Coming[1][2]
  <1> DEFINE l == Len(pipe)
             w == Len(given)
  <1>1. /\ l \in Nat /\ w \in Nat \ {0} /\ Lengths \in [1 .. w -> Nat]
        /\ Lengths[w] = Length(w) /\ Length(w) \in Nat /\ Lengths' = Lengths
    <2>1. w \in 1 .. Len(given)
        BY LengthsType
    <2> QED BY <2>1, LengthsType DEF Lengths, Length
  <1>2. \A i \in 1 .. l : Coming[i][1] \in 1 .. w /\ Coming[i][2] \in Nat /\ Coming[i] = pipe[i]
    <2> TAKE i \in 1 .. l
    <2>1. pipe[i][1] \in 1 .. w /\ pipe[i][2] \in 1 .. 4 + Length(pipe[i][1]) /\ Coming[i] = pipe[i]
        BY ByteType
    <2>2. pipe[i] \in (1 .. w) \X Nat
        BY ByteType
    <2> QED BY <2>1, <2>2
  <1>3. Coming[l + 1][1] = w /\ Coming[l + 1][2] = k
      BY NextType
  <1>4. l + m \in Nat /\ Len(pipe') = l + m
      BY <1>1
  <1>5. \A i \in 1 .. l + m : Coming'[i] = pipe'[i]
      BY <1>4 DEF Coming
  <1>6. Coming'[l + m + 1] = NextByte'
      BY <1>4 DEF Coming
  <1>7. GoesOn(Lengths, Coming', Coming, l, m, w, k)
    <2>1. \A i \in 1 .. l : Coming'[i] = Coming[i]
      <3> TAKE i \in 1 .. l
      <3>1. i \in 1 .. l + m
          BY <1>1
      <3> QED BY <1>2, <1>5, <3>1
    <2>2. \A i \in l + 1 .. l + m : Coming'[i][1] = w /\ Coming'[i][2] = k + i - l - 1
      <3> TAKE i \in l + 1 .. l + m
      <3>1. i \in 1 .. l + m
          BY <1>1
      <3> QED BY <1>5, <3>1
    <2>3. IF k + m - 1 = 4 + Lengths[w] THEN Coming'[l + m + 1][1] = w + 1 /\ Coming'[l + m + 1][2] = 1
          ELSE Coming'[l + m + 1][1] = w /\ Coming'[l + m + 1][2] = k + m
        BY <1>1, <1>6
    <2> QED BY <2>1, <2>2, <2>3 DEF GoesOn
  <1>8. Unbroken(Lengths, Coming, l) /\ k + m - 1 <= 4 + Lengths[w]
      BY <1>1 DEF Bytes
  <1>9. Unbroken(Lengths, Coming', l + m)
    <2> HIDE DEF l, w
    <2> QED BY <1>1, <1>2, <1>3, <1>7, <1>8, Extended
  <1>10. Bytes'
      BY <1>1, <1>4, <1>9 DEF Bytes
  <1>11. Coming'[1][1] = Coming[1][1] /\ Coming'[1][2] = Coming[1][2]
    <2>1. CASE l = 0
      <3>1. 1 \in l + 1 .. l + m
          BY <2>1
      <3>2. Coming'[1][1] = w /\ Coming'[1][2] = k + 1 - l - 1
          BY <3>1, <1>7 DEF GoesOn
      <3> QED BY <1>3, <2>1, <3>2
    <2>2. CASE l > 0
      <3>1. 1 \in 1 .. l
          BY <1>1, <2>2
      <3> QED BY <3>1, <1>7 DEF GoesOn
    <2> QED BY <1>1, <2>1, <2>2
  <1> QED BY <1>10, <1>11

\* The reader takes the first m bytes.
LEMMA Took ==
    ASSUME TypeOK, Bytes, UNCHANGED <<given, main>>, NEW m \in 1 .. Len(pipe),
           pipe' = SubSeq(pipe, m + 1, Len(pipe))
    PROVE  /\ Bytes' /\ Len(pipe') = Len(pipe) - m
           /\ \A i \in 1 .. Len(pipe') + 1 : Coming'[i] = Coming[i + m]
  <1>1. Len(pipe) \in Nat /\ Lengths' = Lengths /\ NextByte' = NextByte
      BY LengthsType DEF Lengths, Length, NextByte
  <1>2. Len(pipe') = Len(pipe) - m /\ \A i \in 1 .. Len(pipe) - m : pipe'[i] = pipe[i + m]
      BY <1>1 DEF TypeOK
  <1>3. \A i \in 1 .. Len(pipe) - m + 1 : Coming'[i] = Coming[i + m]
    <2> TAKE i \in 1 .. Len(pipe) - m + 1
    <2>1. i + m \in 1 .. Len(pipe) + 1 /\ i \in 1 .. Len(pipe') + 1
        BY <1>1, <1>2
    <2>2. CASE i <= Len(pipe) - m
      <3>1. i \in 1 .. Len(pipe) - m /\ i + m <= Len(pipe) /\ i <= Len(pipe')
          BY <1>1, <1>2, <2>2
      <3> QED BY <1>2, <2>1, <3>1 DEF Coming
    <2>3. CASE i = Len(pipe) - m + 1
      <3>1. ~(i + m <= Len(pipe)) /\ ~(i <= Len(pipe'))
          BY <1>1, <1>2, <2>3
      <3> QED BY <1>1, <2>1, <3>1 DEF Coming
    <2> QED BY <1>1, <2>2, <2>3
  <1>4. Unbroken(Lengths, Coming', Len(pipe) - m)
      BY <1>1, <1>3, Shortened DEF Bytes
  <1> QED BY <1>1, <1>2, <1>3, <1>4 DEF Bytes

----------------------------------------------------------------------------
(* The inductive invariant.                                                *)

\* A payload is left unfinished only if it is longer than PIPE_BUF.
Unfinished ==
    /\ main.doing # "payload" => main.written = 0
    /\ main.doing = "payload" =>
        /\ main.written < Length(Len(given))
        /\ main.written > 0 => Length(Len(given)) > Atomic

ClosedIsEmpty ==
    ~open => pipe = <<>> /\ main.doing \in {"idle", "head"}

Coming1(n, k) == Coming[1][1] = n /\ Coming[1][2] = k

\* As long as all frames are whole the reader is where it believes to be.
AllWhole == \A i \in 1 .. Len(frames) : Whole(i)
Position ==
    open /\ AllWhole =>
        /\ reader.doing \in {"select", "head"} => Coming1(Len(frames) + 1, 1)
        /\ reader.doing = "length" => Coming1(Len(frames) + 1, 3)
        /\ reader.doing = "payload" =>
               Coming1(Len(frames) + 1, 5) /\ reader.want = Length(Len(frames) + 1)

\* What was read is not newer than what comes.
NewestFrame == frames[Len(frames)][1][1]
Behind ==
    /\ \A i \in 1 .. Len(frames) : frames[i] # <<>>
    /\ frames # <<>> => NewestFrame <= Coming[1][1]

PipeInv == TypeOK /\ Bytes /\ Unfinished /\ ClosedIsEmpty /\ Position /\ FramingKept /\ Behind

LEMMA InitPipeInv == Init => PipeInv
  <1> SUFFICES ASSUME Init PROVE PipeInv
      OBVIOUS
  <1>1. pipe = <<>> /\ Len(pipe) = 0 /\ given = <<>> /\ Len(given) = 0 /\ frames = <<>> /\ Len(frames) = 0
      BY DEF Init
  <1>2. TypeOK
    <2>1. pipe \in Seq(FrameBytes) /\ Len(pipe) <= Capacity
        BY <1>1, Constants
    <2>2. given \in Seq(Packets) /\ Len(given) <= MaxPackets
        BY <1>1, Constants
    <2>3. frames \in Seq(Seq(FrameBytes))
        BY <1>1
    <2>4. main \in [doing : {"idle", "head", "length", "payload"}, written : Nat]
        BY DEF Init, Idle
    <2>5. reader \in [doing : {"select", "head", "length", "payload", "ended"}, want : Nat]
        BY DEF Init, Select, Waits
    <2>6. main.doing = "idle" /\ reader.doing = "select" /\ open \in BOOLEAN
        BY DEF Init, Idle, Select, Waits
    <2> QED BY <2>1, <2>2, <2>3, <2>4, <2>5, <2>6 DEF TypeOK
  <1>3. main.doing = "idle" /\ reader.doing = "select" /\ open = TRUE
      BY DEF Init, Idle, Select, Waits
  <1>4. Coming[1] = <<1, 1>>
    <2>1. NextByte = <<1, 1>>
        BY <1>1, <1>3 DEF NextByte
    <2> QED BY <1>1, <2>1 DEF Coming
  <1>5. Bytes
      BY <1>1 DEF Bytes, Unbroken
  <1>6. Unfinished /\ ClosedIsEmpty
    <2>1. main.written = 0
        BY DEF Init, Idle
    <2> QED BY <1>3, <2>1 DEF Unfinished, ClosedIsEmpty
  <1>7. Position
      BY <1>1, <1>3, <1>4 DEF Position, Coming1
  <1>8. FramingKept /\ Behind
      BY <1>1 DEF FramingKept, Behind
  <1> QED BY <1>2, <1>5, <1>6, <1>7, <1>8 DEF PipeInv

\* What was said of the frames stays true when another packet is given.
LEMMA FramesStay ==
    ASSUME TypeOK, UNCHANGED frames, NEW p \in Packets, given' = Append(given, p)
    PROVE  /\ \A n \in 1 .. Len(given) : Length(n)' = Length(n) /\ Payload(n)' = Payload(n)
           /\ FrameBytes \subseteq FrameBytes'
           /\ \A i \in 1 .. Len(frames) : Whole(i)' <=> Whole(i)
           /\ \A i \in 1 .. Len(frames) : Cut(i) => Cut(i)'
           /\ AllWhole' => AllWhole
           /\ FramingKept => FramingKept'
  <1>1. given \in Seq(Packets) /\ Len(given) \in Nat /\ Len(given') = Len(given) + 1
      BY DEF TypeOK
  <1>2. \A n \in 1 .. Len(given) : given'[n] = given[n]
      BY <1>1
  <1>3. \A n \in 1 .. Len(given) : Length(n)' = Length(n)
      BY <1>2 DEF Length
  <1>4. \A n \in 1 .. Len(given) : Payload(n)' = Payload(n)
      BY <1>3 DEF Payload
  <1>5. FrameBytes \subseteq FrameBytes'
    <2> SUFFICES ASSUME NEW b \in FrameBytes PROVE b \in FrameBytes'
        OBVIOUS
    <2>1. DOMAIN given = 1 .. Len(given) /\ DOMAIN given' = 1 .. Len(given) + 1
        BY <1>1
    <2>2. b \in (DOMAIN given) \X Nat /\ b[2] \in 1 .. 4 + Size[given[b[1]]]
        BY DEF FrameBytes
    <2>3. b[1] \in 1 .. Len(given)
        BY <2>1, <2>2
    <2>4. b \in (DOMAIN given') \X Nat
        BY <1>1, <2>1, <2>2, <2>3
    <2> QED BY <1>2, <2>2, <2>3, <2>4 DEF FrameBytes
  <1>6. ASSUME NEW i \in 1 .. Len(frames), Whole(i)'
        PROVE  i <= Len(given)
    <2>1. i <= Len(given) + 1 /\ frames[i] = Payload(i)'
        BY <1>1, <1>6 DEF Whole
    <2>2. CASE i = Len(given) + 1
      <3>1. given'[i] = p /\ Length(i)' \in Nat \ {0}
          BY <1>1, <2>2, Constants DEF Length
      <3>2. frames[i] = [k \in 1 .. Length(i)' |-> <<i, 4 + k>>]
          BY <2>1 DEF Payload
      <3>3. frames \in Seq(Seq(FrameBytes))
          BY DEF TypeOK
      <3>4. frames[i] \in Seq(FrameBytes)
          BY <3>3
      <3>5. 1 \in DOMAIN frames[i] /\ frames[i][1] = <<i, 5>>
          BY <3>1, <3>2
      <3>6. frames[i][1] \in FrameBytes
          BY <3>4, <3>5
      <3>7. i \in DOMAIN given
          BY <3>5, <3>6 DEF FrameBytes
      <3> QED BY <1>1, <2>2, <3>7
    <2> QED BY <1>1, <2>1, <2>2
  <1>7. \A i \in 1 .. Len(frames) : Whole(i)' <=> Whole(i)
    <2> TAKE i \in 1 .. Len(frames)
    <2>1. ASSUME i <= Len(given) PROVE Whole(i)' <=> Whole(i)
      <3>1. i \in 1 .. Len(given) /\ i <= Len(given')
          BY <1>1, <2>1
      <3> QED BY <1>4, <2>1, <3>1 DEF Whole
    <2> QED BY <1>6, <2>1 DEF Whole
  <1>8. \A i \in 1 .. Len(frames) : Cut(i) => Cut(i)'
    <2> SUFFICES ASSUME NEW i \in 1 .. Len(frames), Cut(i) PROVE Cut(i)'
        OBVIOUS
    <2>1. i \in 1 .. Len(given) /\ i <= Len(given')
        BY <1>1 DEF Cut
    <2>2. Length(i)' = Length(i) /\ Payload(i)' = Payload(i) /\ (Whole(i)' <=> Whole(i))
        BY <1>3, <1>4, <1>7, <2>1
    <2> QED BY <2>1, <2>2 DEF Cut, Beginning
  <1>9. AllWhole' => AllWhole
      BY <1>7 DEF AllWhole
  <1>10. FramingKept => FramingKept'
    <2>1. DOMAIN frames = 1 .. Len(frames) /\ Len(frames) \in Nat
        BY DEF TypeOK
    <2> SUFFICES ASSUME FramingKept, NEW i \in 1 .. Len(frames),
                        \A j \in 1 .. i - 1 : Whole(j)'
                 PROVE  Whole(i)' \/ Cut(i)'
        BY <2>1 DEF FramingKept
    <2>2. \A j \in 1 .. i - 1 : j \in 1 .. Len(frames)
        BY <2>1
    <2>3. \A j \in 1 .. i - 1 : Whole(j)
        BY <1>7, <2>2
    <2>4. Whole(i) \/ Cut(i)
        BY <2>1, <2>3 DEF FramingKept
    <2> QED BY <1>7, <1>8, <2>4
  <1> QED BY <1>3, <1>4, <1>5, <1>7, <1>8, <1>9, <1>10

\* A sequence stays one when the set grows.
LEMMA LargerSeq == ASSUME NEW S, NEW T, S \subseteq T, NEW q \in Seq(S) PROVE q \in Seq(T)
  <1>1. q = [i \in 1 .. Len(q) |-> q[i]] /\ Len(q) \in Nat /\ \A i \in 1 .. Len(q) : q[i] \in T
      OBVIOUS
  <1> QED BY <1>1

LEMMA SubmitPipeInv == PipeInv /\ (\E p \in Packets : Submit(p)) => PipeInv'
  <1> SUFFICES ASSUME PipeInv, NEW p \in Packets, Submit(p) PROVE PipeInv'
      OBVIOUS
  <1>1. /\ main = Idle /\ main.doing = "idle" /\ Len(given) < MaxPackets
        /\ main' = [doing |-> "head", written |-> 0]
        /\ main'.doing = "head" /\ main'.written = 0
        /\ given' = Append(given, p)
        /\ UNCHANGED <<pipe, open, reader, frames>>
      BY DEF Submit, Idle
  <1>2. TypeOK /\ Bytes /\ Unfinished /\ ClosedIsEmpty /\ Position /\ FramingKept /\ Behind
      BY DEF PipeInv
  <1>3. given \in Seq(Packets) /\ Len(given) \in Nat /\ Len(given') = Len(given) + 1
      BY <1>1, <1>2 DEF TypeOK
  <1>4. /\ \A n \in 1 .. Len(given) : Length(n)' = Length(n)
        /\ FrameBytes \subseteq FrameBytes'
        /\ AllWhole' => AllWhole
        /\ FramingKept'
      BY <1>1, <1>2, FramesStay
  <1>5. TypeOK'
    <2>1. pipe' \in Seq(FrameBytes')
      <3>1. pipe \in Seq(FrameBytes)
          BY <1>2 DEF TypeOK
      <3> QED BY <1>1, <1>4, <3>1, LargerSeq
    <2>2. frames' \in Seq(Seq(FrameBytes'))
      <3>1. frames \in Seq(Seq(FrameBytes))
          BY <1>2 DEF TypeOK
      <3>2. Seq(FrameBytes) \subseteq Seq(FrameBytes')
          BY <1>4, LargerSeq
      <3> QED BY <1>1, <3>1, <3>2, LargerSeq
    <2>3. given' \in Seq(Packets) /\ given' # <<>> /\ Len(given') <= MaxPackets
        BY <1>1, <1>3, Constants
    <2>4. main' \in [doing : {"idle", "head", "length", "payload"}, written : Nat]
        BY <1>1
    <2>5. main'.written <= Size[given'[Len(given')]]
      <3>1. given'[Len(given')] = p
          BY <1>1, <1>3
      <3> QED BY <1>1, <3>1, Constants
    <2>6. Len(pipe') <= Capacity /\ open' \in BOOLEAN
        BY <1>1, <1>2 DEF TypeOK
    <2>7. /\ reader' \in [doing : {"select", "head", "length", "payload", "ended"}, want : Nat]
          /\ reader'.doing = "payload" => reader'.want > 0
        BY <1>1, <1>2 DEF TypeOK
    <2> QED BY <2>1, <2>2, <2>3, <2>4, <2>5, <2>6, <2>7 DEF TypeOK
  <1>6. Coming' = Coming
    <2>1. NextByte' = NextByte
        BY <1>1, <1>3 DEF NextByte
    <2> QED BY <1>1, <2>1 DEF Coming
  <1>7. Bytes'
    <2>1. \A i \in 1 .. Len(pipe) : Coming[i][1] \in 1 .. Len(given)
        BY <1>2, ByteType
    <2>2. \A n \in 1 .. Len(given) : Lengths'[n] = Lengths[n]
        BY <1>3, <1>4 DEF Lengths
    <2>3. Len(pipe) \in Nat
        BY <1>2, LengthsType
    <2>4. Unbroken(Lengths', Coming, Len(pipe))
        BY <1>2, <1>3, <2>1, <2>2, <2>3, OneMore DEF Bytes
    <2> QED BY <1>1, <1>6, <2>4 DEF Bytes
  <1>8. Unfinished' /\ ClosedIsEmpty'
      BY <1>1, <1>2 DEF Unfinished, ClosedIsEmpty
  <1>9. Position'
    <2> SUFFICES ASSUME open, AllWhole' PROVE Position'
        BY <1>1 DEF Position
    <2>1. AllWhole
        BY <1>4
    <2>2. reader.doing = "payload" => Length(Len(frames) + 1)' = Length(Len(frames) + 1)
      <3>0. \A n \in 1 .. Len(given) : given'[n] = given[n]
          BY <1>1, <1>3
      <3> SUFFICES ASSUME reader.doing = "payload" PROVE Len(frames) + 1 \in 1 .. Len(given)
          BY <1>1, <3>0 DEF Length
      <3>1. Coming[1][1] = Len(frames) + 1 /\ Coming[1][2] = 5
          BY <1>2, <2>1 DEF Position, Coming1
      <3>2. Len(pipe) # 0
        <4> SUFFICES ASSUME Len(pipe) = 0 PROVE FALSE
            OBVIOUS
        <4>1. Coming[1] = NextByte
            BY <1>2, NextType
        <4> QED BY <1>1, <3>1, <4>1 DEF NextByte
      <3>3. 1 \in 1 .. Len(pipe)
          BY <1>2, <3>2, LengthsType
      <3> QED BY <1>2, <3>1, <3>3, ByteType
    <2> QED BY <1>1, <1>2, <1>6, <2>1, <2>2 DEF Position, Coming1
  <1>10. Behind'
      BY <1>1, <1>2, <1>6 DEF Behind, NewestFrame
  <1> QED BY <1>4, <1>5, <1>7, <1>8, <1>9, <1>10 DEF PipeInv

\* The rest of the invariant follows when the writer has kept the stream.
LEMMA WriterKeeps ==
    ASSUME PipeInv, open, UNCHANGED <<open, reader, given, frames>>,
           TypeOK', Bytes', Unfinished',
           Coming'[1][1] = Coming[1][1], Coming'[1][2] = Coming[1][2]
    PROVE  PipeInv'
  <1>1. (AllWhole' <=> AllWhole) /\ (FramingKept' <=> FramingKept)
      BY DEF AllWhole, FramingKept, Whole, Cut, Beginning, Payload, Length
  <1>2. Position'
      BY <1>1 DEF PipeInv, Position, Coming1, Length
  <1>3. Behind'
      BY DEF PipeInv, Behind, NewestFrame
  <1>4. ClosedIsEmpty'
      BY DEF ClosedIsEmpty
  <1> QED BY <1>1, <1>2, <1>3, <1>4 DEF PipeInv

LEMMA WriterTypes ==
    ASSUME TypeOK, UNCHANGED <<open, reader, given, frames>>,
           pipe' \in Seq(FrameBytes), Len(pipe') <= Capacity,
           main' \in [doing : {"idle", "head", "length", "payload"}, written : Nat],
           main'.doing # "idle" => given # <<>> /\ main'.written <= Length(Len(given))
    PROVE  TypeOK'
  <1>1. FrameBytes' = FrameBytes
      BY DEF FrameBytes
  <1> QED BY <1>1 DEF TypeOK, Length

\* What the reader reads next is the byte that it was.
FrontStays == Coming'[1][1] = Coming[1][1] /\ Coming'[1][2] = Coming[1][2]

LEMMA WordPipeInv == PipeInv /\ (WriteHead \/ WriteLength) => PipeInv' /\ FrontStays
  <1> SUFFICES ASSUME PipeInv, NEW doing, NEW next, NEW k, Word(doing, next, k),
                      \/ doing = "head" /\ next = "length" /\ k = 1
                      \/ doing = "length" /\ next = "payload" /\ k = 3
               PROVE  PipeInv' /\ FrontStays
      BY DEF WriteHead, WriteLength
  <1> DEFINE w == Len(given)
  <1>1. TypeOK /\ Bytes /\ Unfinished
      BY DEF PipeInv
  <1>2. /\ open /\ main.doing = doing /\ Room >= 2
        /\ pipe' = pipe \o << <<w, k>>, <<w, k + 1>> >>
        /\ main' = [main EXCEPT !.doing = next]
        /\ UNCHANGED <<open, reader, given, frames>>
      BY DEF Word
  <1>3. main \in [doing : {"idle", "head", "length", "payload"}, written : Nat] /\ main.written = 0
      BY <1>1, <1>2 DEF TypeOK, Unfinished
  <1>4. main' = [doing |-> next, written |-> 0]
      BY <1>2, <1>3
  <1>5. w \in Nat \ {0} /\ Length(w) \in Nat \ {0}
    <2>1. given # <<>> /\ given \in Seq(Packets)
        BY <1>1, <1>2 DEF TypeOK
    <2>2. w \in 1 .. Len(given)
        BY <2>1
    <2> QED BY <1>1, <2>2, LengthOfPacket
  <1>6. /\ pipe \in Seq(FrameBytes) /\ FrameBytes' = FrameBytes
        /\ <<w, k>> \in FrameBytes /\ <<w, k + 1>> \in FrameBytes
    <2>1. pipe \in Seq(FrameBytes) /\ given \in Seq(Packets)
        BY <1>1 DEF TypeOK
    <2>2. w \in DOMAIN given
        BY <1>5, <2>1
    <2> QED BY <1>2, <1>5, <2>1, <2>2 DEF FrameBytes, Length
  <1>7. /\ Len(pipe') = Len(pipe) + 2 /\ pipe' \in Seq(FrameBytes)
        /\ \A i \in 1 .. Len(pipe) : pipe'[i] = pipe[i]
        /\ pipe'[Len(pipe) + 1] = <<w, k>> /\ pipe'[Len(pipe) + 2] = <<w, k + 1>>
      BY <1>2, <1>6
  <1>8. TypeOK'
    <2>1. pipe' \in Seq(FrameBytes) /\ Len(pipe') <= Capacity
      <3>1. Len(pipe) \in Nat /\ Capacity \in Nat
          BY <1>1, Constants, LengthsType
      <3>2. Capacity - Len(pipe) >= 2
          BY <1>2 DEF Room
      <3>3. Len(pipe') = Len(pipe) + 2
          BY <1>7
      <3>4. Len(pipe') <= Capacity
          BY <3>1, <3>2, <3>3
      <3> QED BY <1>7, <3>4
    <2>2. main' \in [doing : {"idle", "head", "length", "payload"}, written : Nat]
        BY <1>4
    <2>3. given # <<>> /\ main'.written <= Length(Len(given))
      <3>1. main.doing # "idle"
          BY <1>2
      <3>2. given # <<>>
          BY <1>1, <3>1 DEF TypeOK
      <3> QED BY <1>4, <1>5, <3>2
    <2> QED BY <1>1, <1>2, <2>1, <2>2, <2>3, WriterTypes
  <1>9. NextByte = <<w, k>> /\ NextByte' = <<w, k + 2>>
    <2>1. Len(given)' = w /\ main'.doing = next /\ main'.written = 0
        BY <1>2, <1>4
    <2>2. CASE doing = "head" /\ next = "length" /\ k = 1
        BY <1>2, <2>1, <2>2 DEF NextByte
    <2>3. CASE doing = "length" /\ next = "payload" /\ k = 3
        BY <1>2, <2>1, <2>3 DEF NextByte
    <2> QED BY <2>2, <2>3
  <1>10. Bytes' /\ Coming'[1][1] = Coming[1][1] /\ Coming'[1][2] = Coming[1][2]
    <2>1. k \in Nat \ {0} /\ k + 2 - 1 < 4 + Length(w)
        BY <1>5
    <2>2. \A i \in Len(pipe) + 1 .. Len(pipe) + 2 : pipe'[i][1] = w /\ pipe'[i][2] = k + i - Len(pipe) - 1
      <3> TAKE i \in Len(pipe) + 1 .. Len(pipe) + 2
      <3>1. /\ i = Len(pipe) + 1 \/ i = Len(pipe) + 2
            /\ i = Len(pipe) + 1 => k + i - Len(pipe) - 1 = k
            /\ i = Len(pipe) + 2 => k + i - Len(pipe) - 1 = k + 1
          BY <1>1, <2>1, LengthsType
      <3>2. CASE i = Len(pipe) + 1
          BY <1>7, <3>1, <3>2
      <3>3. CASE i = Len(pipe) + 2
          BY <1>7, <3>1, <3>3
      <3> QED BY <3>1, <3>2, <3>3
    <2>3. k + 2 - 1 # 4 + Length(w) /\ k + 2 - 1 <= 4 + Length(w) /\ w >= 1
        BY <1>5, <2>1
    <2>4. UNCHANGED given
        BY <1>2
    <2>5. IF k + 2 - 1 = 4 + Length(Len(given)) THEN NextByte' = <<Len(given) + 1, 1>>
          ELSE NextByte' = <<Len(given), k + 2>>
        BY <1>9, <2>3
    <2>6. 2 \in Nat \ {0} /\ k \in Nat \ {0}
        BY <2>1
    <2> QED BY <1>1, <1>7, <1>9, <2>2, <2>3, <2>4, <2>5, <2>6, Wrote, Zenon
  <1>11. Unfinished'
    <2>1. Length(Len(given))' = Length(w)
        BY <1>2 DEF Length
    <2> QED BY <1>4, <1>5, <2>1 DEF Unfinished
  <1>12. PipeInv'
      BY <1>2, <1>8, <1>10, <1>11, WriterKeeps
  <1> QED BY <1>10, <1>12 DEF FrontStays

LEMMA WritePayloadPipeInv == PipeInv /\ WritePayload => PipeInv' /\ FrontStays
  <1> SUFFICES ASSUME PipeInv, WritePayload PROVE PipeInv' /\ FrontStays
      OBVIOUS
  <1> DEFINE w == Len(given)
             rest == SubSeq(Payload(w), main.written + 1, Length(w))
             n == IF Length(w) <= Atomic THEN Length(w) ELSE Least(Len(rest), Room)
             k == 5 + main.written
  <1>1. TypeOK /\ Bytes /\ Unfinished
      BY DEF PipeInv
  <1>2. /\ main.doing = "payload" /\ open /\ 0 < n /\ n <= Room
        /\ pipe' = pipe \o SubSeq(rest, 1, n)
        /\ main' = IF n = Len(rest) THEN Idle ELSE [main EXCEPT !.written = @ + n]
        /\ UNCHANGED <<open, reader, given, frames>>
      BY DEF WritePayload
  <1>3. /\ main \in [doing : {"idle", "head", "length", "payload"}, written : Nat]
        /\ main.written \in Nat /\ main.written < Length(w)
        /\ main.written > 0 => Length(w) > Atomic
      BY <1>1, <1>2 DEF TypeOK, Unfinished
  <1>4. w \in Nat \ {0} /\ w \in DOMAIN given /\ Length(w) \in Nat \ {0}
    <2>1. given # <<>> /\ given \in Seq(Packets)
        BY <1>1, <1>2 DEF TypeOK
    <2>2. w \in 1 .. Len(given) /\ DOMAIN given = 1 .. Len(given)
        BY <2>1
    <2> QED BY <1>1, <2>2, LengthOfPacket
  <1>5. /\ Payload(w) \in Seq(FrameBytes) /\ Len(Payload(w)) = Length(w)
        /\ \A i \in 1 .. Length(w) : Payload(w)[i] = <<w, 4 + i>>
    <2>1. \A i \in 1 .. Length(w) : <<w, 4 + i>> \in FrameBytes
      <3> TAKE i \in 1 .. Length(w)
      <3>1. 4 + i \in 1 .. 4 + Length(w) /\ 4 + i \in Nat
          BY <1>4
      <3> QED BY <1>4, <3>1 DEF FrameBytes, Length
    <2> QED BY <1>4, <2>1 DEF Payload
  <1>6. /\ rest \in Seq(FrameBytes) /\ Len(rest) = Length(w) - main.written
        /\ \A i \in 1 .. Len(rest) : rest[i] = <<w, 4 + main.written + i>>
    <2> HIDE DEF w
    <2>0. /\ main.written + 1 \in Int /\ Length(w) \in Int
          /\ main.written + 1 <= Length(w) /\ Length(w) - (main.written + 1) + 1 = Length(w) - main.written
        BY <1>3, <1>4
    <2>1. \A i \in main.written + 1 .. Length(w) : Payload(w)[i] \in FrameBytes
        BY <1>3, <1>4, <1>5
    <2>2. /\ rest \in Seq(FrameBytes) /\ Len(rest) = Length(w) - main.written
          /\ \A i \in 1 .. Length(w) - main.written : rest[i] = Payload(w)[main.written + 1 + i - 1]
        BY <2>0, <2>1, SubSeqProperties
    <2>3. ASSUME NEW i \in 1 .. Len(rest) PROVE rest[i] = <<w, 4 + main.written + i>>
      <3>1. /\ main.written + 1 + i - 1 \in 1 .. Length(w)
            /\ 4 + (main.written + 1 + i - 1) = 4 + main.written + i
          BY <1>3, <1>4, <2>2
      <3>2. rest[i] = Payload(w)[main.written + 1 + i - 1]
          BY <2>2
      <3> QED BY <1>5, <3>1, <3>2
    <2> QED BY <2>2, <2>3
  <1>7. Room \in Int /\ n \in Nat \ {0} /\ n <= Len(rest) /\ (n # Len(rest) => Length(w) > Atomic)
    <2>1. Room \in Int
        BY <1>1, Constants, LengthsType DEF Room
    <2>2. CASE Length(w) <= Atomic
      <3>1. main.written = 0
          BY <1>3, <1>4, <2>2, Constants
      <3> QED BY <1>4, <1>6, <2>1, <2>2, <3>1
    <2>3. CASE ~(Length(w) <= Atomic)
      <3>1. n = Least(Len(rest), Room) /\ Len(rest) \in Nat
          BY <1>3, <1>4, <1>6, <2>3
      <3>2. n \in Int /\ n <= Len(rest)
        <4> HIDE DEF rest, n, w
        <4> QED BY <2>1, <3>1 DEF Least
      <3>3. Length(w) > Atomic
          BY <1>4, <2>3, Constants
      <3> HIDE DEF rest, n, w
      <3> QED BY <1>2, <2>1, <3>2, <3>3
    <2> QED BY <2>2, <2>3
  <1>8. /\ SubSeq(rest, 1, n) \in Seq(FrameBytes) /\ Len(SubSeq(rest, 1, n)) = n
        /\ \A i \in 1 .. n : SubSeq(rest, 1, n)[i] = <<w, 4 + main.written + i>>
    <2> HIDE DEF w, rest, n
    <2>1. \A i \in 1 .. n : rest[i] \in FrameBytes
        BY <1>6, <1>7
    <2>2. /\ SubSeq(rest, 1, n) \in Seq(FrameBytes) /\ Len(SubSeq(rest, 1, n)) = n - 1 + 1
          /\ \A i \in 1 .. n - 1 + 1 : SubSeq(rest, 1, n)[i] = rest[1 + i - 1]
        BY <1>7, <2>1, SubSeqProperties
    <2>3. n - 1 + 1 = n /\ \A i \in 1 .. n : 1 + i - 1 = i /\ i \in 1 .. Len(rest)
        BY <1>6, <1>7
    <2> QED BY <1>6, <2>2, <2>3
  <1>9. /\ pipe \in Seq(FrameBytes) /\ FrameBytes' = FrameBytes /\ Len(pipe) \in Nat
        /\ pipe' \in Seq(FrameBytes) /\ Len(pipe') = Len(pipe) + n
        /\ \A i \in 1 .. Len(pipe) : pipe'[i] = pipe[i]
        /\ \A i \in Len(pipe) + 1 .. Len(pipe) + n : pipe'[i][1] = w /\ pipe'[i][2] = k + i - Len(pipe) - 1
    <2> DEFINE part == SubSeq(rest, 1, n)
    <2>0. part \in Seq(FrameBytes) /\ Len(part) = n /\ pipe' = pipe \o part
          /\ \A i \in 1 .. n : part[i] = <<w, 4 + main.written + i>>
        BY <1>2, <1>8
    <2>1. pipe \in Seq(FrameBytes) /\ FrameBytes' = FrameBytes /\ Len(pipe) \in Nat
        BY <1>1, <1>2 DEF TypeOK, FrameBytes
    <2> HIDE DEF part, w, n
    <2>2. /\ pipe' \in Seq(FrameBytes) /\ Len(pipe') = Len(pipe) + n
          /\ \A i \in 1 .. Len(pipe) + n : pipe'[i] = IF i <= Len(pipe) THEN pipe[i] ELSE part[i - Len(pipe)]
        BY <2>0, <2>1, ConcatProperties
    <2>3. \A i \in 1 .. Len(pipe) : i \in 1 .. Len(pipe) + n /\ i <= Len(pipe)
        BY <1>7, <2>1
    <2>4. ASSUME NEW i \in Len(pipe) + 1 .. Len(pipe) + n
          PROVE  pipe'[i][1] = w /\ pipe'[i][2] = k + i - Len(pipe) - 1
      <3>1. i \in 1 .. Len(pipe) + n /\ ~(i <= Len(pipe)) /\ i - Len(pipe) \in 1 .. n
            /\ 4 + main.written + (i - Len(pipe)) = k + i - Len(pipe) - 1
          BY <1>3, <1>7, <2>1
      <3>2. pipe'[i] = part[i - Len(pipe)]
          BY <2>2, <3>1
      <3>3. pipe'[i] = <<w, 4 + main.written + (i - Len(pipe))>>
          BY <2>0, <3>1, <3>2
      <3> QED BY <3>1, <3>3
    <2> QED BY <2>1, <2>2, <2>3, <2>4
  <1>10. Len(pipe') <= Capacity
    <2> HIDE DEF n, rest, w, k
    <2>1. n <= Capacity - Len(pipe) /\ Len(pipe') = Len(pipe) + n
        BY <1>2, <1>9 DEF Room
    <2> QED BY <1>7, <1>9, <2>1, Constants
  <1>11. given # <<>> /\ Length(Len(given))' = Length(w) /\ Len(given') = w
      BY <1>1, <1>2 DEF TypeOK, Length
  <1>12. /\ Bytes /\ k \in Nat \ {0} /\ NextByte = <<w, k>> /\ k + n - 1 <= 4 + Length(w) /\ w >= 1
         /\ k + n - 1 = 4 + Length(w) <=> n = Len(rest)
    <2>1. NextByte = <<w, k>>
        BY <1>2 DEF NextByte
    <2>2. Len(rest) = Length(w) - main.written
        BY <1>6
    <2>3. /\ k \in Nat \ {0} /\ k + n - 1 <= 4 + Length(w) /\ w >= 1
          /\ k + n - 1 = 4 + Length(w) <=> n = Len(rest)
      <3> HIDE DEF n, rest, w
      <3> QED BY <1>3, <1>4, <1>7, <2>2
    <2> QED BY <1>1, <2>1, <2>3
  <1>13. /\ TypeOK' /\ Unfinished'
         /\ IF n = Len(rest) THEN NextByte' = <<w + 1, 1>> ELSE NextByte' = <<w, k + n>>
    <2>1. CASE n = Len(rest)
      <3>1. main' = Idle /\ main'.doing = "idle" /\ main'.written = 0
          BY <1>2, <2>1 DEF Idle
      <3>2. main' \in [doing : {"idle", "head", "length", "payload"}, written : Nat]
          BY <3>1 DEF Idle
      <3>3. TypeOK'
          BY <1>1, <1>2, <1>9, <1>10, <3>1, <3>2, WriterTypes
      <3>4. Unfinished'
          BY <3>1 DEF Unfinished
      <3>5. NextByte' = <<w + 1, 1>>
          BY <1>11, <3>1 DEF NextByte
      <3> QED BY <2>1, <3>3, <3>4, <3>5
    <2>2. CASE n # Len(rest)
      <3>1. main' = [main EXCEPT !.written = @ + n]
          BY <1>2, <2>2
      <3> HIDE DEF n, rest
      <3>2. main'.doing = "payload" /\ main'.written = main.written + n
          BY <1>2, <1>3, <3>1
      <3>3. main' \in [doing : {"idle", "head", "length", "payload"}, written : Nat]
          BY <1>3, <1>7, <3>1
      <3>4. main.written + n < Length(w) /\ main.written + n <= Length(w) /\ Length(w) > Atomic
          BY <1>3, <1>4, <1>6, <1>7, <2>2
      <3>5. TypeOK'
          BY <1>1, <1>2, <1>9, <1>10, <1>11, <3>2, <3>3, <3>4, WriterTypes
      <3>6. Unfinished'
          BY <1>11, <3>2, <3>4 DEF Unfinished
      <3>7. NextByte' = <<w, k + n>>
        <4>1. NextByte' = <<w, 5 + (main.written + n)>>
            BY <1>11, <3>2 DEF NextByte
        <4>2. 5 + (main.written + n) = k + n
            BY <1>3, <1>7
        <4> QED BY <4>1, <4>2
      <3> QED BY <2>2, <3>5, <3>6, <3>7
    <2> QED BY <2>1, <2>2
  <1>14. Bytes' /\ Coming'[1][1] = Coming[1][1] /\ Coming'[1][2] = Coming[1][2]
    <2>1. UNCHANGED given /\ TypeOK
        BY <1>1, <1>2
    <2> HIDE DEF n, rest, k
    <2> QED BY <1>7, <1>9, <1>12, <1>13, <2>1, Wrote
  <1>15. PipeInv'
      BY <1>2, <1>13, <1>14, WriterKeeps
  <1> QED BY <1>14, <1>15 DEF FrontStays

LEMMA NewestGiven == TypeOK /\ Behind /\ frames # <<>> => NewestFrame \in 1 .. Len(given)
  <1> SUFFICES ASSUME TypeOK, Behind, frames # <<>> PROVE NewestFrame \in 1 .. Len(given)
      OBVIOUS
  <1>1. frames \in Seq(Seq(FrameBytes)) /\ given \in Seq(Packets)
      BY DEF TypeOK
  <1>2. Len(frames) \in 1 .. Len(frames)
      BY <1>1
  <1>3. frames[Len(frames)] \in Seq(FrameBytes) /\ frames[Len(frames)] # <<>>
      BY <1>1, <1>2 DEF Behind
  <1>4. frames[Len(frames)][1] \in FrameBytes
      BY <1>3
  <1>5. DOMAIN given = 1 .. Len(given)
      BY <1>1
  <1> QED BY <1>4, <1>5 DEF FrameBytes, NewestFrame

\* The pipe is empty and stays so.
LEMMA DroppedPipeInv == PipeInv /\ (WriteFails \/ Close \/ ProcessEnds) => PipeInv'
  <1> SUFFICES ASSUME PipeInv, WriteFails \/ Close \/ ProcessEnds PROVE PipeInv'
      OBVIOUS
  <1>1. TypeOK /\ Unfinished /\ ClosedIsEmpty /\ FramingKept /\ Behind
      BY DEF PipeInv
  <1>2. /\ pipe' = <<>> /\ ~open' /\ open' \in BOOLEAN
        /\ reader' = reader \/ reader' = Waits("ended")
        /\ UNCHANGED <<given, frames>>
        /\ main' = Idle
    <2>1. CASE WriteFails
      <3>1. ~open /\ main' = Idle /\ UNCHANGED <<pipe, open, reader, given, frames>>
          BY <2>1 DEF WriteFails
      <3>2. pipe = <<>> /\ open \in BOOLEAN
          BY <1>1, <3>1 DEF ClosedIsEmpty, TypeOK
      <3> QED BY <3>1, <3>2
    <2>2. CASE Close
        BY <2>2 DEF Close
    <2>3. CASE ProcessEnds
        BY <2>3 DEF ProcessEnds
    <2> QED BY <2>1, <2>2, <2>3
  <1>3. main'.doing = "idle" /\ main'.written = 0 /\ Len(pipe') = 0
      BY <1>2 DEF Idle
  <1>4. FrameBytes' = FrameBytes
      BY <1>2 DEF FrameBytes
  <1>5. TypeOK'
    <2>1. pipe' \in Seq(FrameBytes') /\ Len(pipe') <= Capacity
        BY <1>2, <1>3, Constants
    <2>2. main' \in [doing : {"idle", "head", "length", "payload"}, written : Nat]
        BY <1>2 DEF Idle
    <2>3. /\ reader' \in [doing : {"select", "head", "length", "payload", "ended"}, want : Nat]
          /\ reader'.doing = "payload" => reader'.want > 0
        BY <1>1, <1>2 DEF TypeOK, Waits
    <2>4. /\ given' \in Seq(Packets) /\ Len(given') <= MaxPackets
          /\ frames' \in Seq(Seq(FrameBytes'))
        BY <1>1, <1>2, <1>4 DEF TypeOK
    <2> QED BY <1>2, <1>3, <2>1, <2>2, <2>3, <2>4 DEF TypeOK
  <1>6. Bytes'
      BY <1>3 DEF Bytes, Unbroken
  <1>7. Unfinished' /\ ClosedIsEmpty' /\ Position'
      BY <1>2, <1>3 DEF Unfinished, ClosedIsEmpty, Position
  <1>8. FramingKept'
      BY <1>1, <1>2 DEF FramingKept, Whole, Cut, Beginning, Payload, Length
  <1>9. Behind'
    <2>1. NextByte' = <<Len(given) + 1, 1>>
        BY <1>2, <1>3 DEF NextByte
    <2>2. Coming'[1] = <<Len(given) + 1, 1>>
        BY <1>3, <2>1 DEF Coming
    <2>3. Len(given) \in Nat
        BY <1>1, LengthsType
    <2>4. frames # <<>> => NewestFrame <= Len(given) + 1
        BY <1>1, <2>3, NewestGiven
    <2> QED BY <1>1, <1>2, <2>2, <2>4 DEF Behind, NewestFrame
  <1> QED BY <1>5, <1>6, <1>7, <1>8, <1>9 DEF PipeInv

LEMMA WaitPipeInv == PipeInv /\ (SelectReturns \/ EdgeEnd \/ ReadFails) => PipeInv'
  <1> SUFFICES ASSUME PipeInv, SelectReturns \/ EdgeEnd \/ ReadFails PROVE PipeInv'
      OBVIOUS
  <1>1. TypeOK /\ Bytes /\ Unfinished /\ ClosedIsEmpty /\ Position /\ FramingKept /\ Behind
      BY DEF PipeInv
  <1>2. /\ UNCHANGED <<pipe, open, main, given, frames>>
        /\ \/ reader.doing = "select" /\ reader'.doing \in {"head", "ended"}
           \/ ~open /\ reader'.doing = "select"
        /\ reader' \in [doing : {"select", "head", "length", "payload", "ended"}, want : Nat]
      BY DEF SelectReturns, EdgeEnd, ReadFails, Select, Waits
  <1>3. TypeOK'
    <2>1. FrameBytes' = FrameBytes
        BY <1>2 DEF FrameBytes
    <2> QED BY <1>1, <1>2, <2>1 DEF TypeOK
  <1>4. Coming' = Coming /\ Lengths' = Lengths
      BY <1>2 DEF Coming, NextByte, Lengths, Length
  <1>5. Bytes' /\ Unfinished'
      BY <1>1, <1>2, <1>4 DEF Bytes, Unfinished, Length
  <1>6. ClosedIsEmpty' /\ Behind'
      BY <1>1, <1>2, <1>4 DEF ClosedIsEmpty, Behind, NewestFrame
  <1>7. FramingKept' /\ (AllWhole' <=> AllWhole)
    <2>1. given' = given /\ frames' = frames
        BY <1>2
    <2>2. FramingKept' = FramingKept
        BY <2>1 DEF FramingKept, Whole, Cut, Beginning, Payload, Length
    <2>3. AllWhole' = AllWhole
        BY <2>1 DEF AllWhole, Whole, Payload, Length
    <2> QED BY <1>1, <2>2, <2>3
  <1>8. Position'
      BY <1>1, <1>2, <1>4, <1>7 DEF Position, Coming1
  <1> QED BY <1>3, <1>5, <1>6, <1>7, <1>8 DEF PipeInv

\* What comes first in the pipe is the rest of a payload.
LEMMA FromTheFront ==
    ASSUME Bytes, NEW n \in Nat, Lengths[n] \in Nat, Len(pipe) \in Nat, Coming[1] = <<n, 5>>,
           \A i \in 1 .. Len(pipe) + 1 : Coming[i] \in Nat \X Nat
    PROVE  \A j \in 1 .. Len(pipe) + 1 : j <= Lengths[n] => Coming[j] = <<n, 4 + j>>
  <1>1. AtPayload(Lengths, Coming, Len(pipe), n)
      BY DEF AtPayload, Bytes
  <1>2. PayloadBytes(Lengths, Coming, Len(pipe), n)
      BY <1>1, PayloadFollows
  <1> QED BY <1>2 DEF PayloadBytes

\* What the pipe is like when the reader has taken up to n bytes.
LEMMA ReadTakes ==
    ASSUME PipeInv, NEW n \in Nat \ {0}, Read(n), UNCHANGED <<open, main, given>>
    PROVE  /\ open /\ Bytes' /\ Unfinished'
           /\ \E m \in 1 .. Len(pipe) :
                 /\ m <= n /\ (m < n => m = Len(pipe))
                 /\ Taken(n) = SubSeq(pipe, 1, m)
                 /\ Len(pipe') = Len(pipe) - m
                 /\ \A i \in 1 .. Len(pipe') + 1 : Coming'[i] = Coming[i + m]
                 /\ pipe' \in Seq(FrameBytes) /\ Len(pipe') <= Capacity
  <1>1. TypeOK /\ Bytes /\ Unfinished /\ ClosedIsEmpty
      BY DEF PipeInv
  <1>2. Len(pipe) \in Nat \ {0} /\ pipe \in Seq(FrameBytes)
      BY <1>1 DEF TypeOK, Read
  <1> DEFINE m == Least(n, Len(pipe))
  <1>3. m \in 1 .. Len(pipe) /\ m <= n /\ (m < n => m = Len(pipe))
      BY <1>2 DEF Least
  <1>4. Taken(n) = SubSeq(pipe, 1, m) /\ Len(Taken(n)) = m
    <2>1. Taken(n) = SubSeq(pipe, 1, m)
        BY DEF Taken
    <2> HIDE DEF m
    <2> QED BY <1>2, <1>3, <2>1
  <1>5. pipe' = SubSeq(pipe, m + 1, Len(pipe))
      BY <1>4 DEF Read
  <1>6. /\ Bytes' /\ Len(pipe') = Len(pipe) - m
        /\ \A i \in 1 .. Len(pipe') + 1 : Coming'[i] = Coming[i + m]
    <2> HIDE DEF m
    <2> QED BY <1>1, <1>3, <1>5, Took
  <1>7. pipe' \in Seq(FrameBytes) /\ Len(pipe') <= Capacity
    <2> HIDE DEF m
    <2>1. pipe' \in Seq(FrameBytes)
        BY <1>2, <1>3, <1>5
    <2> QED BY <1>1, <1>2, <1>3, <1>6, <2>1, Constants DEF TypeOK
  <1>8. open
      BY <1>1 DEF Read, ClosedIsEmpty
  <1>9. Unfinished'
      BY <1>1 DEF Unfinished, Length
  <1> HIDE DEF m
  <1> QED BY <1>3, <1>4, <1>6, <1>7, <1>8, <1>9

\* A later byte is of the same packet or of a later one.
LEMMA Ascends ==
    ASSUME TypeOK, Bytes, NEW m \in 1 .. Len(pipe)
    PROVE  /\ Coming[1] = pipe[1] /\ pipe[1][1] \in 1 .. Len(given)
           /\ Coming[m + 1][1] \in Nat
           /\ Coming[1][1] <= Coming[m + 1][1]
           /\ Coming[1][1] = Coming[m + 1][1] => Coming[m + 1][2] = Coming[1][2] + m
  <1>1. Len(pipe) \in Nat /\ 1 \in 1 .. Len(pipe)
      BY LengthsType
  <1>2. Coming[1] = pipe[1] /\ pipe[1][1] \in 1 .. Len(given)
      BY <1>1, ByteType
  <1>3. Coming[m + 1][1] \in Nat
    <2>1. CASE m < Len(pipe)
      <3>1. m + 1 \in 1 .. Len(pipe)
          BY <1>1, <2>1
      <3>2. Coming[m + 1] = pipe[m + 1] /\ pipe[m + 1][1] \in 1 .. Len(given)
          BY <3>1, ByteType
      <3> QED BY <3>2, LengthsType
    <2>2. CASE m = Len(pipe)
        BY <2>2, NextType
    <2> QED BY <1>1, <2>1, <2>2
  <1>4. m + 1 \in 1 .. Len(pipe) + 1 /\ 1 < m + 1
      BY <1>1
  <1>5. After(Lengths, Coming[1], Coming[m + 1], (m + 1) - 1)
      BY <1>1, <1>4 DEF Bytes, Unbroken
  <1>6. (m + 1) - 1 = m
      BY <1>1
  <1> QED BY <1>2, <1>3, <1>5, <1>6 DEF After

\* What remains to be shown of a step that reads and returns nothing yet.
LEMMA ReaderKeeps ==
    ASSUME PipeInv, NEW n \in Nat \ {0}, Read(n), UNCHANGED <<open, main, given, frames>>,
           reader' \in [doing : {"select", "head", "length", "payload", "ended"}, want : Nat],
           reader'.doing = "payload" => reader'.want > 0,
           Position'
    PROVE  PipeInv'
  <1>1. TypeOK /\ Bytes /\ FramingKept /\ Behind
      BY DEF PipeInv
  <1>2. PICK m \in 1 .. Len(pipe) :
           /\ Len(pipe') = Len(pipe) - m
           /\ \A i \in 1 .. Len(pipe') + 1 : Coming'[i] = Coming[i + m]
           /\ pipe' \in Seq(FrameBytes) /\ Len(pipe') <= Capacity
      BY ReadTakes
  <1>3. open /\ Bytes' /\ Unfinished'
      BY ReadTakes
  <1>4. TypeOK'
    <2>1. FrameBytes' = FrameBytes
        BY DEF FrameBytes
    <2> QED BY <1>1, <1>2, <2>1 DEF TypeOK
  <1>5. FramingKept' /\ ClosedIsEmpty'
    <2>1. given' = given /\ frames' = frames
        OBVIOUS
    <2>2. FramingKept' = FramingKept
        BY <2>1 DEF FramingKept, Whole, Cut, Beginning, Payload, Length
    <2> QED BY <1>1, <1>3, <2>2 DEF ClosedIsEmpty
  <1>6. Behind'
    <2>1. 1 \in 1 .. Len(pipe') + 1 /\ 1 + m = m + 1
        BY <1>1, <1>2, LengthsType
    <2>2. Coming'[1] = Coming[m + 1]
        BY <1>2, <2>1
    <2>3. frames # <<>> => NewestFrame <= Coming[m + 1][1]
      <3> SUFFICES ASSUME frames # <<>> PROVE NewestFrame <= Coming[m + 1][1]
          OBVIOUS
      <3>1. NewestFrame \in 1 .. Len(given) /\ NewestFrame <= Coming[1][1]
          BY <1>1, NewestGiven DEF Behind
      <3>2. Coming[1][1] \in 1 .. Len(given) /\ Coming[m + 1][1] \in Nat /\ Coming[1][1] <= Coming[m + 1][1]
          BY <1>1, Ascends
      <3> QED BY <3>1, <3>2
    <2> QED BY <1>1, <2>2, <2>3 DEF Behind, NewestFrame
  <1> QED BY <1>3, <1>4, <1>5, <1>6 DEF PipeInv

LEMMA MoreThanOne == \A l \in Nat : l > 1 <=> l # 0 /\ l # 1
  OBVIOUS

\* Where nothing was cut, the reader at the k-th byte of head or length reads this
\* byte and the next one, and comes to the one after them.
LEMMA TwoBytes ==
    ASSUME TypeOK, Bytes, Len(pipe) > 0, NEW n \in Nat, NEW k \in {1, 3}, Coming1(n, k)
    PROVE  /\ Len(pipe) > 1 /\ n \in 1 .. Len(given)
           /\ pipe[1] = <<n, k>> /\ pipe[2] = <<n, k + 1>>
           /\ Coming[3][1] = n /\ Coming[3][2] = k + 2
  <1>1. Len(pipe) \in Nat /\ 1 \in 1 .. Len(pipe)
      BY LengthsType
  <1>2. pipe[1] = <<n, k>> /\ n \in 1 .. Len(given) /\ Coming[1] = pipe[1]
    <2>1. Coming[1] = pipe[1] /\ pipe[1] = <<pipe[1][1], pipe[1][2]>> /\ pipe[1][1] \in 1 .. Len(given)
        BY <1>1, ByteType
    <2> QED BY <2>1 DEF Coming1
  <1>3. Lengths[n] \in Nat \ {0}
      BY <1>2, LengthsType, LengthOfPacket
  <1>4. Coming[2][1] = n /\ Coming[2][2] = k + 1
    <2>1. Follows(Lengths, Coming[1], Coming[1 + 1])
        BY <1>1 DEF Bytes, Unbroken
    <2> QED BY <1>2, <1>3, <2>1 DEF Follows
  <1>5. Len(pipe) > 1
    <2>1. ASSUME Len(pipe) = 1 PROVE FALSE
      <3>1. Coming[2] = NextByte
        <4>1. Coming[Len(pipe) + 1] = NextByte
            BY NextType
        <4> QED BY <2>1, <4>1
      <3>2. NextByte[2] \in {1, 3} \/ NextByte[2] > 4
          BY DEF NextByte, TypeOK
      <3>3. NextByte[2] = k + 1 /\ k + 1 \in {2, 4}
          BY <1>4, <3>1
      <3> QED BY <3>2, <3>3
    <2>2. Len(pipe) # 1 /\ Len(pipe) # 0
        BY <2>1
    <2> QED BY <1>1, <2>2, MoreThanOne
  <1>6. 2 \in 1 .. Len(pipe)
      BY <1>1, <1>5
  <1>7. pipe[2] = <<n, k + 1>>
    <2>1. Coming[2] = pipe[2] /\ pipe[2] = <<pipe[2][1], pipe[2][2]>>
        BY <1>6, ByteType
    <2> QED BY <1>4, <2>1
  <1>8. Coming[3][1] = n /\ Coming[3][2] = k + 2
    <2>1. Follows(Lengths, Coming[2], Coming[2 + 1])
        BY <1>6 DEF Bytes, Unbroken
    <2> QED BY <1>3, <1>4, <2>1 DEF Follows
  <1> QED BY <1>2, <1>5, <1>7, <1>8

LEMMA ReadHeadPipeInv == PipeInv /\ ReadHead => PipeInv'
  <1> SUFFICES ASSUME PipeInv, ReadHead PROVE PipeInv'
      OBVIOUS
  <1>1. TypeOK /\ Bytes /\ Position
      BY DEF PipeInv
  <1>2. /\ reader.doing = "head" /\ Read(2) /\ UNCHANGED <<open, main, given, frames>>
        /\ reader' = CASE Len(pipe) = 1 -> Select
                        [] Len(pipe) > 1 /\ IsHead(pipe) -> Waits("length")
                        [] OTHER -> reader
      BY DEF ReadHead
  <1>3. /\ reader' \in [doing : {"select", "head", "length", "payload", "ended"}, want : Nat]
        /\ reader'.doing # "payload"
      BY <1>1, <1>2 DEF TypeOK, Select, Waits
  <1>4. Position'
    <2> SUFFICES ASSUME open', AllWhole'
                 PROVE  reader'.doing = "length" /\ Coming1(Len(frames) + 1, 3)'
        BY <1>2 DEF Position, Coming1
    <2>1. open /\ AllWhole
        BY <1>2 DEF AllWhole, Whole, Payload, Length
    <2>2. Coming1(Len(frames) + 1, 1)
        BY <1>1, <1>2, <2>1 DEF Position
    <2>3. Len(pipe) > 0 /\ Len(frames) + 1 \in Nat
        BY <1>1, <1>2 DEF TypeOK, Read
    <2>4. /\ Len(pipe) > 1
          /\ pipe[1] = <<Len(frames) + 1, 1>> /\ pipe[2] = <<Len(frames) + 1, 2>>
          /\ Coming[3][1] = Len(frames) + 1 /\ Coming[3][2] = 3
        BY <1>1, <2>2, <2>3, TwoBytes
    <2>5. IsHead(pipe)
        BY <2>4 DEF IsHead
    <2>6. reader' = Waits("length") /\ reader'.doing = "length"
        BY <1>1, <1>2, <2>4, <2>5, LengthsType DEF Waits
    <2>7. PICK m \in 1 .. Len(pipe) :
             /\ m <= 2 /\ (m < 2 => m = Len(pipe))
             /\ Len(pipe') = Len(pipe) - m
             /\ \A i \in 1 .. Len(pipe') + 1 : Coming'[i] = Coming[i + m]
      <3>1. Read(2) /\ UNCHANGED <<open, main, given>>
          BY DEF ReadHead
      <3>2. 2 \in Nat \ {0}
          OBVIOUS
      <3> QED BY <3>1, <3>2, ReadTakes
    <2>8. m = 2 /\ 1 \in 1 .. Len(pipe') + 1
        BY <1>1, <2>4, <2>7, LengthsType
    <2>9. Coming'[1] = Coming[3]
        BY <2>7, <2>8
    <2> QED BY <1>2, <2>4, <2>6, <2>9 DEF Coming1
  <1> QED BY <1>2, <1>3, <1>4, ReaderKeeps

LEMMA ReadLengthPipeInv == PipeInv /\ ReadLength => PipeInv'
  <1> SUFFICES ASSUME PipeInv, ReadLength PROVE PipeInv'
      OBVIOUS
  <1>1. TypeOK /\ Bytes /\ Position
      BY DEF PipeInv
  <1>2. /\ reader.doing = "length" /\ Read(2) /\ UNCHANGED <<open, main, given, frames>>
        /\ reader' = IF Len(pipe) = 1 THEN Select
                     ELSE [doing |-> "payload", want |-> LengthOf(pipe)]
      BY DEF ReadLength
  <1>3. Len(pipe) \in Nat \ {0} /\ Len(frames) + 1 \in Nat
      BY <1>1, <1>2 DEF TypeOK, Read
  <1>4. LengthOf(pipe) \in Nat \ {0}
    <2>1. 1 \in 1 .. Len(pipe)
        BY <1>3
    <2>2. pipe[1][1] \in 1 .. Len(given)
        BY <1>1, <2>1, ByteType
    <2> QED BY <1>1, <2>2, LengthOfPacket, Constants DEF LengthOf
  <1>5. /\ reader' \in [doing : {"select", "head", "length", "payload", "ended"}, want : Nat]
        /\ reader'.doing = "payload" => reader'.want > 0
      BY <1>2, <1>4 DEF Select, Waits
  <1>6. Position'
    <2> SUFFICES ASSUME open', AllWhole'
                 PROVE  /\ reader'.doing = "payload" /\ Coming1(Len(frames) + 1, 5)'
                        /\ reader'.want = Length(Len(frames) + 1)
        BY <1>2 DEF Position, Coming1, Length
    <2>1. open /\ AllWhole
        BY <1>2 DEF AllWhole, Whole, Payload, Length
    <2>2. Coming1(Len(frames) + 1, 3)
        BY <1>1, <1>2, <2>1 DEF Position
    <2>4. /\ Len(pipe) > 1
          /\ pipe[1] = <<Len(frames) + 1, 3>>
          /\ Coming[3][1] = Len(frames) + 1 /\ Coming[3][2] = 5
        BY <1>1, <1>3, <2>2, TwoBytes
    <2>5. LengthOf(pipe) = Length(Len(frames) + 1)
        BY <2>4 DEF LengthOf
    <2>6. reader' = [doing |-> "payload", want |-> LengthOf(pipe)]
      <3>1. Len(pipe) > 1
          BY <2>4
      <3>2. Len(pipe) # 1
          BY <1>3, <3>1, MoreThanOne
      <3> QED BY <1>2, <3>2
    <2>7. PICK m \in 1 .. Len(pipe) :
             /\ m <= 2 /\ (m < 2 => m = Len(pipe))
             /\ Len(pipe') = Len(pipe) - m
             /\ \A i \in 1 .. Len(pipe') + 1 : Coming'[i] = Coming[i + m]
      <3>1. Read(2) /\ UNCHANGED <<open, main, given>>
          BY DEF ReadLength
      <3>2. 2 \in Nat \ {0}
          OBVIOUS
      <3> QED BY <3>1, <3>2, ReadTakes
    <2>8. m = 2 /\ 1 \in 1 .. Len(pipe') + 1
        BY <1>1, <2>4, <2>7, LengthsType
    <2>9. Coming'[1] = Coming[3]
        BY <2>7, <2>8
    <2> QED BY <1>2, <2>4, <2>5, <2>6, <2>9 DEF Coming1
  <1> QED BY <1>2, <1>5, <1>6, ReaderKeeps

\* What tuntap_read returns where nothing was cut before: the payload that is next,
\* or, if the pipe does not hold all of it, the beginning of a payload that the
\* writer has not finished.
LEMMA PayloadRead ==
    ASSUME TypeOK, Bytes, Unfinished, NEW n \in Nat, Coming1(n, 5),
           NEW m \in 1 .. Len(pipe), m <= Length(n), m < Length(n) => m = Len(pipe)
    PROVE  /\ n \in 1 .. Len(given)
           /\ SubSeq(pipe, 1, m) = SubSeq(Payload(n), 1, m)
           /\ m = Length(n) => Coming[m + 1][1] = n + 1 /\ Coming[m + 1][2] = 1
           /\ m < Length(n) => Length(n) > Atomic
  <1>1. Len(pipe) \in Nat /\ 1 \in 1 .. Len(pipe)
      BY LengthsType
  <1>2. n \in 1 .. Len(given) /\ Coming[1] = <<n, 5>>
    <2>1. Coming[1] = pipe[1] /\ pipe[1] = <<pipe[1][1], pipe[1][2]>> /\ pipe[1][1] \in 1 .. Len(given)
        BY <1>1, ByteType
    <2> QED BY <2>1 DEF Coming1
  <1>3. Lengths[n] = Length(n) /\ Length(n) \in Nat \ {0}
      BY <1>2, LengthsType, LengthOfPacket
  <1>4. \A j \in 1 .. Len(pipe) + 1 : Coming[j] \in Nat \X Nat
    <2> TAKE j \in 1 .. Len(pipe) + 1
    <2>1. CASE j \in 1 .. Len(pipe)
      <3>1. Coming[j] = pipe[j] /\ pipe[j] \in (1 .. Len(given)) \X Nat
          BY <2>1, ByteType
      <3> QED BY <3>1, LengthsType
    <2>2. CASE j = Len(pipe) + 1
        BY <2>2, NextType
    <2> QED BY <1>1, <2>1, <2>2
  <1>5. ASSUME NEW j \in 1 .. Len(pipe) + 1, j <= Length(n)
        PROVE  Coming[j] = <<n, 4 + j>>
    <2>1. Unbroken(Lengths, Coming, Len(pipe))
        BY DEF Bytes
    <2>2. j <= Lengths[n] /\ Lengths[n] \in Nat
        BY <1>3, <1>5
    <2>3. /\ n \in Nat /\ Len(pipe) \in Nat /\ j \in 1 .. Len(pipe) + 1
          /\ Coming[1] = <<n, 5>>
        BY <1>1, <1>2
    <2>4. \A q \in 1 .. Len(pipe) + 1 : q <= Lengths[n] => Coming[q] = <<n, 4 + q>>
        BY <1>4, <2>2, <2>3, FromTheFront
    <2> QED BY <2>2, <2>3, <2>4
  <1>6. SubSeq(pipe, 1, m) = SubSeq(Payload(n), 1, m)
    <2>1. \A j \in 1 .. m : pipe[j] = Payload(n)[j]
      <3> TAKE j \in 1 .. m
      <3>1. j \in 1 .. Len(pipe) /\ j \in 1 .. Len(pipe) + 1 /\ j <= Length(n) /\ j \in 1 .. Length(n)
          BY <1>1, <1>3
      <3>2. Coming[j] = <<n, 4 + j>> /\ Coming[j] = pipe[j]
          BY <1>5, <3>1, ByteType
      <3> QED BY <3>1, <3>2 DEF Payload
    <2>2. m \in Nat
        BY <1>1
    <2> QED BY <2>1, <2>2
  <1>7. m = Length(n) => Coming[m + 1][1] = n + 1 /\ Coming[m + 1][2] = 1
    <2> SUFFICES ASSUME m = Length(n) PROVE Coming[m + 1][1] = n + 1 /\ Coming[m + 1][2] = 1
        OBVIOUS
    <2>1. m \in 1 .. Len(pipe) + 1 /\ m <= Length(n)
        BY <1>1
    <2>2. Coming[m] = <<n, 4 + m>>
        BY <1>5, <2>1
    <2>3. Follows(Lengths, Coming[m], Coming[m + 1])
        BY DEF Bytes, Unbroken
    <2>4. ~(4 + m < 4 + Lengths[n])
        BY <1>3
    <2> QED BY <2>2, <2>3, <2>4 DEF Follows
  <1>8. m < Length(n) => Length(n) > Atomic
    <2> SUFFICES ASSUME m < Length(n) PROVE Length(n) > Atomic
        OBVIOUS
    <2>1. m = Len(pipe) /\ m + 1 \in 1 .. Len(pipe) + 1 /\ m + 1 <= Length(n) /\ m >= 1
        BY <1>1, <1>3
    <2>2. Coming[m + 1] = <<n, 4 + (m + 1)>>
        BY <1>5, <2>1
    <2>3. NextByte = <<n, 4 + (m + 1)>>
        BY <2>1, <2>2, NextType
    <2>4. NextByte[1] = n /\ NextByte[2] > 5
        BY <1>1, <2>1, <2>3
    <2>5. main.doing = "payload" /\ Len(given) = n /\ main.written > 0
      <3>1. main.doing \in {"idle", "head", "length", "payload"} /\ main.written \in Nat
          BY DEF TypeOK
      <3> QED BY <2>4, <3>1 DEF NextByte
    <2> QED BY <2>5 DEF Unfinished
  <1> QED BY <1>2, <1>6, <1>7, <1>8

LEMMA ReadPayloadPipeInv == PipeInv /\ ReadPayload => PipeInv'
  <1> SUFFICES ASSUME PipeInv, ReadPayload PROVE PipeInv'
      OBVIOUS
  <1> DEFINE frame == Taken(reader.want)
  <1>1. TypeOK /\ Bytes /\ Unfinished /\ Position /\ FramingKept /\ Behind
      BY DEF PipeInv
  <1>n. PICK n \in Nat \ {0} : n = Len(frames) + 1
      BY <1>1 DEF TypeOK
  <1>2. /\ reader.doing = "payload" /\ Read(reader.want) /\ UNCHANGED <<open, main, given>>
        /\ frames' = Append(frames, frame) /\ reader' = Select
      BY DEF ReadPayload
  <1>3. reader.want \in Nat \ {0}
      BY <1>1, <1>2 DEF TypeOK
  <1>4. open /\ Bytes' /\ Unfinished'
      BY <1>2, <1>3, ReadTakes
  <1>5. PICK m \in 1 .. Len(pipe) :
           /\ m <= reader.want /\ (m < reader.want => m = Len(pipe))
           /\ frame = SubSeq(pipe, 1, m)
           /\ Len(pipe') = Len(pipe) - m
           /\ \A i \in 1 .. Len(pipe') + 1 : Coming'[i] = Coming[i + m]
           /\ pipe' \in Seq(FrameBytes) /\ Len(pipe') <= Capacity
      BY <1>2, <1>3, ReadTakes
  <1>6. Coming'[1] = Coming[m + 1]
    <2>1. 1 \in 1 .. Len(pipe') + 1 /\ 1 + m = m + 1
        BY <1>1, <1>5, LengthsType
    <2> QED BY <1>5, <2>1
  <1>7. frame \in Seq(FrameBytes) /\ Len(frame) = m /\ frame # <<>> /\ frame[1] = pipe[1]
    <2>1. pipe \in Seq(FrameBytes) /\ Len(pipe) \in Nat
        BY <1>1 DEF TypeOK
    <2> HIDE DEF frame
    <2>2. frame = SubSeq(pipe, 1, m) /\ m \in 1 .. Len(pipe)
        BY <1>5
    <2>3. Len(frame) = m /\ frame \in Seq(FrameBytes)
        BY <2>1, <2>2
    <2>4. frame[1] = pipe[1]
        BY <2>1, <2>2
    <2> QED BY <2>2, <2>3, <2>4
  <1>8. /\ n = Len(frames) + 1 /\ Len(frames) \in Nat /\ Len(frames') = n /\ frames'[n] = frame
        /\ \A i \in 1 .. Len(frames) : frames'[i] = frames[i]
        /\ frames' \in Seq(Seq(FrameBytes))
    <2>1. frames \in Seq(Seq(FrameBytes))
        BY <1>1 DEF TypeOK
    <2> HIDE DEF frame
    <2> QED BY <1>2, <1>7, <1>n, <2>1
  <1>9. FrameBytes' = FrameBytes /\ reader'.doing = "select"
      BY <1>2 DEF FrameBytes, Select, Waits
  <1>10. TypeOK'
    <2>1. reader' \in [doing : {"select", "head", "length", "payload", "ended"}, want : Nat]
        BY <1>2 DEF Select, Waits
    <2>2. /\ pipe' \in Seq(FrameBytes') /\ Len(pipe') <= Capacity
          /\ frames' \in Seq(Seq(FrameBytes'))
        BY <1>5, <1>8, <1>9
    <2>3. /\ main' \in [doing : {"idle", "head", "length", "payload"}, written : Nat]
          /\ main'.doing # "idle" => given' # <<>> /\ main'.written <= Size[given'[Len(given')]]
          /\ given' \in Seq(Packets) /\ Len(given') <= MaxPackets /\ open' \in BOOLEAN
        BY <1>1, <1>2 DEF TypeOK
    <2> QED BY <1>9, <2>1, <2>2, <2>3 DEF TypeOK
  <1>11. ClosedIsEmpty'
      BY <1>2, <1>4 DEF ClosedIsEmpty
  <1>12. Behind'
    <2>1. \A i \in 1 .. Len(frames') : frames'[i] # <<>>
      <3> TAKE i \in 1 .. Len(frames')
      <3>1. i \in 1 .. Len(frames) \/ i = n
          BY <1>8
      <3> QED BY <1>1, <1>7, <1>8, <3>1 DEF Behind
    <2>2. frames'[Len(frames')][1][1] <= Coming'[1][1]
      <3>1. Coming[1] = pipe[1] /\ Coming[1][1] <= Coming[m + 1][1]
          BY <1>1, Ascends
      <3> QED BY <1>6, <1>7, <1>8, <3>1
    <2> QED BY <2>1, <2>2 DEF Behind, NewestFrame
  <1>13. /\ \A i \in 1 .. Len(frames) : Whole(i)' <=> Whole(i)
         /\ \A i \in 1 .. Len(frames) : Cut(i) => Cut(i)'
    <2> SUFFICES ASSUME NEW i \in 1 .. Len(frames)
                 PROVE  (Whole(i)' <=> Whole(i)) /\ (Cut(i) => Cut(i)')
        OBVIOUS
    <2>1. frames'[i] = frames[i]
        BY <1>8
    <2> QED BY <1>2, <2>1 DEF Whole, Cut, Beginning, Payload, Length
  <1>14. ASSUME AllWhole
         PROVE  /\ reader.want = Length(n) /\ n <= Len(given) /\ Length(n) \in Nat
                /\ frame = SubSeq(Payload(n), 1, m)
                /\ m = Length(n) => Coming[m + 1][1] = n + 1 /\ Coming[m + 1][2] = 1
                /\ m < Length(n) => Length(n) > Atomic
    <2>1. Coming1(n, 5) /\ reader.want = Length(n)
        BY <1>1, <1>2, <1>4, <1>8, <1>14 DEF Position
    <2>3. m <= Length(n) /\ (m < Length(n) => m = Len(pipe))
        BY <1>5, <2>1
    <2>4. /\ n \in 1 .. Len(given)
          /\ SubSeq(pipe, 1, m) = SubSeq(Payload(n), 1, m)
          /\ m = Length(n) => Coming[m + 1][1] = n + 1 /\ Coming[m + 1][2] = 1
          /\ m < Length(n) => Length(n) > Atomic
      <3>1. n \in Nat
          OBVIOUS
      <3> QED BY <1>1, <2>1, <2>3, <3>1, PayloadRead
    <2> QED BY <1>1, <1>3, <1>5, <2>1, <2>4, LengthsType
  <1>15. ASSUME AllWhole
         PROVE  /\ m = Length(n) => Whole(n)'
                /\ m < Length(n) => Cut(n)' /\ ~Whole(n)'
                /\ m <= Length(n)
    <2>1. /\ n <= Len(given) /\ Length(n) \in Nat /\ frame = SubSeq(Payload(n), 1, m)
          /\ m < Length(n) => Length(n) > Atomic
          /\ m <= Length(n)
        BY <1>5, <1>14, <1>15
    <2>2. Length(n)' = Length(n) /\ Payload(n)' = Payload(n) /\ Len(given') = Len(given) /\ frames'[n] = frame
        BY <1>2, <1>8 DEF Length, Payload
    <2>3. ASSUME m = Length(n) PROVE Whole(n)'
      <3>1. SubSeq(Payload(n), 1, m) = Payload(n)
          BY <2>1, <2>3 DEF Payload
      <3>2. frames'[n] = Payload(n)
          BY <2>1, <2>2, <3>1
      <3> QED BY <2>1, <2>2, <3>2 DEF Whole
    <2>4. ASSUME m < Length(n) PROVE Cut(n)' /\ ~Whole(n)'
      <3>1. Len(Payload(n)) = Length(n)
          BY <2>1 DEF Payload
      <3>2. frame # Payload(n)
        <4> HIDE DEF frame
        <4> QED BY <1>7, <2>1, <2>4, <3>1
      <3>3. ~Whole(n)'
          BY <2>2, <3>2 DEF Whole
      <3>4. m \in 1 .. Length(n)
          BY <1>1, <2>1, <2>4, LengthsType
      <3>5. Beginning(frames[n], n)'
          BY <2>1, <2>2, <3>4 DEF Beginning
      <3> QED BY <2>1, <2>2, <2>4, <3>3, <3>5 DEF Cut
    <2> QED BY <2>1, <2>3, <2>4
  <1>16. (\A j \in 1 .. Len(frames) : Whole(j)') => AllWhole
      BY <1>13 DEF AllWhole
  <1>17. FramingKept'
    <2> SUFFICES ASSUME NEW i \in 1 .. n, \A j \in 1 .. i - 1 : Whole(j)'
                 PROVE  Whole(i)' \/ Cut(i)'
      <3>1. DOMAIN frames' = 1 .. n
          BY <1>8
      <3> QED BY <3>1 DEF FramingKept
    <2>1. CASE i \in 1 .. Len(frames)
      <3>1. \A j \in 1 .. i - 1 : j \in 1 .. Len(frames)
          BY <1>8, <2>1
      <3>2. \A j \in 1 .. i - 1 : Whole(j)
          BY <1>13, <3>1
      <3>3. DOMAIN frames = 1 .. Len(frames)
          BY <1>1 DEF TypeOK
      <3>4. Whole(i) \/ Cut(i)
          BY <1>1, <2>1, <3>2, <3>3 DEF FramingKept
      <3> QED BY <1>13, <2>1, <3>4
    <2>2. CASE i = n
      <3>1. AllWhole
          BY <1>8, <1>16, <2>2
      <3>2. m = Length(n) \/ m < Length(n)
          BY <1>1, <1>14, <1>15, <3>1, LengthsType
      <3> QED BY <1>15, <2>2, <3>1, <3>2
    <2> QED BY <1>8, <2>1, <2>2
  <1>18. Position'
    <2> SUFFICES ASSUME AllWhole' PROVE Coming1(Len(frames) + 1, 1)'
        BY <1>9 DEF Position
    <2>1. \A j \in 1 .. n : Whole(j)'
        BY <1>8 DEF AllWhole
    <2>2. AllWhole /\ Whole(n)'
        BY <1>8, <1>16, <2>1
    <2>3. m = Length(n)
        BY <1>1, <1>14, <1>15, <2>2, LengthsType
    <2>4. Coming[m + 1][1] = n + 1 /\ Coming[m + 1][2] = 1
        BY <1>14, <2>2, <2>3
    <2> QED BY <1>6, <1>8, <2>4 DEF Coming1
  <1> QED BY <1>4, <1>10, <1>11, <1>12, <1>17, <1>18 DEF PipeInv

\* Every step of the two threads, and every packet that is given, keeps the invariant.
LEMMA StepPipeInv ==
    PipeInv /\ ((\E p \in Packets : Submit(p)) \/ MainStep \/ Close \/ ReaderStep \/ EdgeEnd \/ ProcessEnds) => PipeInv'
  BY SubmitPipeInv, WordPipeInv, WritePayloadPipeInv, DroppedPipeInv, WaitPipeInv,
     ReadHeadPipeInv, ReadLengthPipeInv, ReadPayloadPipeInv DEF MainStep, ReaderStep

LEMMA StutterPipeInv == PipeInv /\ UNCHANGED vars => PipeInv'
  <1> SUFFICES ASSUME PipeInv, UNCHANGED vars PROVE PipeInv'
      OBVIOUS
  <1>1. TypeOK /\ Bytes /\ Unfinished /\ ClosedIsEmpty /\ Position /\ FramingKept /\ Behind
      BY DEF PipeInv
  <1>2. UNCHANGED <<pipe, open, main, reader, given, frames>>
      BY DEF vars
  <1>3. TypeOK'
    <2>1. FrameBytes' = FrameBytes
        BY <1>2 DEF FrameBytes
    <2> QED BY <1>1, <1>2, <2>1 DEF TypeOK
  <1>4. Coming' = Coming /\ Lengths' = Lengths
      BY <1>2 DEF Coming, NextByte, Lengths, Length
  <1>5. Bytes' /\ Unfinished'
      BY <1>1, <1>2, <1>4 DEF Bytes, Unfinished, Length
  <1>6. ClosedIsEmpty' /\ Behind'
      BY <1>1, <1>2, <1>4 DEF ClosedIsEmpty, Behind, NewestFrame
  <1>7. FramingKept' /\ (AllWhole' <=> AllWhole)
    <2>1. given' = given /\ frames' = frames
        BY <1>2
    <2>2. FramingKept' = FramingKept
        BY <2>1 DEF FramingKept, Whole, Cut, Beginning, Payload, Length
    <2>3. AllWhole' = AllWhole
        BY <2>1 DEF AllWhole, Whole, Payload, Length
    <2> QED BY <1>1, <2>2, <2>3
  <1>8. Position'
      BY <1>1, <1>2, <1>4, <1>7 DEF Position, Coming1, Length
  <1> QED BY <1>3, <1>5, <1>6, <1>7, <1>8 DEF PipeInv

----------------------------------------------------------------------------
(* The order of the frames, where no payload spells the head: also after a *)
(* cut the reader comes back to the framing.                               *)

Unspelled == \A b \in Spelled, n \in DOMAIN given : given[n] # b[1]

\* The reader finds a length where it looks for one, and a payload of this length.
InStep ==
    open =>
        /\ reader.doing = "length" => Coming[1][2] = 3
        /\ reader.doing = "payload" =>
               /\ Coming[1][1] \in 1 .. Len(given) /\ Coming[1][2] = 5
               /\ reader.want = Length(Coming[1][1])

\* Where a head, a length or a payload begins, the packet was not read before.
Past == frames # <<>> /\ Coming[1][1] = NewestFrame => Coming[1][2] > 5

OrderInv == (Unspelled => InStep /\ Past) /\ FramesInOrder

LEMMA InitOrderInv == Init => OrderInv
  <1> SUFFICES ASSUME Init PROVE OrderInv
      OBVIOUS
  <1>1. frames = <<>> /\ DOMAIN frames = {} /\ reader.doing = "select"
      BY DEF Init, Select, Waits
  <1> QED BY <1>1 DEF OrderInv, InStep, Past, FramesInOrder

\* A frame that was read is of a packet that was given.
LEMMA FramesOfPackets ==
    TypeOK /\ Behind =>
        \A i \in 1 .. Len(frames) : frames[i] # <<>> /\ frames[i][1][1] \in 1 .. Len(given)
  <1> SUFFICES ASSUME TypeOK, Behind, NEW i \in 1 .. Len(frames)
               PROVE  frames[i] # <<>> /\ frames[i][1][1] \in 1 .. Len(given)
      OBVIOUS
  <1>1. frames \in Seq(Seq(FrameBytes)) /\ given \in Seq(Packets) /\ frames[i] # <<>>
      BY DEF TypeOK, Behind
  <1>2. frames[i] \in Seq(FrameBytes)
      BY <1>1
  <1>3. frames[i][1] \in FrameBytes
      BY <1>1, <1>2
  <1>4. DOMAIN given = 1 .. Len(given)
      BY <1>1
  <1> QED BY <1>1, <1>3, <1>4 DEF FrameBytes

\* Steps that neither read nor give a packet.
LEMMA WaitingKeepsOrder ==
    ASSUME OrderInv, UNCHANGED <<open, given, frames>>, FrontStays,
           reader' = reader \/ reader'.doing \notin {"length", "payload"}
    PROVE  OrderInv'
  <1>1. (Unspelled' <=> Unspelled) /\ (FramesInOrder' <=> FramesInOrder)
      BY DEF Unspelled, FramesInOrder, Beginning, Payload, Length
  <1>2. Past => Past'
      BY DEF Past, FrontStays, NewestFrame
  <1>3. InStep => InStep'
    <2>1. CASE reader' = reader
        BY <2>1 DEF InStep, FrontStays, Length
    <2>2. CASE reader'.doing \notin {"length", "payload"}
        BY <2>2 DEF InStep
    <2> QED BY <2>1, <2>2
  <1> QED BY <1>1, <1>2, <1>3 DEF OrderInv

LEMMA WriteOrder ==
    ASSUME PipeInv, OrderInv, WriteHead \/ WriteLength \/ WritePayload
    PROVE  OrderInv'
  <1>1. FrontStays
      BY WordPipeInv, WritePayloadPipeInv
  <1>2. UNCHANGED <<open, given, frames, reader>>
      BY DEF WriteHead, WriteLength, Word, WritePayload
  <1> QED BY <1>1, <1>2, WaitingKeepsOrder

LEMMA WaitOrder ==
    ASSUME OrderInv, SelectReturns \/ EdgeEnd \/ ReadFails
    PROVE  OrderInv'
  <1>1. /\ UNCHANGED <<pipe, open, main, given, frames>>
        /\ reader'.doing \notin {"length", "payload"}
      BY DEF SelectReturns, EdgeEnd, ReadFails, Select, Waits
  <1>2. FrontStays
      BY <1>1 DEF FrontStays, Coming, NextByte
  <1> QED BY <1>1, <1>2, WaitingKeepsOrder

\* The pipe is closed: the edge reads no more.
LEMMA DroppedOrder ==
    ASSUME PipeInv, OrderInv, WriteFails \/ Close \/ ProcessEnds
    PROVE  OrderInv'
  <1>1. TypeOK /\ ClosedIsEmpty /\ Behind
      BY DEF PipeInv
  <1>2. pipe' = <<>> /\ ~open' /\ main'.doing = "idle" /\ UNCHANGED <<given, frames>>
    <2>1. CASE WriteFails
        BY <1>1, <2>1 DEF WriteFails, ClosedIsEmpty, Idle
    <2>2. CASE Close
        BY <2>2 DEF Close, Idle
    <2>3. CASE ProcessEnds
        BY <2>3 DEF ProcessEnds, Idle
    <2> QED BY <2>1, <2>2, <2>3
  <1>3. (Unspelled' <=> Unspelled) /\ (FramesInOrder' <=> FramesInOrder)
      BY <1>2 DEF Unspelled, FramesInOrder, Beginning, Payload, Length
  <1>4. InStep'
      BY <1>2 DEF InStep
  <1>5. Past'
    <2> SUFFICES ASSUME frames # <<>> PROVE NewestFrame # Coming'[1][1]
        BY <1>2 DEF Past, NewestFrame
    <2>1. NextByte' = <<Len(given) + 1, 1>>
        BY <1>2 DEF NextByte
    <2>2. Len(pipe') = 0
        BY <1>2
    <2>3. Coming'[1] = <<Len(given) + 1, 1>>
        BY <2>1, <2>2 DEF Coming
    <2>4. NewestFrame \in 1 .. Len(given) /\ Len(given) \in Nat
        BY <1>1, NewestGiven, LengthsType
    <2> QED BY <2>3, <2>4
  <1> QED BY <1>3, <1>4, <1>5 DEF OrderInv

\* Another packet is given, and nothing written yet.
LEMMA SubmitOrder ==
    ASSUME PipeInv, OrderInv, NEW p \in Packets, Submit(p)
    PROVE  OrderInv'
  <1>1. TypeOK /\ Behind
      BY DEF PipeInv
  <1>2. /\ main.doing = "idle" /\ main'.doing = "head"
        /\ given' = Append(given, p)
        /\ UNCHANGED <<pipe, open, reader, frames>>
      BY DEF Submit, Idle
  <1>3. /\ given \in Seq(Packets) /\ Len(given) \in Nat /\ Len(given') = Len(given) + 1
        /\ \A n \in 1 .. Len(given) : given'[n] = given[n]
        /\ DOMAIN given = 1 .. Len(given) /\ DOMAIN given' = 1 .. Len(given) + 1
      BY <1>1, <1>2 DEF TypeOK
  <1>4. \A n \in 1 .. Len(given) : Length(n)' = Length(n) /\ Payload(n)' = Payload(n)
      BY <1>1, <1>2, FramesStay
  <1>5. Unspelled' => Unspelled
    <2>1. \A n \in 1 .. Len(given) : n \in 1 .. Len(given) + 1
        BY <1>3
    <2> QED BY <1>3, <2>1 DEF Unspelled
  <1>6. Coming' = Coming
    <2>1. NextByte' = NextByte
        BY <1>2, <1>3 DEF NextByte
    <2> QED BY <1>2, <2>1 DEF Coming
  <1>7. InStep => InStep'
    <2>1. \A n \in 1 .. Len(given) : n \in 1 .. Len(given')
        BY <1>3
    <2>2. ASSUME InStep, open, reader.doing = "payload"
          PROVE  /\ Coming[1][1] \in 1 .. Len(given') /\ Coming[1][2] = 5
                 /\ reader.want = Size[given'[Coming[1][1]]]
        BY <1>3, <2>1, <2>2 DEF InStep, Length
    <2> QED BY <1>2, <1>6, <2>2 DEF InStep, Length
  <1>8. Past => Past'
      BY <1>2, <1>6 DEF Past, NewestFrame
  <1>9. FramesInOrder'
    <2> SUFFICES ASSUME Unspelled'
                 PROVE  /\ \A i \in DOMAIN frames : Beginning(frames[i], frames[i][1][1])'
                        /\ \A i, j \in DOMAIN frames : i < j => frames[i][1][1] < frames[j][1][1]
        BY <1>2 DEF FramesInOrder, Unspelled
    <2>1. /\ \A i \in DOMAIN frames : Beginning(frames[i], frames[i][1][1])
          /\ \A i, j \in DOMAIN frames : i < j => frames[i][1][1] < frames[j][1][1]
        BY <1>5 DEF OrderInv, FramesInOrder, Unspelled
    <2>2. DOMAIN frames = 1 .. Len(frames)
        BY <1>1 DEF TypeOK
    <2>3. ASSUME NEW i \in DOMAIN frames PROVE Beginning(frames[i], frames[i][1][1])'
      <3>1. frames[i][1][1] \in 1 .. Len(given)
          BY <1>1, <2>2, FramesOfPackets
      <3> DEFINE n == frames[i][1][1]
      <3>2. Length(n)' = Length(n) /\ Payload(n)' = Payload(n)
          BY <1>2, <1>4, <3>1 DEF Length, Payload
      <3>3. Beginning(frames[i], n)
          BY <2>1
      <3> QED BY <1>2, <3>2, <3>3 DEF Beginning
    <2> QED BY <2>1, <2>3
  <1> QED BY <1>5, <1>7, <1>8, <1>9 DEF OrderInv

\* What comes after the bytes that are read was not read before either.
LEMMA ReadPast ==
    ASSUME TypeOK, Bytes, Behind, Past, NEW m \in 1 .. Len(pipe),
           frames # <<>>, Coming[m + 1][1] = NewestFrame
    PROVE  Coming[m + 1][2] > 5
  <1>1. NewestFrame \in 1 .. Len(given) /\ NewestFrame <= Coming[1][1]
      BY NewestGiven DEF Behind
  <1>2. /\ Coming[1][1] \in 1 .. Len(given) /\ Coming[1][1] <= Coming[m + 1][1]
        /\ Coming[1][1] = Coming[m + 1][1] => Coming[m + 1][2] = Coming[1][2] + m
      BY Ascends
  <1>3. Coming[1][1] = NewestFrame
      BY <1>1, <1>2
  <1>4. Coming[1][2] > 5 /\ Coming[m + 1][2] = Coming[1][2] + m
      BY <1>2, <1>3 DEF Past
  <1>5. Coming[1][2] \in Nat /\ m \in Nat
    <2>1. 1 \in 1 .. Len(pipe)
        BY LengthsType
    <2> QED BY <2>1, ByteType
  <1> QED BY <1>4, <1>5

\* The reader finds a word of head or length whole, or it starts again.
LEMMA ReadWordOrder ==
    ASSUME PipeInv, OrderInv, ReadHead \/ ReadLength
    PROVE  OrderInv'
  <1>1. TypeOK /\ Bytes /\ Behind /\ ClosedIsEmpty
      BY DEF PipeInv
  <1>2. Read(2) /\ UNCHANGED <<open, main, given, frames>>
      BY DEF ReadHead, ReadLength
  <1>3. PICK m \in 1 .. Len(pipe) :
           /\ m <= 2 /\ (m < 2 => m = Len(pipe))
           /\ Len(pipe') = Len(pipe) - m
           /\ \A i \in 1 .. Len(pipe') + 1 : Coming'[i] = Coming[i + m]
    <2>1. 2 \in Nat \ {0}
        OBVIOUS
    <2> QED BY <1>2, <2>1, ReadTakes
  <1>4. Coming'[1] = Coming[m + 1] /\ Len(pipe) \in Nat \ {0} /\ 1 \in 1 .. Len(pipe)
    <2>1. 1 \in 1 .. Len(pipe') + 1 /\ 1 + m = m + 1
        BY <1>1, <1>3, LengthsType
    <2> QED BY <1>1, <1>3, <2>1, LengthsType
  <1>5. (Unspelled' <=> Unspelled) /\ (FramesInOrder' <=> FramesInOrder)
      BY <1>2 DEF Unspelled, FramesInOrder, Beginning, Payload, Length
  <1>6. Past => Past'
      BY <1>1, <1>2, <1>4, ReadPast DEF Past, NewestFrame
  <1>7. ASSUME Unspelled, InStep PROVE InStep'
    <2> DEFINE n == pipe[1][1]
    <2>5. open
        BY <1>1, <1>2 DEF ClosedIsEmpty, Read
    <2>1. Coming[1] = pipe[1] /\ n \in 1 .. Len(given) /\ n \in Nat
        BY <1>1, <1>4, ByteType, LengthsType
    <2>2. CASE ReadHead /\ reader'.doing = "length"
      <3>1. Len(pipe) > 1 /\ IsHead(pipe)
          BY <2>2 DEF ReadHead, Select, Waits
      <3>2. pipe[1][2] = 1
        <4>1. <<given[n], pipe[1][2]>> \notin Spelled
          <5>1. n \in DOMAIN given
              BY <1>1, <2>1 DEF TypeOK
          <5> QED BY <1>7, <5>1 DEF Unspelled
        <4> QED BY <3>1, <4>1 DEF IsHead
      <3>3. Coming1(n, 1)
          BY <2>1, <3>2 DEF Coming1
      <3>4. Coming[3][2] = 3
          BY <1>1, <1>4, <2>1, <3>3, TwoBytes
      <3>5. m = 2
          BY <1>3, <1>4, <3>1
      <3> QED BY <1>4, <2>2, <3>4, <3>5 DEF InStep
    <2>3. CASE ReadLength /\ reader'.doing = "payload"
      <3>1. Len(pipe) # 1 /\ reader'.want = LengthOf(pipe) /\ reader.doing = "length"
          BY <2>3 DEF ReadLength, Select, Waits
      <3>2. Coming1(n, 3)
          BY <1>7, <2>1, <2>5, <3>1 DEF Coming1, InStep
      <3>3. /\ Len(pipe) > 1 /\ pipe[1] = <<n, 3>>
            /\ Coming[3][1] = n /\ Coming[3][2] = 5
          BY <1>1, <1>4, <2>1, <3>2, TwoBytes
      <3>4. m = 2
          BY <1>3, <1>4, <3>3
      <3>5. Coming'[1] = Coming[3]
          BY <1>4, <3>4
      <3>6. reader'.want = Length(n)
          BY <3>1, <3>3 DEF LengthOf
      <3> QED BY <1>2, <2>1, <2>3, <3>3, <3>5, <3>6 DEF InStep, Length
    <2>4. \/ ReadHead /\ reader'.doing = "length"
          \/ ReadLength /\ reader'.doing = "payload"
          \/ reader'.doing \notin {"length", "payload"}
        BY DEF ReadHead, ReadLength, Select, Waits
    <2> QED BY <2>2, <2>3, <2>4 DEF InStep
  <1> QED BY <1>5, <1>6, <1>7 DEF OrderInv

\* What tuntap_read returns begins a payload that was not read before.
LEMMA ReadPayloadOrder ==
    ASSUME PipeInv, OrderInv, ReadPayload
    PROVE  OrderInv'
  <1> DEFINE frame == Taken(reader.want)
             n == Coming[1][1]
  <1>1. TypeOK /\ Bytes /\ Behind /\ Unfinished /\ ClosedIsEmpty
      BY DEF PipeInv
  <1>2. /\ reader.doing = "payload" /\ Read(reader.want) /\ UNCHANGED <<open, main, given>>
        /\ frames' = Append(frames, frame) /\ reader' = Select
      BY DEF ReadPayload
  <1>13. open
      BY <1>1, <1>2 DEF ClosedIsEmpty, Read
  <1>3. reader.want \in Nat \ {0}
      BY <1>1, <1>2 DEF TypeOK
  <1>4. PICK m \in 1 .. Len(pipe) :
           /\ m <= reader.want /\ (m < reader.want => m = Len(pipe))
           /\ frame = SubSeq(pipe, 1, m)
           /\ Len(pipe') = Len(pipe) - m
           /\ \A i \in 1 .. Len(pipe') + 1 : Coming'[i] = Coming[i + m]
      BY <1>2, <1>3, ReadTakes
  <1>5. Coming'[1] = Coming[m + 1] /\ 1 \in 1 .. Len(pipe) /\ Len(pipe) \in Nat
    <2>1. 1 \in 1 .. Len(pipe') + 1 /\ 1 + m = m + 1
        BY <1>1, <1>4, LengthsType
    <2> QED BY <1>1, <1>4, <2>1, LengthsType
  <1>6. frame \in Seq(FrameBytes) /\ frame[1] = pipe[1] /\ frame # <<>>
    <2>1. pipe \in Seq(FrameBytes)
        BY <1>1 DEF TypeOK
    <2>2. m \in Nat \ {0} /\ m <= Len(pipe) /\ frame = SubSeq(pipe, 1, m)
        BY <1>4, <1>5
    <2> HIDE DEF frame
    <2>3. Len(frame) = m /\ frame \in Seq(FrameBytes)
        BY <1>5, <2>1, <2>2
    <2>4. frame[1] = pipe[1]
        BY <1>5, <2>1, <2>2
    <2>5. frame # <<>>
        BY <2>2, <2>3
    <2> QED BY <2>3, <2>4, <2>5
  <1>7. n \in 1 .. Len(given) /\ n \in Nat /\ Coming[1] = pipe[1]
      BY <1>1, <1>5, ByteType, LengthsType
  <1>8. /\ frames \in Seq(Seq(FrameBytes)) /\ Len(frames) \in Nat /\ Len(frames') = Len(frames) + 1
        /\ frames'[Len(frames) + 1] = frame
        /\ \A i \in 1 .. Len(frames) : frames'[i] = frames[i]
        /\ DOMAIN frames = 1 .. Len(frames) /\ DOMAIN frames' = 1 .. Len(frames) + 1
        /\ frames' # <<>>
    <2>1. frames \in Seq(Seq(FrameBytes))
        BY <1>1 DEF TypeOK
    <2> HIDE DEF frame
    <2> QED BY <1>2, <1>6, <2>1
  <1>9. NewestFrame' = n
    <2> HIDE DEF frame
    <2> QED BY <1>6, <1>7, <1>8 DEF NewestFrame
  <1>10. reader'.doing = "select" /\ (Unspelled' <=> Unspelled)
      BY <1>2 DEF Select, Waits, Unspelled
  <1> HIDE DEF frame
  <1>11. ASSUME Unspelled PROVE InStep' /\ Past'
    <2>1. InStep'
        BY <1>10 DEF InStep
    <2>2. Coming[1][2] = 5
        BY <1>2, <1>11, <1>13 DEF OrderInv, InStep
    <2>3. Coming[1][1] = Coming[m + 1][1] => Coming[m + 1][2] = Coming[1][2] + m
        BY <1>1, Ascends
    <2>4. m \in Nat \ {0}
        BY <1>5
    <2>5. n = Coming[m + 1][1] => Coming[m + 1][2] > 5
        BY <2>2, <2>3, <2>4
    <2>6. Past'
      <3> HIDE DEF n
      <3> QED BY <1>5, <1>9, <2>5 DEF Past
    <2> QED BY <2>1, <2>6
  <1>12. FramesInOrder'
    <2> SUFFICES ASSUME Unspelled
                 PROVE  /\ \A i \in DOMAIN frames' : Beginning(frames[i], frames[i][1][1])'
                        /\ \A i, j \in DOMAIN frames' : i < j => frames'[i][1][1] < frames'[j][1][1]
        BY <1>10 DEF FramesInOrder, Unspelled
    <2>1. /\ \A i \in DOMAIN frames : Beginning(frames[i], frames[i][1][1])
          /\ \A i, j \in DOMAIN frames : i < j => frames[i][1][1] < frames[j][1][1]
        BY DEF OrderInv, FramesInOrder, Unspelled
    <2>2. InStep /\ Past
        BY DEF OrderInv
    <2>3. Coming1(n, 5) /\ reader.want = Length(n)
        BY <1>2, <1>13, <2>2 DEF InStep, Coming1
    <2>4. frame = SubSeq(Payload(n), 1, m)
      <3> HIDE DEF n
      <3> QED BY <1>1, <1>4, <1>7, <2>3, PayloadRead
    <2>5. frame[1][1] = n
        BY <1>6, <1>7
    <2>6. ASSUME NEW i \in 1 .. Len(frames) PROVE frames[i][1][1] \in Nat /\ frames[i][1][1] < n
      <3>1. frames[i][1][1] \in 1 .. Len(given) /\ Len(given) \in Nat /\ frames # <<>>
          BY <1>1, <1>8, FramesOfPackets, LengthsType
      <3>2. NewestFrame \in 1 .. Len(given) /\ NewestFrame <= n /\ NewestFrame # n
          BY <1>1, <2>2, <2>3, <3>1, NewestGiven DEF Behind, Past, Coming1
      <3>3. frames[i][1][1] <= NewestFrame
        <4>1. CASE i = Len(frames)
            BY <3>1, <4>1 DEF NewestFrame
        <4>2. CASE i < Len(frames)
          <5>1. Len(frames) \in DOMAIN frames /\ i \in DOMAIN frames
              BY <1>8
          <5>2. frames[i][1][1] < NewestFrame
              BY <2>1, <4>2, <5>1 DEF NewestFrame
          <5> HIDE DEF n
          <5> QED BY <3>1, <3>2, <5>2
        <4>3. i = Len(frames) \/ i < Len(frames)
          <5>1. \A l \in Nat : \A k \in 1 .. l : k = l \/ k < l
              OBVIOUS
          <5>2. Len(frames) \in Nat /\ i \in 1 .. Len(frames)
              BY <1>8
          <5> QED BY <5>1, <5>2, Zenon
        <4> QED BY <4>1, <4>2, <4>3
      <3> QED BY <1>7, <3>1, <3>2, <3>3
    <2>7. ASSUME NEW i \in DOMAIN frames' PROVE Beginning(frames[i], frames[i][1][1])'
      <3>1. CASE i \in 1 .. Len(frames)
        <4>1. Beginning(frames[i], frames[i][1][1]) /\ frames'[i] = frames[i]
            BY <1>8, <2>1, <3>1
        <4> QED BY <1>2, <4>1 DEF Beginning, Payload, Length
      <3>2. CASE i = Len(frames) + 1
        <4>1. frames'[i] = SubSeq(Payload(n), 1, m) /\ frames'[i][1][1] = n
            BY <1>8, <2>4, <2>5, <3>2
        <4>2. m \in 1 .. Length(n)
            BY <1>4, <1>5, <1>3, <2>3
        <4> HIDE DEF n
        <4>3. \E k \in 1 .. Length(n) : frames'[i] = SubSeq(Payload(n), 1, k)
            BY <4>1, <4>2
        <4> QED BY <1>2, <4>1, <4>3 DEF Beginning, Payload, Length
      <3> QED BY <1>8, <3>1, <3>2
    <2>8. ASSUME NEW i \in DOMAIN frames', NEW j \in DOMAIN frames', i < j
          PROVE  frames'[i][1][1] < frames'[j][1][1]
      <3>1. i \in 1 .. Len(frames) /\ frames'[i] = frames[i]
        <4>1. i \in 1 .. Len(frames) + 1 /\ j \in 1 .. Len(frames) + 1 /\ Len(frames) \in Nat
            BY <1>8
        <4>2. i \in 1 .. Len(frames)
            BY <2>8, <4>1
        <4> QED BY <1>8, <4>2
      <3>2. CASE j \in 1 .. Len(frames)
        <4>1. i \in DOMAIN frames /\ j \in DOMAIN frames /\ frames'[j] = frames[j]
            BY <1>8, <3>1, <3>2
        <4>2. frames[i][1][1] < frames[j][1][1]
            BY <2>1, <2>8, <4>1
        <4> QED BY <3>1, <4>1, <4>2
      <3>3. CASE j = Len(frames) + 1
        <4>1. frames'[j][1][1] = n
            BY <1>8, <2>5, <3>3
        <4> QED BY <2>6, <3>1, <4>1
      <3>4. j \in 1 .. Len(frames) \/ j = Len(frames) + 1
        <4>1. j \in 1 .. Len(frames) + 1 /\ Len(frames) \in Nat
            BY <1>8
        <4> QED BY <4>1
      <3> QED BY <3>2, <3>3, <3>4
    <2> QED BY <2>7, <2>8
  <1> QED BY <1>10, <1>11, <1>12 DEF OrderInv

LEMMA StepOrderInv ==
    PipeInv /\ OrderInv /\ ((\E p \in Packets : Submit(p)) \/ MainStep \/ Close \/ ReaderStep \/ EdgeEnd \/ ProcessEnds)
        => OrderInv'
  BY WriteOrder, WaitOrder, DroppedOrder, SubmitOrder, ReadWordOrder, ReadPayloadOrder
     DEF MainStep, ReaderStep

LEMMA StutterOrderInv == OrderInv /\ UNCHANGED vars => OrderInv'
  <1> SUFFICES ASSUME OrderInv, UNCHANGED vars PROVE OrderInv'
      OBVIOUS
  <1>1. UNCHANGED <<pipe, open, main, reader, given, frames>>
      BY DEF vars
  <1>2. FrontStays
      BY <1>1 DEF FrontStays, Coming, NextByte
  <1> QED BY <1>1, <1>2, WaitingKeepsOrder

----------------------------------------------------------------------------
(* The whole way.                                                          *)

\* The packets in the pipe were handed over in the order of the listener's messages.
Sent ==
    /\ \A i \in 1 .. Len(given) : given[i] <= latest
    /\ \A i, j \in 1 .. Len(given) : i <= j => given[i] <= given[j]

PathInv == WormholeInv /\ PipeInv /\ Sent

LEMMA PathBounds == MaxMessages \in Nat /\ Packets = 1 .. MaxMessages
  BY PathAssumption, PipeAssumption

LEMMA InitPathInv == PathInit => PathInv
  <1> SUFFICES ASSUME PathInit PROVE PathInv
      OBVIOUS
  <1>1. WormholeInit /\ Init
      BY DEF PathInit
  <1>3. WormholeInv
      BY <1>1, InitWormholeInv
  <1>4. PipeInv
      BY <1>1, InitPipeInv
  <1>5. Sent
    <2>1. given = <<>> /\ Len(given) = 0
        BY <1>1 DEF Init
    <2> QED BY <2>1 DEF Sent
  <1> QED BY <1>3, <1>4, <1>5 DEF PathInv

\* The wormhole takes a step of its own, and the pipe does not change.
LEMMA WormholePathInv ==
    PathInv /\ (Extension \/ AppListens \/ AppNotified) => PathInv' /\ UNCHANGED vars
  <1> SUFFICES ASSUME PathInv, Extension \/ AppListens \/ AppNotified PROVE PathInv' /\ UNCHANGED vars
      OBVIOUS
  <1>1. UNCHANGED vars
      BY DEF Extension, AppListens, AppNotified
  <1>2. Write \/ Post \/ Listen \/ Receive
      BY DEF Extension, AppListens, AppNotified
  <1>3. WormholeInv'
    <2>1. [WormholeNext]_wormholeVars
        BY <1>2 DEF WormholeNext
    <2> QED BY <2>1, StepWormholeInv DEF PathInv
  <1>4. latest' = latest
      BY <1>2 DEF Write, Post, Listen, Receive
  <1>5. PipeInv'
      BY <1>1, StutterPipeInv DEF PathInv
  <1>6. Sent'
      BY <1>1, <1>4 DEF PathInv, Sent, vars
  <1> QED BY <1>1, <1>3, <1>5, <1>6 DEF PathInv

\* What is handed over is a packet, and not older than the one before.
LEMMA HandedOverIsPacket ==
    ASSUME PathInv, HandOver
    PROVE  latest' \in Packets /\ latest <= latest' /\ latest \in Nat
  <1>1. RunListener
      BY DEF HandOver
  <1>2. Len(blocks) \in Nat \ {0} /\ Head(blocks) = blocks[1] /\ latest' = Head(blocks)
      BY <1>1 DEF RunListener, PathInv, WormholeInv, WormholeTypeOK
  <1>3. 1 \in 1 .. Len(blocks)
      BY <1>2
  <1> QED BY <1>2, <1>3, PathBounds DEF PathInv, WormholeInv, WormholeTypeOK, Ordered

\* The listener hands over a packet that is not older than those before.
LEMMA HandOverPathInv == PathInv /\ HandOver => PathInv'
  <1> SUFFICES ASSUME PathInv, HandOver PROVE PathInv'
      OBVIOUS
  <1>1. RunListener /\ Submit(latest')
      BY DEF HandOver
  <1>3. WormholeInv'
    <2>1. [WormholeNext]_wormholeVars
        BY <1>1 DEF WormholeNext
    <2> QED BY <2>1, StepWormholeInv DEF PathInv
  <1>4. latest' \in Packets /\ latest <= latest' /\ latest \in Nat
      BY HandedOverIsPacket
  <1>5. PipeInv'
      BY <1>1, <1>4, SubmitPipeInv DEF PathInv
  <1>6. Sent'
    <2>1. given \in Seq(Packets) /\ given' = Append(given, latest')
        BY <1>1 DEF Submit, PathInv, PipeInv, TypeOK
    <2>2. /\ Len(given) \in Nat /\ Len(given') = Len(given) + 1
          /\ given'[Len(given) + 1] = latest'
          /\ \A i \in 1 .. Len(given) : given'[i] = given[i] /\ given[i] \in Nat
        BY <2>1, <1>4, PathBounds
    <2>3. latest' \in Nat
        BY <1>4, PathBounds
    <2>4. \A i \in 1 .. Len(given') : given'[i] <= latest'
        BY <1>4, <2>2, <2>3 DEF PathInv, Sent
    <2>5. \A i, j \in 1 .. Len(given') : i <= j => given'[i] <= given'[j]
        BY <1>4, <2>2, <2>3, <2>4 DEF PathInv, Sent
    <2> QED BY <2>4, <2>5 DEF Sent
  <1> QED BY <1>3, <1>5, <1>6 DEF PathInv

LEMMA InPipePathInv == PathInv /\ InPipe => PathInv'
  <1> SUFFICES ASSUME PathInv, InPipe PROVE PathInv'
      OBVIOUS
  <1>1. UNCHANGED wormholeVars /\ (MainStep \/ Close \/ ReaderStep \/ EdgeEnd)
      BY DEF InPipe
  <1>2. PipeInv'
      BY <1>1, StepPipeInv DEF PathInv
  <1>3. WormholeInv'
      BY <1>1, StepWormholeInv DEF PathInv
  <1>4. given' = given
      BY <1>1 DEF MainStep, WriteHead, WriteLength, Word, WriteFails, WritePayload, Close,
                  ReaderStep, SelectReturns, ReadHead, ReadLength, ReadPayload, ReadFails, EdgeEnd
  <1>5. Sent'
      BY <1>1, <1>4 DEF PathInv, Sent, wormholeVars
  <1> QED BY <1>2, <1>3, <1>5 DEF PathInv

LEMMA AppEndsPathInv == PathInv /\ AppEnds => PathInv'
  <1> SUFFICES ASSUME PathInv, Quit, ProcessEnds PROVE PathInv'
      BY DEF AppEnds
  <1>1. PipeInv'
      BY StepPipeInv DEF PathInv
  <1>2. WormholeInv'
      BY OthersWormholeInv DEF PathInv
  <1>3. Sent'
      BY DEF PathInv, Sent, Quit, ProcessEnds
  <1> QED BY <1>1, <1>2, <1>3 DEF PathInv

LEMMA StepPathInv == PathInv /\ [PathNext]_pathVars => PathInv'
  <1> SUFFICES ASSUME PathInv, [PathNext]_pathVars PROVE PathInv'
      OBVIOUS
  <1>1. CASE PathNext
      BY <1>1, WormholePathInv, HandOverPathInv, InPipePathInv, AppEndsPathInv DEF PathNext
  <1>2. CASE UNCHANGED pathVars
    <2>1. UNCHANGED vars /\ UNCHANGED wormholeVars /\ latest' = latest /\ given' = given
        BY <1>2 DEF pathVars, wormholeVars, vars
    <2>2. PipeInv'
        BY <2>1, StutterPipeInv DEF PathInv
    <2>3. WormholeInv'
        BY <2>1, StepWormholeInv DEF PathInv
    <2>4. Sent'
        BY <2>1 DEF PathInv, Sent
    <2> QED BY <2>2, <2>3, <2>4 DEF PathInv
  <1> QED BY <1>1, <1>2

THEOREM PathInductive == PathSpec => []PathInv
  <1>1. PathInit => PathInv
      BY InitPathInv
  <1>2. PathInv /\ [PathNext]_pathVars => PathInv'
      BY StepPathInv
  <1> QED BY <1>1, <1>2, PTL DEF PathSpec

\* Packets, bytes, messages and notifications keep their types.
THEOREM PathTypeCorrect == PathSpec => []PathTypeOK
  <1>1. PathInv => PathTypeOK
      BY DEF PathInv, PathTypeOK, PipeInv, WormholeInv
  <1> QED BY <1>1, PathInductive, PTL

\* As long as the framing holds, the edge reads the packets that writePackets was
\* given, all of them, whole and in order; the first frame that is not is the
\* beginning of a packet longer than PIPE_BUF.
THEOREM PathKeepsFraming == PathSpec => []FramingKept
  <1>1. PathInv => FramingKept
      BY DEF PathInv, PipeInv
  <1> QED BY <1>1, PathInductive, PTL

\* The order of the frames is kept on the whole way.
LEMMA StepPathOrder == PathInv /\ OrderInv /\ [PathNext]_pathVars => OrderInv'
  <1> SUFFICES ASSUME PathInv, OrderInv, [PathNext]_pathVars PROVE OrderInv'
      OBVIOUS
  <1>1. PipeInv
      BY DEF PathInv
  <1>2. CASE Extension \/ AppListens \/ AppNotified \/ UNCHANGED pathVars
    <2>1. UNCHANGED vars
        BY <1>2 DEF Extension, AppListens, AppNotified, pathVars
    <2> QED BY <2>1, StutterOrderInv
  <1>3. CASE HandOver
    <2>1. latest' \in Packets
        BY <1>3, HandedOverIsPacket
    <2> QED BY <1>1, <1>3, <2>1, SubmitOrder DEF HandOver
  <1>4. CASE InPipe
      BY <1>1, <1>4, StepOrderInv DEF InPipe
  <1>5. CASE AppEnds
      BY <1>1, <1>5, StepOrderInv DEF AppEnds
  <1> QED BY <1>2, <1>3, <1>4, <1>5 DEF PathNext

\* Where no payload spells the head, the edge takes nothing for a packet but the
\* beginning of one, each of them once and in the order of writing, also after a cut.
THEOREM PathKeepsOrder == PathSpec => []FramesInOrder
  <1>1. PathInit => OrderInv
      BY InitOrderInv DEF PathInit
  <1>2. PathInv /\ OrderInv /\ [PathNext]_pathVars => OrderInv'
      BY StepPathOrder
  <1>3. OrderInv => FramesInOrder
      BY DEF OrderInv
  <1> QED BY <1>1, <1>2, <1>3, PathInductive, PTL DEF PathSpec

----------------------------------------------------------------------------
(* The way is a mailbox.                                                   *)

\* Only the end of a tuntap_read changes what the edge read last.
LEMMA OthersLeaveFrames ==
    MainStep \/ Close \/ SelectReturns \/ ReadHead \/ ReadLength \/ ReadFails \/ EdgeEnd
        => UNCHANGED <<given, frames>>
  BY DEF MainStep, WriteHead, WriteLength, Word, WriteFails, WritePayload, Close,
         SelectReturns, ReadHead, ReadLength, ReadFails, EdgeEnd

\* What tuntap_read returns is of a packet that came after what it returned last.
LEMMA ReadNewer ==
    ASSUME PipeInv, ReadPayload
    PROVE  /\ given' = given /\ frames' # <<>>
           /\ NewestFrame' \in 1 .. Len(given)
           /\ frames # <<>> => NewestFrame \in 1 .. Len(given) /\ NewestFrame <= NewestFrame'
  <1>1. TypeOK /\ Behind /\ reader.want \in Nat \ {0} /\ Read(reader.want)
      BY DEF PipeInv, ReadPayload, TypeOK
  <1>2. given' = given /\ UNCHANGED <<open, main, given>> /\ frames' = Append(frames, Taken(reader.want))
      BY DEF ReadPayload
  <1>3. PICK m \in 1 .. Len(pipe) : Taken(reader.want) = SubSeq(pipe, 1, m)
      BY <1>1, <1>2, ReadTakes
  <1>4. pipe \in Seq(FrameBytes) /\ Len(pipe) \in Nat /\ 1 \in 1 .. Len(pipe) /\ 1 \in 1 .. m
      BY <1>1, <1>3 DEF TypeOK
  <1>5. Taken(reader.want)[1] = pipe[1] /\ Coming[1] = pipe[1]
    <2>1. SubSeq(pipe, 1, m)[1] = pipe[1]
        BY <1>3, <1>4
    <2>2. 1 \in 1 .. Len(pipe) + 1 /\ 1 <= Len(pipe)
        BY <1>4
    <2> QED BY <1>3, <2>1, <2>2 DEF Coming
  <1>6. frames \in Seq(Seq(FrameBytes)) /\ Taken(reader.want) \in Seq(FrameBytes)
      BY <1>1, <1>3, <1>4 DEF TypeOK
  <1>7. frames' # <<>> /\ frames'[Len(frames')] = Taken(reader.want)
      BY <1>2, <1>6
  <1>8. NewestFrame' = pipe[1][1]
      BY <1>5, <1>7 DEF NewestFrame
  <1>9. pipe[1][1] \in 1 .. Len(given)
    <2>1. pipe[1] \in FrameBytes /\ DOMAIN given = 1 .. Len(given)
        BY <1>1, <1>4 DEF TypeOK
    <2> QED BY <2>1 DEF FrameBytes
  <1>10. frames # <<>> => NewestFrame \in 1 .. Len(given) /\ NewestFrame <= pipe[1][1]
      BY <1>1, <1>5, NewestGiven DEF Behind
  <1> QED BY <1>2, <1>7, <1>8, <1>9, <1>10

LEMMA StepSimulatesMailbox ==
    PathInv /\ [PathNext]_pathVars => [Edge!Next]_(Edge!vars)
  <1> SUFFICES ASSUME PathInv, [PathNext]_pathVars PROVE [Edge!Next]_(Edge!vars)
      OBVIOUS
  <1> USE DEF Edge!Next, Edge!vars
  <1>1. TypeOK /\ Behind /\ PipeInv /\ Sent /\ WormholeInv
      BY DEF PathInv, PipeInv
  <1>2. ASSUME UNCHANGED <<passed, given, frames>> PROVE UNCHANGED Edge!vars
      BY <1>2 DEF LastRead
  <1>3. CASE Extension
    <2>1. UNCHANGED <<given, frames>>
        BY <1>3 DEF Extension, vars
    <2>2. LastRead' = LastRead
        BY <2>1 DEF LastRead
    <2>3. CASE Write
        BY <2>2, <2>3 DEF Write, Edge!Pass
    <2>4. CASE Post
        BY <2>2, <2>4 DEF Post
    <2> QED BY <1>3, <2>3, <2>4 DEF Extension
  <1>4. CASE AppListens \/ AppNotified
      BY <1>2, <1>4 DEF AppListens, AppNotified, Listen, Receive, sender, vars
  <1>5. CASE HandOver
    <2>1. passed' = passed /\ frames' = frames /\ given' = Append(given, latest')
        BY <1>5 DEF HandOver, RunListener, sender, Submit
    <2>2. LastRead' = LastRead
      <3>1. CASE frames = <<>>
          BY <2>1, <3>1 DEF LastRead
      <3>2. CASE frames # <<>>
        <4>1. NewestFrame \in 1 .. Len(given)
            BY <1>1, <3>2, NewestGiven
        <4>2. given \in Seq(Packets)
            BY <1>1 DEF TypeOK
        <4>3. given'[NewestFrame] = given[NewestFrame]
            BY <2>1, <4>1, <4>2
        <4> QED BY <2>1, <3>2, <4>3 DEF LastRead, NewestFrame
      <3> QED BY <3>1, <3>2
    <2> QED BY <2>1, <2>2
  <1>6. CASE InPipe
    <2>1. passed' = passed
        BY <1>6 DEF InPipe, wormholeVars, sender
    <2>2. CASE MainStep \/ Close \/ SelectReturns \/ ReadHead \/ ReadLength \/ ReadFails \/ EdgeEnd
        BY <1>2, <2>1, <2>2, OthersLeaveFrames
    <2>3. CASE ReadPayload
      <3>1. /\ given' = given /\ frames' # <<>>
            /\ NewestFrame' \in 1 .. Len(given)
            /\ frames # <<>> => NewestFrame \in 1 .. Len(given) /\ NewestFrame <= NewestFrame'
          BY <1>1, <2>3, ReadNewer
      <3>2. LastRead' = given[NewestFrame']
          BY <3>1 DEF LastRead, NewestFrame
      <3>3. given \in Seq(1 .. MaxMessages) /\ MaxMessages \in Nat
          BY <1>1, PathBounds DEF TypeOK
      <3>4. LastRead' \in 1 .. MaxMessages /\ LastRead' <= latest
          BY <1>1, <3>1, <3>2, <3>3 DEF Sent
      <3>5. latest <= file /\ file <= passed /\ latest \in Nat /\ file \in Nat /\ passed \in Nat
          BY <1>1, PathBounds DEF WormholeInv, WormholeTypeOK, Notified, Ordered
      <3>6. LastRead <= LastRead'
        <4>1. CASE frames = <<>>
            BY <3>3, <3>4, <4>1 DEF LastRead
        <4>2. CASE frames # <<>>
          <5>1. LastRead = given[NewestFrame]
              BY <4>2 DEF LastRead, NewestFrame
          <5> QED BY <1>1, <3>1, <3>2, <4>2, <5>1 DEF Sent
        <4> QED BY <4>1, <4>2
      <3>7. LastRead' \in 1 .. passed
          BY <3>3, <3>4, <3>5
      <3> QED BY <2>1, <3>6, <3>7 DEF Edge!Arrive
    <2> QED BY <1>6, <2>2, <2>3 DEF InPipe, ReaderStep
  <1>7. CASE UNCHANGED pathVars
      BY <1>2, <1>7 DEF pathVars, wormholeVars, sender, vars
  <1>8. CASE AppEnds
      BY <1>2, <1>8 DEF AppEnds, Quit, ProcessEnds, sender
  <1> QED BY <1>3, <1>4, <1>5, <1>6, <1>7, <1>8 DEF PathNext

\* The whole way, wormhole and pipe, implements the mailbox: the edge reads nothing
\* that the system did not send, and nothing after something newer, also after frames
\* that a full pipe has cut.
THEOREM PathImplementsMailbox == PathSpec => PathIsMailbox
  <1>1. PathInit => Edge!Init
      BY DEF PathInit, WormholeInit, Init, Edge!Init, LastRead
  <1>2. PathInv /\ [PathNext]_pathVars => [Edge!Next]_(Edge!vars)
      BY StepSimulatesMailbox
  <1> QED BY <1>1, <1>2, PathInductive, PTL DEF PathSpec, PathIsMailbox, Edge!Spec

\* Also on the whole way, where the main thread takes nothing from the wormhole while
\* it waits for the pipe, the listener gets nothing older than what it got before.
THEOREM PathKeepsMailbox == PathSpec => MailboxSpec
  <1>1. PathInit => Channel!Init
      BY DEF PathInit, WormholeInit, Channel!Init
  <1>2. PathInv /\ [PathNext]_pathVars => [Channel!Next]_(Channel!vars)
    <2> SUFFICES ASSUME PathInv, [PathNext]_pathVars PROVE [Channel!Next]_(Channel!vars)
        OBVIOUS
    <2>1. [WormholeNext]_wormholeVars
        BY DEF PathNext, Extension, AppListens, AppNotified, HandOver, InPipe, AppEnds,
               WormholeNext, pathVars
    <2> QED BY <2>1, StepSimulates DEF PathInv
  <1> QED BY <1>1, <1>2, PathInductive, PTL DEF PathSpec, MailboxSpec, Channel!Spec
=============================================================================
