--------------------------- MODULE FuzzInputProofs ---------------------------
(***************************************************************************)
(* The three parsers of the input format agree, and fuzzServer stays within   *)
(* its input and sends what the replay sends: for every input of bytes and    *)
(* every limit of packets.                                                    *)
(*                                                                           *)
(* The parsers are recursive functions, so there is induction over the input. *)
(* It is done with sets: the numbers that a statement is true of are a set,   *)
(* and a set with 0 and every successor is Nat (NatRule).  A recursive        *)
(* function is first shown to exist (WalkExists, ParseExists), which gives    *)
(* its equation.                                                              *)
(***************************************************************************)
EXTENDS FuzzInput, FiniteSetTheorems, SequenceTheorems, TLAPS

Byte == 0 .. 255

\* A set of numbers that is not empty has a least one.
LEMMA NatLeast ==
    ASSUME NEW T \in SUBSET Nat, T # {}
    PROVE  \E m \in T : \A n \in T : m <= n
<1> DEFINE I == {0 .. n : n \in T}
<1>1. I \subseteq FiniteSubsetsOf(Nat)
    <2> SUFFICES ASSUME NEW n \in T PROVE 0 .. n \in FiniteSubsetsOf(Nat)
        OBVIOUS
    <2>1. IsFiniteSet(0 .. n)
        BY FS_Interval
    <2> QED BY <2>1 DEF FiniteSubsetsOf
<1>2. IsWellFoundedOn(StrictSubsetOrdering(Nat), FiniteSubsetsOf(Nat))
    BY FS_StrictSubsetOrderingWellFounded
<1>3. PICK x \in I : \A y \in I : <<y, x>> \notin StrictSubsetOrdering(Nat)
    <2>1. I # {}
        OBVIOUS
    <2> HIDE DEF I
    <2> QED BY <1>1, <1>2, <2>1, WFMin
<1>4. PICK m \in T : x = 0 .. m
    OBVIOUS
<1>5. ASSUME NEW n \in T, n < m PROVE FALSE
    <2>1. 0 .. n \in I /\ 0 .. n \subseteq 0 .. m /\ 0 .. n # 0 .. m
        BY <1>5
    <2>2. <<0 .. n, 0 .. m>> \in StrictSubsetOrdering(Nat)
        BY <2>1 DEF StrictSubsetOrdering
    <2> QED BY <2>1, <2>2, <1>3, <1>4
<1> QED BY <1>5

\* Induction: the numbers that something is true of are all numbers.
LEMMA NatRule ==
    ASSUME NEW T \in SUBSET Nat, 0 \in T, \A n \in T : n + 1 \in T
    PROVE  \A n \in Nat : n \in T
<1> SUFFICES ASSUME Nat \ T # {} PROVE FALSE
    OBVIOUS
<1>1. PICK m \in Nat \ T : \A n \in Nat \ T : m <= n
    BY NatLeast
<1>2. m - 1 \in T
    BY <1>1
<1> QED BY <1>1, <1>2

-----------------------------------------------------------------------------
(* The walk of fuzzValidMultipacketData *)

\* The equation of the walk over p, at offset at[1] after at[2] packets.
Places(p) == (0 .. Len(p)) \X (0 .. MaxPackets)

WalkAt(f, p, at) ==
    IF at[1] = Len(p)
    THEN at[2] > 0
    ELSE /\ Len(p) - at[1] >= 2
         /\ LengthAt(p, at[1]) # 0
         /\ LengthAt(p, at[1]) <= Len(p) - (at[1] + 2)
         /\ at[2] < MaxPackets
         /\ f[<<at[1] + 2 + LengthAt(p, at[1]), at[2] + 1>>]

IsWalk(f, p) == f = [at \in Places(p) |-> WalkAt(f, p, at)]

Walk(p) == CHOOSE f : IsWalk(f, p)

\* A length that is there is a number.
LEMMA LengthType ==
    ASSUME NEW p \in Seq(Byte), NEW o \in Nat, o + 2 <= Len(p)
    PROVE  /\ LengthAt(p, o) \in Nat
           /\ LengthAt(p, o) \div 256 = p[o + 1]
           /\ LengthAt(p, o) % 256 = p[o + 2]
<1>1. p[o + 1] \in Byte /\ p[o + 2] \in Byte
    BY ElementOfSeq
<1>2. ASSUME NEW a \in Byte, NEW b \in Byte
      PROVE  /\ 256 * a + b \in Nat
             /\ (256 * a + b) \div 256 = a
             /\ (256 * a + b) % 256 = b
    <2>1. a \in Nat /\ b \in Nat /\ b < 256
        BY DEF Byte
    <2>2. (256 * a + b) \div 256 = a
        BY <2>1
    <2>3. (256 * a + b) % 256 = b
        BY <2>1
    <2> QED BY <2>1, <2>2, <2>3
<1> QED BY <1>1, <1>2, ZenonT(30) DEF LengthAt

\* The place the walk goes on to is one, and further on.
LEMMA WalkGoesOn ==
    ASSUME NEW p \in Seq(Byte), NEW at \in Places(p),
           Len(p) - at[1] >= 2, LengthAt(p, at[1]) # 0,
           LengthAt(p, at[1]) <= Len(p) - (at[1] + 2), at[2] < MaxPackets
    PROVE  /\ <<at[1] + 2 + LengthAt(p, at[1]), at[2] + 1>> \in Places(p)
           /\ LengthAt(p, at[1]) \in Nat
<1>1. LengthAt(p, at[1]) \in Nat
    BY LengthType DEF Places
<1> QED BY <1>1, MaxPacketsAssumption DEF Places

\* There is such a function: the equation can be solved from the end.
LEMMA WalkExists ==
    ASSUME NEW p \in Seq(Byte)
    PROVE  IsWalk(Walk(p), p)
<1> USE MaxPacketsAssumption
<1> DEFINE Solves(f, k) == \A at \in Places(p) :
                               Len(p) - at[1] <= k => f[at] = WalkAt(f, p, at)
           T == {k \in Nat : \E f : Solves(f, k)}
<1>1. 0 \in T
    <2> DEFINE g == [at \in Places(p) |-> at[2] > 0]
    <2>1. ASSUME NEW at \in Places(p), Len(p) - at[1] <= 0
          PROVE  g[at] = WalkAt(g, p, at)
        <3>1. at[1] = Len(p)
            BY <2>1 DEF Places
        <3>2. g[at] = (at[2] > 0)
            OBVIOUS
        <3> HIDE DEF g
        <3> QED BY <3>1, <3>2 DEF WalkAt
    <2>2. Solves(g, 0)
        BY <2>1
    <2> HIDE DEF Solves, g
    <2> QED BY <2>2
<1>2. ASSUME NEW k \in T PROVE k + 1 \in T
    <2>1. PICK f : Solves(f, k)
        OBVIOUS
    <2> DEFINE g == [at \in Places(p) |-> WalkAt(f, p, at)]
    <2>2. ASSUME NEW at \in Places(p), Len(p) - at[1] <= k + 1
          PROVE  g[at] = WalkAt(g, p, at)
        <3>0. g[at] = WalkAt(f, p, at)
            OBVIOUS
        <3>1. CASE at[1] = Len(p)
            <4> HIDE DEF g
            <4> QED BY <3>0, <3>1 DEF WalkAt
        <3>2. CASE /\ Len(p) - at[1] >= 2 /\ LengthAt(p, at[1]) # 0
                   /\ LengthAt(p, at[1]) <= Len(p) - (at[1] + 2) /\ at[2] < MaxPackets
            <4> DEFINE next == <<at[1] + 2 + LengthAt(p, at[1]), at[2] + 1>>
            <4>1. next \in Places(p) /\ Len(p) - next[1] <= k
                <5>1. next \in Places(p) /\ LengthAt(p, at[1]) \in Nat
                    BY <3>2, WalkGoesOn
                <5>2. at[1] \in Nat /\ Len(p) \in Nat /\ k \in Nat
                    BY DEF Places
                <5>3. next[1] = at[1] + 2 + LengthAt(p, at[1])
                    OBVIOUS
                <5> HIDE DEF next
                <5> QED BY <5>1, <5>2, <5>3, <2>2
            <4>2. g[next] = WalkAt(f, p, next)
                BY <4>1
            <4>3. g[next] = f[next]
                BY <4>1, <4>2, <2>1
            <4> QED BY <4>3, <3>2 DEF WalkAt
        <3>3. CASE /\ at[1] # Len(p)
                   /\ ~(/\ Len(p) - at[1] >= 2 /\ LengthAt(p, at[1]) # 0
                        /\ LengthAt(p, at[1]) <= Len(p) - (at[1] + 2) /\ at[2] < MaxPackets)
            BY <3>3 DEF WalkAt
        <3> QED BY <3>1, <3>2, <3>3
    <2>3. Solves(g, k + 1)
        BY <2>2
    <2> HIDE DEF Solves, g
    <2> QED BY <2>3
<1>3. Len(p) \in T
    <2> HIDE DEF T
    <2>1. T \in SUBSET Nat
        BY DEF T
    <2> QED BY <1>1, <1>2, <2>1, NatRule
<1>4. PICK f : \A at \in Places(p) : f[at] = WalkAt(f, p, at)
    <2>1. PICK f : Solves(f, Len(p))
        BY <1>3
    <2>2. \A at \in Places(p) : Len(p) - at[1] <= Len(p)
        BY DEF Places
    <2> QED BY <2>1, <2>2
<1> DEFINE h == [at \in Places(p) |-> f[at]]
<1>5. ASSUME NEW at \in Places(p)
      PROVE  f[at] = WalkAt(h, p, at)
    <2>1. f[at] = WalkAt(f, p, at)
        BY <1>4
    <2>2. CASE /\ Len(p) - at[1] >= 2 /\ LengthAt(p, at[1]) # 0
               /\ LengthAt(p, at[1]) <= Len(p) - (at[1] + 2) /\ at[2] < MaxPackets
        <3> DEFINE next == <<at[1] + 2 + LengthAt(p, at[1]), at[2] + 1>>
        <3>1. next \in Places(p)
            BY <2>2, WalkGoesOn
        <3>2. f[next] = h[next]
            BY <3>1
        <3> HIDE DEF h
        <3> QED BY <3>2, <2>1, <2>2 DEF WalkAt
    <2> HIDE DEF h
    <2> QED BY <2>1, <2>2 DEF WalkAt
<1>6. IsWalk(h, p)
    BY <1>5 DEF IsWalk
<1> HIDE DEF h
<1> QED BY <1>6 DEF Walk

LEMMA WalkIs ==
    ASSUME NEW p \in Seq(Byte)
    PROVE  ValidMultipacket(p) = Walk(p)[<<0, 0>>]
BY DEF ValidMultipacket, Walk, IsWalk, WalkAt, Places

-----------------------------------------------------------------------------
(* The parse of fuzzer_packets *)

\* What stops the parse at offset o of d.
Cut(d, o) ==
    \/ Len(d) - o < 2
    \/ LengthAt(d, o) = 0
    \/ o + 2 + LengthAt(d, o) > Len(d)

End(d, o) == o + 2 + LengthAt(d, o)

ParseAt(f, d, o) ==
    IF o = Len(d)
    THEN <<>>
    ELSE IF Cut(d, o)
    THEN Invalid
    ELSE IF f[End(d, o)] = Invalid THEN Invalid
    ELSE <<SubSeq(d, o + 3, End(d, o))>> \o f[End(d, o)]

IsParse(f, d) == f = [o \in 1 .. Len(d) |-> ParseAt(f, d, o)]

Parse(d) == CHOOSE f : IsParse(f, d)

LEMMA ParseIs ==
    ASSUME NEW d \in Seq(Byte), d # <<>>, Multipacket(d)
    PROVE  FuzzerPackets(d) =
             IF Parse(d)[1] = Invalid THEN Invalid
             ELSE IF Len(Parse(d)[1]) \in 1 .. MaxPackets THEN Parse(d)[1] ELSE Invalid
BY DEF FuzzerPackets, Parse, IsParse, ParseAt, Cut, End

\* The end of a packet that is there is within d.
LEMMA ParseGoesOn ==
    ASSUME NEW d \in Seq(Byte), NEW o \in 1 .. Len(d), ~Cut(d, o)
    PROVE  /\ LengthAt(d, o) \in Nat \ {0}
           /\ End(d, o) \in 1 .. Len(d)
           /\ End(d, o) = o + 2 + LengthAt(d, o)
           /\ o # Len(d)
<1>1. o \in Nat /\ Len(d) \in Nat /\ o + 2 <= Len(d)
    BY DEF Cut
<1>2. LengthAt(d, o) \in Nat
    BY <1>1, LengthType
<1> QED BY <1>1, <1>2 DEF Cut, End

LEMMA ParseExists ==
    ASSUME NEW d \in Seq(Byte)
    PROVE  IsParse(Parse(d), d)
<1> DEFINE Solves(f, k) == \A o \in 1 .. Len(d) :
                               Len(d) - o <= k => f[o] = ParseAt(f, d, o)
           T == {k \in Nat : \E f : Solves(f, k)}
<1>0. Len(d) \in Nat
    OBVIOUS
<1>1. 0 \in T
    <2> DEFINE g == [o \in 1 .. Len(d) |-> <<>>]
    <2>1. ASSUME NEW o \in 1 .. Len(d), Len(d) - o <= 0
          PROVE  g[o] = ParseAt(g, d, o)
        <3>1. o = Len(d)
            BY <2>1, <1>0
        <3>2. g[o] = <<>>
            OBVIOUS
        <3> HIDE DEF g
        <3> QED BY <3>1, <3>2 DEF ParseAt
    <2>2. Solves(g, 0)
        BY <2>1
    <2> HIDE DEF Solves, g
    <2> QED BY <2>2
<1>2. ASSUME NEW k \in T PROVE k + 1 \in T
    <2>1. PICK f : Solves(f, k)
        OBVIOUS
    <2> DEFINE g == [o \in 1 .. Len(d) |-> ParseAt(f, d, o)]
    <2>2. ASSUME NEW o \in 1 .. Len(d), Len(d) - o <= k + 1
          PROVE  g[o] = ParseAt(g, d, o)
        <3>1. g[o] = ParseAt(f, d, o)
            OBVIOUS
        <3>2. CASE o # Len(d) /\ ~Cut(d, o)
            <4>1. End(d, o) \in 1 .. Len(d) /\ Len(d) - End(d, o) <= k
                BY <2>2, <3>2, <1>0, ParseGoesOn
            <4>2. g[End(d, o)] = ParseAt(f, d, End(d, o))
                BY <4>1
            <4>3. f[End(d, o)] = ParseAt(f, d, End(d, o))
                BY <4>1, <2>1
            <4> HIDE DEF g
            <4> QED BY <3>1, <4>2, <4>3, <3>2 DEF ParseAt
        <3>3. CASE o = Len(d) \/ Cut(d, o)
            <4> HIDE DEF g
            <4> QED BY <3>1, <3>3 DEF ParseAt
        <3> QED BY <3>2, <3>3
    <2>3. Solves(g, k + 1)
        BY <2>2
    <2> HIDE DEF Solves, g
    <2> QED BY <2>3
<1>3. Len(d) \in T
    <2>1. T \in SUBSET Nat
        OBVIOUS
    <2> HIDE DEF T
    <2> QED BY <1>0, <1>1, <1>2, <2>1, NatRule
<1>4. PICK f : \A o \in 1 .. Len(d) : f[o] = ParseAt(f, d, o)
    <2>1. PICK f : Solves(f, Len(d))
        BY <1>3
    <2>2. \A o \in 1 .. Len(d) : Len(d) - o <= Len(d)
        BY <1>0
    <2> QED BY <2>1, <2>2
<1> DEFINE h == [o \in 1 .. Len(d) |-> f[o]]
<1>5. ASSUME NEW o \in 1 .. Len(d)
      PROVE  f[o] = ParseAt(h, d, o)
    <2>1. f[o] = ParseAt(f, d, o)
        BY <1>4
    <2>2. CASE o # Len(d) /\ ~Cut(d, o)
        <3>1. End(d, o) \in 1 .. Len(d)
            BY <2>2, ParseGoesOn
        <3>2. f[End(d, o)] = h[End(d, o)]
            BY <3>1
        <3> HIDE DEF h
        <3> QED BY <3>2, <2>1, <2>2 DEF ParseAt
    <2>3. CASE o = Len(d) \/ Cut(d, o)
        <3> HIDE DEF h
        <3> QED BY <2>1, <2>3 DEF ParseAt
    <2> QED BY <2>2, <2>3
<1>6. IsParse(h, d)
    BY <1>5 DEF IsParse
<1> HIDE DEF h
<1> QED BY <1>6 DEF Parse

\* The equation of the parse, at one offset.
LEMMA ParseStep ==
    ASSUME NEW d \in Seq(Byte), NEW o \in 1 .. Len(d)
    PROVE  Parse(d)[o] = ParseAt(Parse(d), d, o)
<1>1. IsParse(Parse(d), d)
    BY ParseExists
<1> QED BY <1>1 DEF IsParse

\* What a parse that is not Invalid is: packets.
LEMMA ParseType ==
    ASSUME NEW d \in Seq(Byte), NEW o \in 1 .. Len(d), Parse(d)[o] # Invalid
    PROVE  Parse(d)[o] \in Seq(Seq(Byte))
<1> DEFINE Typed(n) == Parse(d)[n] = Invalid \/ Parse(d)[n] \in Seq(Seq(Byte))
           T == {k \in Nat : \A n \in 1 .. Len(d) : Len(d) - n <= k => Typed(n)}
<1>0. Len(d) \in Nat
    OBVIOUS
<1>1. 0 \in T
    <2>1. ASSUME NEW n \in 1 .. Len(d), Len(d) - n <= 0 PROVE Typed(n)
        <3>1. n = Len(d)
            BY <2>1, <1>0
        <3>2. Parse(d)[n] = <<>>
            BY <3>1, ParseStep DEF ParseAt
        <3> QED BY <3>2
    <2> HIDE DEF Typed
    <2> QED BY <2>1
<1>2. ASSUME NEW k \in T PROVE k + 1 \in T
    <2>1. ASSUME NEW n \in 1 .. Len(d), Len(d) - n <= k + 1 PROVE Typed(n)
        <3>1. Parse(d)[n] = ParseAt(Parse(d), d, n)
            BY ParseStep
        <3>2. CASE n # Len(d) /\ ~Cut(d, n) /\ Parse(d)[End(d, n)] # Invalid
            <4>1. End(d, n) \in 1 .. Len(d) /\ Len(d) - End(d, n) <= k
                BY <2>1, <3>2, <1>0, ParseGoesOn
            <4>2. Typed(End(d, n))
                BY <4>1
            <4>3. SubSeq(d, n + 3, End(d, n)) \in Seq(Byte)
                BY <4>1, <1>0, SubSeqProperties
            <4>4. <<SubSeq(d, n + 3, End(d, n))>> \o Parse(d)[End(d, n)]
                     \in Seq(Seq(Byte))
                BY <4>2, <4>3, <3>2, ConcatProperties
            <4> QED BY <4>4, <3>1, <3>2 DEF ParseAt
        <3>3. CASE n = Len(d) \/ Cut(d, n) \/ Parse(d)[End(d, n)] = Invalid
            BY <3>1, <3>3 DEF ParseAt
        <3> QED BY <3>2, <3>3
    <2> HIDE DEF Typed
    <2> QED BY <2>1
<1>3. Len(d) \in T
    <2>1. T \in SUBSET Nat
        OBVIOUS
    <2> HIDE DEF T
    <2> QED BY <1>0, <1>1, <1>2, <2>1, NatRule
<1>4. Typed(o)
    <2> HIDE DEF Typed
    <2> QED BY <1>0, <1>3
<1> QED BY <1>4

\* What the parse is where a packet is: that packet, then the others.
LEMMA ParseCons ==
    ASSUME NEW d \in Seq(Byte), NEW o \in 1 .. Len(d), o # Len(d),
           Parse(d)[o] # Invalid
    PROVE  LET packet == SubSeq(d, o + 3, End(d, o)) IN
           /\ ~Cut(d, o)
           /\ End(d, o) \in 1 .. Len(d)
           /\ Parse(d)[End(d, o)] \in Seq(Seq(Byte))
           /\ Parse(d)[End(d, o)] # Invalid
           /\ packet \in Seq(Byte)
           /\ Len(packet) = LengthAt(d, o)
           /\ Parse(d)[o] = <<packet>> \o Parse(d)[End(d, o)]
           /\ Len(Parse(d)[o]) = 1 + Len(Parse(d)[End(d, o)])
<1> DEFINE packet == SubSeq(d, o + 3, End(d, o))
           rest == Parse(d)[End(d, o)]
<1>0. Len(d) \in Nat
    OBVIOUS
<1>1. Parse(d)[o] = ParseAt(Parse(d), d, o)
    BY ParseStep
<1>2. ~Cut(d, o) /\ rest # Invalid /\ Parse(d)[o] = <<packet>> \o rest
    BY <1>1 DEF ParseAt
<1>3. /\ LengthAt(d, o) \in Nat \ {0}
      /\ End(d, o) \in 1 .. Len(d)
      /\ End(d, o) = o + 2 + LengthAt(d, o)
    BY <1>2, ParseGoesOn
<1>4. rest \in Seq(Seq(Byte))
    BY <1>2, <1>3, ParseType
<1>5. packet \in Seq(Byte) /\ Len(packet) = LengthAt(d, o)
    <2>1. \A i \in o + 3 .. End(d, o) : d[i] \in Byte
        BY <1>0, <1>3
    <2> HIDE DEF packet
    <2> QED BY <2>1, <1>3, <1>0, SubSeqProperties DEF packet
<1>6. Len(<<packet>> \o rest) = 1 + Len(rest)
    <2> HIDE DEF packet, rest
    <2> QED BY <1>4, <1>5, ConcatProperties
<1> QED BY <1>2, <1>3, <1>4, <1>5, <1>6

\* p is the payload of the input d, as far as the framing goes.
IsPayload(p, d) ==
    /\ p \in Seq(Byte)
    /\ Len(d) = Len(p) + 1
    /\ \A o \in Nat : o + 2 <= Len(p) => LengthAt(p, o) = LengthAt(d, o + 1)

LEMMA TailIs ==
    ASSUME NEW d \in Seq(Byte), d # <<>>
    PROVE  IsPayload(Tail(d), d)
<1>1. /\ Tail(d) \in Seq(Byte)
      /\ Len(Tail(d)) = Len(d) - 1
      /\ \A i \in 1 .. Len(Tail(d)) : Tail(d)[i] = d[i + 1]
    BY HeadTailProperties
<1>2. Len(d) \in Nat \ {0}
    BY EmptySeq
<1>3. ASSUME NEW o \in Nat, o + 2 <= Len(Tail(d))
      PROVE  LengthAt(Tail(d), o) = LengthAt(d, o + 1)
    <2>1. Tail(d)[o + 1] = d[o + 1 + 1] /\ Tail(d)[o + 2] = d[o + 2 + 1]
        BY <1>1, <1>2, <1>3
    <2>2. o + 2 + 1 = o + 1 + 2
        OBVIOUS
    <2> QED BY <2>1, <2>2 DEF LengthAt
<1> QED BY <1>1, <1>2, <1>3 DEF IsPayload

-----------------------------------------------------------------------------
(* The walk and the parse agree *)

\* The parse goes well from offset o, after c packets.
Parses(d, o, c) ==
    Parse(d)[o] # Invalid /\ c + Len(Parse(d)[o]) \in 1 .. MaxPackets

\* The equation of the walk, at one place.
LEMMA WalkStep ==
    ASSUME NEW p \in Seq(Byte), NEW o \in 0 .. Len(p), NEW c \in 0 .. MaxPackets
    PROVE  Walk(p)[<<o, c>>] = WalkAt(Walk(p), p, <<o, c>>)
<1>1. IsWalk(Walk(p), p)
    BY WalkExists
<1>2. <<o, c>> \in Places(p)
    BY DEF Places
<1> QED BY <1>1, <1>2 DEF IsWalk

\* One step of the walk and of the parse, where there is a packet.
LEMMA StepsAgree ==
    ASSUME NEW d \in Seq(Byte), NEW p, IsPayload(p, d),
           NEW o \in 0 .. Len(p), NEW c \in 0 .. MaxPackets,
           ~Cut(d, o + 1), c < MaxPackets
    PROVE  LET next == o + 2 + LengthAt(p, o) IN
           /\ next \in 0 .. Len(p)
           /\ Len(p) - next < Len(p) - o
           /\ next + 1 = End(d, o + 1)
           /\ Walk(p)[<<o, c>>] <=> Walk(p)[<<next, c + 1>>]
           /\ Parses(d, o + 1, c) <=> Parses(d, next + 1, c + 1)
<1> DEFINE next == o + 2 + LengthAt(p, o)
<1>0. MaxPackets \in Nat \ {0}
    BY MaxPacketsAssumption
<1>1. p \in Seq(Byte) /\ Len(p) \in Nat /\ Len(d) = Len(p) + 1
    BY DEF IsPayload
<1>2. /\ LengthAt(d, o + 1) \in Nat \ {0}
      /\ End(d, o + 1) \in 1 .. Len(d)
      /\ End(d, o + 1) = o + 1 + 2 + LengthAt(d, o + 1)
      /\ o + 1 # Len(d)
      /\ o + 1 \in 1 .. Len(d)
    BY <1>1, ParseGoesOn
<1>3. LengthAt(p, o) = LengthAt(d, o + 1)
    <2>1. o \in Nat /\ o + 2 <= Len(p)
        BY <1>1, <1>2
    <2> QED BY <2>1 DEF IsPayload
<1>4. /\ next \in 0 .. Len(p)
      /\ Len(p) - next < Len(p) - o
      /\ next + 1 = End(d, o + 1)
    <2> QED BY <1>1, <1>2, <1>3
<1>5. Walk(p)[<<o, c>>] <=> Walk(p)[<<next, c + 1>>]
    <2>1. Walk(p)[<<o, c>>] = WalkAt(Walk(p), p, <<o, c>>)
        BY <1>1, WalkStep
    <2>2. /\ o # Len(p) /\ Len(p) - o >= 2 /\ LengthAt(p, o) # 0
          /\ LengthAt(p, o) <= Len(p) - (o + 2)
        <3> QED BY <1>1, <1>2, <1>3
    <2>3. <<o, c>>[1] = o /\ <<o, c>>[2] = c
        OBVIOUS
    <2>4. WalkAt(Walk(p), p, <<o, c>>) <=> Walk(p)[<<next, c + 1>>]
        BY <2>2, <2>3 DEF WalkAt
    <2> QED BY <2>1, <2>4
<1>6. Parses(d, o + 1, c) <=> Parses(d, next + 1, c + 1)
    <2>1. Parse(d)[o + 1] = ParseAt(Parse(d), d, o + 1)
        BY <1>2, ParseStep
    <2>2. CASE Parse(d)[next + 1] = Invalid
        <3> HIDE DEF next
        <3> QED BY <1>2, <1>4, <2>1, <2>2 DEF ParseAt, Parses
    <2>3. CASE Parse(d)[next + 1] # Invalid
        <3>1. /\ Parse(d)[next + 1] \in Seq(Seq(Byte))
              /\ SubSeq(d, o + 1 + 3, End(d, o + 1)) \in Seq(Byte)
            <4>1. next + 1 \in 1 .. Len(d)
                BY <1>2, <1>4
            <4>2. \A i \in o + 1 + 3 .. End(d, o + 1) : d[i] \in Byte
                BY <1>1, <1>2
            <4> HIDE DEF next
            <4> QED BY <4>1, <4>2, <1>2, <2>3, ParseType, SubSeqProperties
        <3>2. /\ Parse(d)[o + 1] =
                   <<SubSeq(d, o + 1 + 3, End(d, o + 1))>> \o Parse(d)[next + 1]
            <4> HIDE DEF next
            <4> QED BY <1>2, <1>4, <2>1, <2>3 DEF ParseAt
        <3> HIDE DEF next
        <3>3. /\ Parse(d)[o + 1] \in Seq(Seq(Byte))
              /\ Len(Parse(d)[o + 1]) = 1 + Len(Parse(d)[next + 1])
            BY <3>1, <3>2, ConcatProperties
        <3>4. Parse(d)[o + 1] # Invalid
            BY <3>3, InvalidAssumption DEF Byte
        <3>5. Len(Parse(d)[next + 1]) \in Nat
            BY <3>1
        <3>6. c + (1 + Len(Parse(d)[next + 1])) = (c + 1) + Len(Parse(d)[next + 1])
            <4>1. c \in Nat
                BY <1>0
            <4>2. ASSUME NEW x \in Nat, NEW y \in Nat
                  PROVE  x + (1 + y) = (x + 1) + y
                OBVIOUS
            <4> QED BY <3>5, <4>1, <4>2
        <3> QED BY <3>3, <3>4, <3>6, <2>3 DEF Parses
    <2> QED BY <2>2, <2>3
<1> QED BY <1>4, <1>5, <1>6

LEMMA WalkParses ==
    ASSUME NEW d \in Seq(Byte), NEW p, IsPayload(p, d),
           NEW o \in 0 .. Len(p), NEW c \in 0 .. MaxPackets
    PROVE  Walk(p)[<<o, c>>] <=> Parses(d, o + 1, c)
<1> DEFINE Agree(n, b) == Walk(p)[<<n, b>>] <=> Parses(d, n + 1, b)
           T == {k \in Nat : \A n \in 0 .. Len(p), b \in 0 .. MaxPackets :
                                Len(p) - n <= k => Agree(n, b)}
<1>0. MaxPackets \in Nat \ {0}
    BY MaxPacketsAssumption
<1>1. p \in Seq(Byte) /\ Len(p) \in Nat /\ Len(d) = Len(p) + 1
    BY DEF IsPayload
<1>2. ASSUME NEW n \in 0 .. Len(p), NEW b \in 0 .. MaxPackets, n = Len(p)
      PROVE  Agree(n, b)
    <2>1. Walk(p)[<<n, b>>] = WalkAt(Walk(p), p, <<n, b>>)
        BY <1>1, WalkStep
    <2>2. Walk(p)[<<n, b>>] <=> b > 0
        <3> QED BY <1>2, <2>1 DEF WalkAt
    <2>3. n + 1 \in 1 .. Len(d) /\ n + 1 = Len(d)
        BY <1>1, <1>2
    <2>4. Parse(d)[n + 1] = <<>>
        BY <2>3, ParseStep DEF ParseAt
    <2>5. <<>> # Invalid
        <3>1. <<>> \in Seq(Seq(0 .. 255))
            OBVIOUS
        <3> QED BY <3>1, InvalidAssumption
    <2>6. Parses(d, n + 1, b) <=> b > 0
        BY <2>4, <2>5, <1>0 DEF Parses
    <2> QED BY <2>2, <2>6
<1>3. ASSUME NEW n \in 0 .. Len(p), NEW b \in 0 .. MaxPackets, n # Len(p),
             Cut(d, n + 1) \/ b = MaxPackets
      PROVE  Agree(n, b)
    <2>1. Walk(p)[<<n, b>>] = WalkAt(Walk(p), p, <<n, b>>)
        BY <1>1, WalkStep
    <2>2. n + 1 \in 1 .. Len(d) /\ n + 1 # Len(d)
        BY <1>1, <1>3
    <2>3. ~Walk(p)[<<n, b>>]
        <3>1. CASE b = MaxPackets
            <4> QED BY <2>1, <3>1, <1>0, <1>3 DEF WalkAt
        <3>2. CASE Cut(d, n + 1) /\ Len(p) - n >= 2
            <4>1. LengthAt(p, n) = LengthAt(d, n + 1) /\ LengthAt(p, n) \in Nat
                <5>1. n \in Nat /\ n + 2 <= Len(p)
                    BY <1>1, <3>2
                <5> QED BY <5>1, <1>1, LengthType DEF IsPayload
            <4>2. LengthAt(p, n) = 0 \/ ~(LengthAt(p, n) <= Len(p) - (n + 2))
                        <5> QED BY <4>1, <3>2, <1>1 DEF Cut
            <4> QED BY <2>1, <4>2, <1>3 DEF WalkAt
        <3>3. CASE ~(Len(p) - n >= 2)
            <4> QED BY <2>1, <3>3, <1>3 DEF WalkAt
        <3> QED BY <1>3, <3>1, <3>2, <3>3
    <2>4. ~Parses(d, n + 1, b)
        <3>1. CASE Cut(d, n + 1)
            BY <2>2, <3>1, ParseStep DEF ParseAt, Parses
        <3>2. CASE b = MaxPackets /\ Parse(d)[n + 1] # Invalid
            <4>1. /\ Len(Parse(d)[n + 1]) = 1 + Len(Parse(d)[End(d, n + 1)])
                  /\ Len(Parse(d)[End(d, n + 1)]) \in Nat
                <5>1. Parse(d)[End(d, n + 1)] \in Seq(Seq(Byte))
                    BY <2>2, <3>2, ParseCons
                <5>2. Len(Parse(d)[n + 1]) = 1 + Len(Parse(d)[End(d, n + 1)])
                    BY <2>2, <3>2, ParseCons
                <5> QED BY <5>1, <5>2
            <4> QED BY <4>1, <3>2, <1>0 DEF Parses
        <3> QED BY <1>3, <3>1, <3>2 DEF Parses
    <2> QED BY <2>3, <2>4
<1>4. 0 \in T
    <2>1. ASSUME NEW n \in 0 .. Len(p), NEW b \in 0 .. MaxPackets, Len(p) - n <= 0
          PROVE  Agree(n, b)
        <3>1. n = Len(p)
            BY <1>1, <2>1
        <3> HIDE DEF Agree
        <3> QED BY <3>1, <1>2
    <2> HIDE DEF Agree
    <2> QED BY <2>1
<1>5. ASSUME NEW k \in T PROVE k + 1 \in T
    <2>1. ASSUME NEW n \in 0 .. Len(p), NEW b \in 0 .. MaxPackets,
                 Len(p) - n <= k + 1
          PROVE  Agree(n, b)
        <3>1. CASE n # Len(p) /\ ~Cut(d, n + 1) /\ b # MaxPackets
            <4> DEFINE next == n + 2 + LengthAt(p, n)
            <4>1. b < MaxPackets /\ b + 1 \in 0 .. MaxPackets
                BY <1>0, <3>1
            <4>2. /\ next \in 0 .. Len(p)
                  /\ Len(p) - next < Len(p) - n
                  /\ Walk(p)[<<n, b>>] <=> Walk(p)[<<next, b + 1>>]
                  /\ Parses(d, n + 1, b) <=> Parses(d, next + 1, b + 1)
                BY <3>1, <4>1, StepsAgree
            <4>3. Len(p) - next <= k
                <5> HIDE DEF next
                <5> QED BY <4>2, <2>1, <1>1
            <4>4. Agree(next, b + 1)
                <5> HIDE DEF next, Agree
                <5> QED BY <4>1, <4>2, <4>3
            <4> HIDE DEF next
            <4> QED BY <4>2, <4>4
        <3>2. CASE ~(n # Len(p) /\ ~Cut(d, n + 1) /\ b # MaxPackets)
            <4> HIDE DEF Agree
            <4> QED BY <3>2, <1>2, <1>3
        <3> QED BY <3>1, <3>2
    <2> HIDE DEF Agree
    <2> QED BY <2>1
<1>6. Len(p) \in T
    <2>1. T \in SUBSET Nat
        OBVIOUS
    <2> HIDE DEF T
    <2> QED BY <1>1, <1>4, <1>5, <2>1, NatRule
<1>7. Agree(o, c)
    <2>1. Len(p) - o <= Len(p)
        BY <1>1
    <2> HIDE DEF Agree
    <2> QED BY <1>6, <2>1
<1> QED BY <1>7

-----------------------------------------------------------------------------
(* FlattenSeq puts sequences together one after the other *)

FlatAt(f, seqs, i) == IF i = 1 THEN seqs[i] ELSE f[i - 1] \o seqs[i]

IsFlat(f, seqs) == f = [i \in 1 .. Len(seqs) |-> FlatAt(f, seqs, i)]

Flat(seqs) == CHOOSE f : IsFlat(f, seqs)

LEMMA FlattenIs ==
    ASSUME NEW seqs, Len(seqs) # 0
    PROVE  FlattenSeq(seqs) = Flat(seqs)[Len(seqs)]
BY DEF FlattenSeq, Flat, IsFlat, FlatAt

LEMMA FlattenEmpty == FlattenSeq(<<>>) = <<>>
BY DEF FlattenSeq

LEMMA FlatExists ==
    ASSUME NEW seqs, Len(seqs) \in Nat
    PROVE  IsFlat(Flat(seqs), seqs)
<1> DEFINE Solves(f, k) == \A i \in 1 .. Len(seqs) : i <= k => f[i] = FlatAt(f, seqs, i)
           T == {k \in Nat : \E f : Solves(f, k)}
<1>1. 0 \in T
    <2>1. Solves(<<>>, 0)
        OBVIOUS
    <2> HIDE DEF Solves
    <2> QED BY <2>1
<1>2. ASSUME NEW k \in T PROVE k + 1 \in T
    <2>1. PICK f : Solves(f, k)
        OBVIOUS
    <2> DEFINE g == [i \in 1 .. Len(seqs) |-> FlatAt(f, seqs, i)]
    <2>2. ASSUME NEW i \in 1 .. Len(seqs), i <= k + 1
          PROVE  g[i] = FlatAt(g, seqs, i)
        <3>1. g[i] = FlatAt(f, seqs, i)
            OBVIOUS
        <3>2. CASE i # 1
            <4>1. i - 1 \in 1 .. Len(seqs) /\ i - 1 <= k
                BY <2>2, <3>2
            <4>2. g[i - 1] = FlatAt(f, seqs, i - 1)
                BY <4>1
            <4>3. f[i - 1] = FlatAt(f, seqs, i - 1)
                BY <4>1, <2>1
            <4> HIDE DEF g
            <4> QED BY <3>1, <4>2, <4>3, <3>2 DEF FlatAt
        <3>3. CASE i = 1
            <4> HIDE DEF g
            <4> QED BY <3>1, <3>3 DEF FlatAt
        <3> QED BY <3>2, <3>3
    <2>3. Solves(g, k + 1)
        BY <2>2
    <2> HIDE DEF Solves, g
    <2> QED BY <2>3
<1>3. Len(seqs) \in T
    <2>1. T \in SUBSET Nat
        OBVIOUS
    <2> HIDE DEF T
    <2> QED BY <1>1, <1>2, <2>1, NatRule
<1>4. PICK f : \A i \in 1 .. Len(seqs) : f[i] = FlatAt(f, seqs, i)
    <2>1. PICK f : Solves(f, Len(seqs))
        BY <1>3
    <2>2. \A i \in 1 .. Len(seqs) : i <= Len(seqs)
        OBVIOUS
    <2> QED BY <2>1, <2>2
<1> DEFINE h == [i \in 1 .. Len(seqs) |-> f[i]]
<1>5. ASSUME NEW i \in 1 .. Len(seqs)
      PROVE  f[i] = FlatAt(h, seqs, i)
    <2>1. f[i] = FlatAt(f, seqs, i)
        BY <1>4
    <2>2. CASE i # 1
        <3>1. i - 1 \in 1 .. Len(seqs)
            BY <2>2
        <3>2. f[i - 1] = h[i - 1]
            BY <3>1
        <3> HIDE DEF h
        <3> QED BY <3>2, <2>1, <2>2 DEF FlatAt
    <2>3. CASE i = 1
        <3> HIDE DEF h
        <3> QED BY <2>1, <2>3 DEF FlatAt
    <2> QED BY <2>2, <2>3
<1>6. IsFlat(h, seqs)
    BY <1>5 DEF IsFlat
<1> HIDE DEF h
<1> QED BY <1>6 DEF Flat

LEMMA FlatStep ==
    ASSUME NEW seqs, Len(seqs) \in Nat, NEW i \in 1 .. Len(seqs)
    PROVE  Flat(seqs)[i] = FlatAt(Flat(seqs), seqs, i)
<1>1. IsFlat(Flat(seqs), seqs)
    BY FlatExists
<1> QED BY <1>1 DEF IsFlat

LEMMA FlatType ==
    ASSUME NEW S, NEW seqs \in Seq(Seq(S))
    PROVE  \A i \in 1 .. Len(seqs) : Flat(seqs)[i] \in Seq(S)
<1> DEFINE T == {k \in Nat : \A i \in 1 .. Len(seqs) : i <= k => Flat(seqs)[i] \in Seq(S)}
<1>0. Len(seqs) \in Nat
    OBVIOUS
<1>1. 0 \in T
    OBVIOUS
<1>2. ASSUME NEW k \in T PROVE k + 1 \in T
    <2>1. ASSUME NEW i \in 1 .. Len(seqs), i <= k + 1
          PROVE  Flat(seqs)[i] \in Seq(S)
        <3>1. Flat(seqs)[i] = FlatAt(Flat(seqs), seqs, i) /\ seqs[i] \in Seq(S)
            BY <1>0, FlatStep, ElementOfSeq
        <3>2. CASE i # 1
            <4>1. i - 1 \in 1 .. Len(seqs) /\ i - 1 <= k
                BY <2>1, <3>2, <1>0
            <4>2. Flat(seqs)[i - 1] \in Seq(S)
                BY <4>1
            <4>3. Flat(seqs)[i - 1] \o seqs[i] \in Seq(S)
                BY <4>2, <3>1, ConcatProperties
            <4> QED BY <4>3, <3>1, <3>2 DEF FlatAt
        <3>3. CASE i = 1
            BY <3>1, <3>3 DEF FlatAt
        <3> QED BY <3>2, <3>3
    <2> QED BY <2>1
<1>3. Len(seqs) \in T
    <2>1. T \in SUBSET Nat
        OBVIOUS
    <2> HIDE DEF T
    <2> QED BY <1>0, <1>1, <1>2, <2>1, NatRule
<1> QED BY <1>0, <1>3

LEMMA FlattenType ==
    ASSUME NEW S, NEW seqs \in Seq(Seq(S))
    PROVE  FlattenSeq(seqs) \in Seq(S)
<1>1. CASE Len(seqs) = 0
    <2>1. seqs = <<>>
        BY <1>1
    <2>2. <<>> \in Seq(S)
        OBVIOUS
    <2> QED BY <2>1, <2>2, FlattenEmpty
<1>2. CASE Len(seqs) # 0
    <2>1. Len(seqs) \in 1 .. Len(seqs)
        BY <1>2
    <2> QED BY <1>2, <2>1, FlatType, FlattenIs
<1> QED BY <1>1, <1>2

\* Flattening a sequence is flattening the rest of it, after its first.
LEMMA FlattenCons ==
    ASSUME NEW S, NEW x \in Seq(S), NEW seqs \in Seq(Seq(S))
    PROVE  FlattenSeq(<<x>> \o seqs) = x \o FlattenSeq(seqs)
<1>a. ASSUME NEW u \in Seq(S), NEW v \in Seq(S)
      PROVE  (x \o u) \o v = x \o (u \o v)
    BY ConcatAssociative, SMTT(30)
<1> DEFINE all == <<x>> \o seqs
           n == Len(seqs)
           T == {k \in Nat : \A i \in 1 .. n :
                                i <= k => Flat(all)[i + 1] = x \o Flat(seqs)[i]}
<1>0. n \in Nat
    OBVIOUS
<1>1. /\ all \in Seq(Seq(S))
      /\ Len(all) = n + 1
      /\ all[1] = x
      /\ \A i \in 1 .. n : all[i + 1] = seqs[i]
    <2>1. /\ <<x>> \in Seq(Seq(S))
          /\ Len(<<x>>) = 1
          /\ <<x>>[1] = x
        OBVIOUS
    <2>2. /\ all \in Seq(Seq(S))
          /\ Len(all) = 1 + Len(seqs)
          /\ \A i \in 1 .. 1 + Len(seqs) :
                all[i] = IF i <= 1 THEN <<x>>[i] ELSE seqs[i - 1]
        <3> HIDE DEF all
        <3> QED BY <2>1, ConcatProperties DEF all
    <2>3. \A i \in 1 .. n : i + 1 \in 1 .. 1 + Len(seqs) /\ ~(i + 1 <= 1) /\ i + 1 - 1 = i
        BY <1>0
    <2> HIDE DEF all
    <2> QED BY <1>0, <2>1, <2>2, <2>3
<1>2. Flat(all)[1] = x
    <2> HIDE DEF all
    <2> QED BY <1>0, <1>1, FlatStep DEF FlatAt
<1>3. 0 \in T
    BY <1>0
<1>4. ASSUME NEW k \in T PROVE k + 1 \in T
    <2>1. ASSUME NEW i \in 1 .. n, i <= k + 1
          PROVE  Flat(all)[i + 1] = x \o Flat(seqs)[i]
        <3>1. Flat(all)[i + 1] = Flat(all)[i] \o seqs[i]
            <4> HIDE DEF all
            <4>1. ASSUME NEW j \in 1 .. n + 1, j # 1
                  PROVE  Flat(all)[j] = Flat(all)[j - 1] \o all[j]
                <5>1. Len(all) \in Nat /\ j \in 1 .. Len(all)
                    BY <1>0, <1>1
                <5>2. Flat(all)[j] = FlatAt(Flat(all), all, j)
                    BY <5>1, FlatStep
                <5> QED BY <4>1, <5>2 DEF FlatAt
            <4>2. PICK j \in 1 .. n + 1 : j = i + 1
                BY <1>0
            <4>3. j # 1 /\ j - 1 = i
                BY <1>0, <4>2
            <4>4. Flat(all)[j] = Flat(all)[j - 1] \o all[j]
                BY <4>1, <4>3
            <4> QED BY <4>2, <4>3, <4>4, <1>1
        <3>2. Flat(seqs)[i] = FlatAt(Flat(seqs), seqs, i)
            BY <1>0, FlatStep
        <3>3. CASE i = 1
            <4> HIDE DEF all
            <4> QED BY <3>1, <3>2, <3>3, <1>2 DEF FlatAt
        <3>4. CASE i # 1
            <4>1. i - 1 \in 1 .. n /\ i - 1 <= k /\ i - 1 + 1 = i
                BY <2>1, <3>4, <1>0
            <4>2. Flat(all)[i] = x \o Flat(seqs)[i - 1]
                <5> HIDE DEF all
                <5>1. Flat(all)[i - 1 + 1] = x \o Flat(seqs)[i - 1]
                    BY <4>1
                <5> QED BY <5>1, <4>1
            <4>3. seqs[i] \in Seq(S) /\ Flat(seqs)[i - 1] \in Seq(S)
                BY <4>1, ElementOfSeq, FlatType
            <4>4. (x \o Flat(seqs)[i - 1]) \o seqs[i] = x \o (Flat(seqs)[i - 1] \o seqs[i])
                BY <4>3, <1>a, Zenon
            <4> HIDE DEF all
            <4> QED BY <3>1, <3>2, <3>4, <4>2, <4>4 DEF FlatAt
        <3> QED BY <3>3, <3>4
    <2> HIDE DEF all, n
    <2> QED BY <2>1
<1>5. n \in T
    <2>1. T \in SUBSET Nat
        OBVIOUS
    <2> HIDE DEF T
    <2> QED BY <1>0, <1>3, <1>4, <2>1, NatRule
<1>6. CASE n = 0
    <2>1. seqs = <<>> /\ Len(all) = 1
        BY <1>6, <1>1
    <2>2. FlattenSeq(all) = x
        <3> HIDE DEF all
        <3>1. Len(all) # 0
            BY <2>1
        <3>2. FlattenSeq(all) = Flat(all)[Len(all)]
            BY <3>1, FlattenIs
        <3> QED BY <2>1, <3>2, <1>2
    <2>3. x \o <<>> = x
        BY ConcatEmptySeq
    <2> HIDE DEF all
    <2> QED BY <2>1, <2>2, <2>3, FlattenEmpty DEF all
<1>7. CASE n # 0
    <2>1. Flat(all)[n + 1] = x \o Flat(seqs)[n]
        <3>1. n \in 1 .. n /\ n <= n
            BY <1>0, <1>7
        <3> HIDE DEF all, n
        <3> QED BY <3>1, <1>5
    <2>2. FlattenSeq(all) = Flat(all)[n + 1]
        <3>1. Len(all) # 0 /\ Len(all) = n + 1
            BY <1>0, <1>1
        <3> HIDE DEF all
        <3> QED BY <3>1, FlattenIs
    <2>3. FlattenSeq(seqs) = Flat(seqs)[n]
        BY <1>7, FlattenIs
    <2> HIDE DEF all
    <2> QED BY <2>1, <2>2, <2>3 DEF all
<1> QED BY <1>6, <1>7

-----------------------------------------------------------------------------
(* Framing packets undoes the parse *)

\* f applied to each element of s.
Image(f, s) == [i \in 1 .. Len(s) |-> f[s[i]]]

Maps(f, S, R) == \A x \in S : f[x] \in R

LEMMA ImageType ==
    ASSUME NEW S, NEW R, NEW f, Maps(f, S, R), NEW s \in Seq(S)
    PROVE  Image(f, s) \in Seq(R) /\ Len(Image(f, s)) = Len(s)
<1>1. \A i \in 1 .. Len(s) : f[s[i]] \in R
    BY ElementOfSeq DEF Maps
<1>2. Len(s) \in Nat
    OBVIOUS
<1> QED BY <1>1, <1>2 DEF Image

LEMMA ImageCons ==
    ASSUME NEW S, NEW R, NEW f, Maps(f, S, R), NEW x \in S, NEW s \in Seq(S)
    PROVE  Image(f, Cons(x, s)) = Cons(f[x], Image(f, s))
<1> DEFINE all == <<x>> \o s
           images == <<f[x]>> \o Image(f, s)
<1>0. Len(s) \in Nat
    OBVIOUS
<1>1. <<x>> \in Seq(S) /\ Len(<<x>>) = 1 /\ <<f[x]>> \in Seq(R) /\ Len(<<f[x]>>) = 1
    BY DEF Maps
<1>2. /\ all \in Seq(S)
      /\ Len(all) = 1 + Len(s)
      /\ \A i \in 1 .. 1 + Len(s) : all[i] = IF i <= 1 THEN <<x>>[i] ELSE s[i - 1]
    <2> HIDE DEF all
    <2> QED BY <1>1, ConcatProperties DEF all
<1>3. Image(f, s) \in Seq(R) /\ Len(Image(f, s)) = Len(s)
    BY ImageType
<1>4. /\ images \in Seq(R)
      /\ Len(images) = 1 + Len(s)
      /\ \A i \in 1 .. 1 + Len(s) :
            images[i] = IF i <= 1 THEN <<f[x]>>[i] ELSE Image(f, s)[i - 1]
    <2> HIDE DEF images
    <2> QED BY <1>1, <1>3, ConcatProperties DEF images
<1>5. Image(f, all) \in Seq(R) /\ Len(Image(f, all)) = 1 + Len(s)
    <2> HIDE DEF all
    <2>1. all \in Seq(S)
        BY <1>2
    <2>2. Image(f, all) \in Seq(R) /\ Len(Image(f, all)) = Len(all)
        BY <2>1, ImageType
    <2> QED BY <1>2, <2>2
<1>6. ASSUME NEW i \in 1 .. 1 + Len(s)
      PROVE  Image(f, all)[i] = images[i]
    <2>1. Image(f, all)[i] = f[all[i]]
        <3> HIDE DEF all
        <3> QED BY <1>2 DEF Image
    <2>2. CASE i = 1
        <3>1. all[i] = x /\ images[i] = f[x]
            <4> HIDE DEF all, images
            <4> QED BY <1>2, <1>4, <2>2
        <3> HIDE DEF all, images
        <3> QED BY <2>1, <3>1
    <2>3. CASE i # 1
        <3>1. i - 1 \in 1 .. Len(s) /\ ~(i <= 1)
            BY <1>0, <2>3
        <3>2. all[i] = s[i - 1] /\ images[i] = Image(f, s)[i - 1]
            <4> HIDE DEF all, images
            <4> QED BY <1>2, <1>4, <3>1
        <3>3. Image(f, s)[i - 1] = f[s[i - 1]]
            BY <3>1 DEF Image
        <3> HIDE DEF all, images
        <3> QED BY <2>1, <3>2, <3>3
    <2> QED BY <2>2, <2>3
<1> HIDE DEF all, images
<1>7. Image(f, all) = images
    BY <1>4, <1>5, <1>6, SeqEqual
<1> QED BY <1>7 DEF Cons, all, images

\* One packet with its length.
Framed(p) == <<Len(p) \div 256, Len(p) % 256>> \o p

Framing == [p \in Seq(Byte) |-> Framed(p)]

LEMMA FramingType ==
    ASSUME NEW p \in Seq(Byte)
    PROVE  Framing[p] = Framed(p) /\ Framing[p] \in Seq(Nat)
<1>1. Len(p) \in Nat
    OBVIOUS
<1>2. Len(p) \div 256 \in Nat /\ Len(p) % 256 \in Nat
    BY <1>1
<1>3. <<Len(p) \div 256, Len(p) % 256>> \in Seq(Nat)
    BY <1>2
<1>4. p \in Seq(Nat)
    <2>1. Byte \subseteq Nat
        BY DEF Byte
    <2> QED BY <2>1, SeqMonotonic
<1>5. Framed(p) \in Seq(Nat)
    BY <1>3, <1>4, ConcatProperties DEF Framed
<1> QED BY <1>5 DEF Framing

LEMMA FrameIs ==
    ASSUME NEW packets \in Seq(Seq(Byte))
    PROVE  Frame(packets) = FlattenSeq(Image(Framing, packets))
<1>1. [i \in 1 .. Len(packets) |->
          <<Len(packets[i]) \div 256, Len(packets[i]) % 256>> \o packets[i]]
      = Image(Framing, packets)
    <2>1. ASSUME NEW i \in 1 .. Len(packets)
          PROVE  <<Len(packets[i]) \div 256, Len(packets[i]) % 256>> \o packets[i]
                 = Framing[packets[i]]
        <3>1. packets[i] \in Seq(Byte)
            BY ElementOfSeq
        <3> QED BY <3>1 DEF Framing, Framed
    <2> QED BY <2>1 DEF Image
<1> QED BY <1>1 DEF Frame

\* A packet with its length is what stood at its offset.
LEMMA FramedIs ==
    ASSUME NEW d \in Seq(Byte), NEW o \in 1 .. Len(d), ~Cut(d, o)
    PROVE  Framed(SubSeq(d, o + 3, End(d, o))) = SubSeq(d, o + 1, End(d, o))
<1> DEFINE e == End(d, o)
           x == SubSeq(d, o + 3, e)
           y == SubSeq(d, o + 1, e)
           n == LengthAt(d, o)
<1>1. Len(d) \in Nat /\ o \in Nat
    OBVIOUS
<1>2. n \in Nat \ {0} /\ e \in 1 .. Len(d) /\ e = o + 2 + n
    BY ParseGoesOn
<1>3. /\ x \in Seq(Byte) /\ Len(x) = n
      /\ \A i \in 1 .. n : x[i] = d[o + 3 + i - 1]
    <2>1. \A i \in o + 3 .. e : d[i] \in Byte
        BY <1>1, <1>2
    <2>2. o + 3 <= e /\ e - (o + 3) + 1 = n
        BY <1>1, <1>2
    <2> HIDE DEF e, n, x
    <2> QED BY <2>1, <2>2, <1>1, <1>2, SubSeqProperties DEF x
<1>4. /\ y \in Seq(Byte) /\ Len(y) = n + 2
      /\ \A i \in 1 .. n + 2 : y[i] = d[o + 1 + i - 1]
    <2>1. \A i \in o + 1 .. e : d[i] \in Byte
        BY <1>1, <1>2
    <2>2. o + 1 <= e /\ e - (o + 1) + 1 = n + 2
        BY <1>1, <1>2
    <2> HIDE DEF e, n, y
    <2> QED BY <2>1, <2>2, <1>1, <1>2, SubSeqProperties DEF y
<1>5. n \div 256 = d[o + 1] /\ n % 256 = d[o + 2]
    <2>1. o + 2 <= Len(d)
        BY <1>1, <1>2
    <2> QED BY <1>1, <2>1, LengthType
<1> DEFINE h == <<d[o + 1], d[o + 2]>>
<1>6. h \in Seq(Byte) /\ Len(h) = 2 /\ h[1] = d[o + 1] /\ h[2] = d[o + 2]
    <2>1. d[o + 1] \in Byte /\ d[o + 2] \in Byte
        BY <1>1, <1>2, ElementOfSeq
    <2> QED BY <2>1
<1>7. Framed(x) = h \o x
    <2> HIDE DEF x, n
    <2> QED BY <1>3, <1>5 DEF Framed
<1>8. /\ h \o x \in Seq(Byte)
      /\ Len(h \o x) = 2 + n
      /\ \A i \in 1 .. 2 + n : (h \o x)[i] = IF i <= 2 THEN h[i] ELSE x[i - 2]
    <2> HIDE DEF h, x, n
    <2>1. h \in Seq(Byte) /\ x \in Seq(Byte)
        BY <1>3, <1>6
    <2>2. /\ h \o x \in Seq(Byte)
          /\ Len(h \o x) = Len(h) + Len(x)
          /\ \A i \in 1 .. Len(h) + Len(x) :
                (h \o x)[i] = IF i <= Len(h) THEN h[i] ELSE x[i - Len(h)]
        BY <2>1, ConcatProperties
    <2> QED BY <1>3, <1>6, <2>2
<1>9. ASSUME NEW i \in 1 .. n + 2
      PROVE  (h \o x)[i] = y[i]
    <2>1. CASE i = 1
        <3>1. o + 1 + 1 - 1 = o + 1
            BY <1>1
        <3> HIDE DEF h, x, y, n
        <3>0. 1 \in 1 .. 2 + n /\ 1 \in 1 .. n + 2 /\ 1 <= 2
            BY <1>2
        <3>2. (h \o x)[1] = h[1] /\ y[1] = d[o + 1 + 1 - 1]
            BY <1>4, <1>8, <3>0
        <3> QED BY <1>6, <2>1, <3>1, <3>2
    <2>2. CASE i = 2
        <3>1. o + 1 + 2 - 1 = o + 2
            BY <1>1
        <3> HIDE DEF h, x, y, n
        <3>0. 2 \in 1 .. 2 + n /\ 2 \in 1 .. n + 2 /\ 2 <= 2
            BY <1>2
        <3>2. (h \o x)[2] = h[2] /\ y[2] = d[o + 1 + 2 - 1]
            BY <1>4, <1>8, <3>0
        <3> QED BY <1>6, <2>2, <3>1, <3>2
    <2>3. CASE i > 2
        <3> HIDE DEF h, x, y, n
        <3>1. i - 2 \in 1 .. n /\ i \in 1 .. 2 + n /\ ~(i <= 2)
            BY <1>2, <2>3
        <3>2. (h \o x)[i] = x[i - 2]
            BY <1>8, <3>1
        <3>3. x[i - 2] = d[o + 3 + (i - 2) - 1]
            BY <1>3, <3>1
        <3>4. o + 3 + (i - 2) - 1 = o + 1 + i - 1
            BY <1>1, <1>2
        <3>5. y[i] = d[o + 1 + i - 1]
            BY <1>4
        <3> QED BY <3>2, <3>3, <3>4, <3>5
    <2> HIDE DEF n
    <2> QED BY <1>2, <2>1, <2>2, <2>3
<1> HIDE DEF h, x, y, n, e
<1>10. h \o x = y
    <2>1. Len(h \o x) = Len(y)
        BY <1>2, <1>4, <1>8
    <2>2. \A i \in 1 .. Len(h \o x) : (h \o x)[i] = y[i]
        BY <1>2, <1>8, <1>9
    <2> QED BY <1>4, <1>8, <2>1, <2>2, SeqEqual
<1> QED BY <1>7, <1>10 DEF x, y, e

LEMMA FrameCons ==
    ASSUME NEW x \in Seq(Byte), NEW packets \in Seq(Seq(Byte))
    PROVE  Frame(<<x>> \o packets) = Framed(x) \o Frame(packets)
<1> DEFINE all == <<x>> \o packets
<1>1. all \in Seq(Seq(Byte))
    BY ConcatProperties
<1>2. Framing[x] = Framed(x) /\ Maps(Framing, Seq(Byte), Seq(Nat))
    BY FramingType DEF Maps
<1>3. Framed(x) \in Seq(Nat)
    BY FramingType
<1>4. Image(Framing, all) = <<Framing[x]>> \o Image(Framing, packets)
    <2>1. Image(Framing, Cons(x, packets)) = Cons(Framing[x], Image(Framing, packets))
        BY <1>2, ImageCons
    <2> QED BY <2>1 DEF Cons
<1>5. Image(Framing, packets) \in Seq(Seq(Nat))
    BY <1>2, ImageType
<1>6. FlattenSeq(<<Framed(x)>> \o Image(Framing, packets))
      = Framed(x) \o FlattenSeq(Image(Framing, packets))
    BY <1>3, <1>5, FlattenCons
<1>7. Frame(all) = FlattenSeq(Image(Framing, all))
    BY <1>1, FrameIs
<1>8. Frame(packets) = FlattenSeq(Image(Framing, packets))
    BY FrameIs
<1> HIDE DEF all
<1>9. Frame(all) = Framed(x) \o Frame(packets)
    BY <1>2, <1>4, <1>6, <1>7, <1>8
<1> QED BY <1>9 DEF all

\* What was taken apart is put together again.
LEMMA FrameParse ==
    ASSUME NEW d \in Seq(Byte), NEW o \in 1 .. Len(d), Parse(d)[o] # Invalid
    PROVE  Frame(Parse(d)[o]) = SubSeq(d, o + 1, Len(d))
<1> DEFINE Undone(n) == Parse(d)[n] # Invalid =>
                            Frame(Parse(d)[n]) = SubSeq(d, n + 1, Len(d))
           T == {k \in Nat : \A n \in 1 .. Len(d) : Len(d) - n <= k => Undone(n)}
<1>0. Len(d) \in Nat
    OBVIOUS
<1>1. ASSUME NEW n \in 1 .. Len(d), n = Len(d) PROVE Undone(n)
    <2>1. Parse(d)[n] = <<>>
        BY <1>1, ParseStep DEF ParseAt
    <2>2. SubSeq(d, n + 1, Len(d)) = <<>>
        <3>1. n + 1 \in Int /\ Len(d) \in Int /\ Len(d) < n + 1
            BY <1>0, <1>1
        <3> QED BY <3>1, SubSeqEmpty
    <2>3. Frame(<<>>) = <<>>
        <3>1. Image(Framing, <<>>) = <<>>
            BY DEF Image
        <3>2. <<>> \in Seq(Seq(Byte))
            OBVIOUS
        <3> QED BY <3>1, <3>2, FrameIs, FlattenEmpty
    <2> QED BY <2>1, <2>2, <2>3
<1>2. 0 \in T
    <2>1. ASSUME NEW n \in 1 .. Len(d), Len(d) - n <= 0 PROVE Undone(n)
        <3>1. n = Len(d)
            BY <2>1, <1>0
        <3> HIDE DEF Undone
        <3> QED BY <3>1, <1>1
    <2> HIDE DEF Undone
    <2> QED BY <2>1
<1>3. ASSUME NEW k \in T PROVE k + 1 \in T
    <2>1. ASSUME NEW n \in 1 .. Len(d), Len(d) - n <= k + 1, n # Len(d),
                 Parse(d)[n] # Invalid
          PROVE  Frame(Parse(d)[n]) = SubSeq(d, n + 1, Len(d))
        <3> DEFINE e == End(d, n)
                   x == SubSeq(d, n + 3, e)
                   rest == Parse(d)[e]
        <3>1. /\ ~Cut(d, n) /\ e \in 1 .. Len(d)
              /\ rest \in Seq(Seq(Byte)) /\ rest # Invalid
              /\ x \in Seq(Byte)
              /\ Parse(d)[n] = <<x>> \o rest
            BY <2>1, ParseCons
        <3>2. Len(d) - e <= k /\ n + 1 \in 1 .. Len(d) + 1 /\ n <= e
            <4>1. LengthAt(d, n) \in Nat /\ e = n + 2 + LengthAt(d, n)
                BY <3>1, ParseGoesOn
            <4>2. e \in 1 .. Len(d) /\ k \in Nat /\ Len(d) - n <= k + 1
                BY <3>1, <2>1
            <4> HIDE DEF e, T
            <4> QED BY <4>1, <4>2, <1>0
        <3>3. Frame(rest) = SubSeq(d, e + 1, Len(d))
            <4>1. Undone(e)
                <5> HIDE DEF Undone, e
                <5> QED BY <3>1, <3>2
            <4> QED BY <4>1, <3>1
        <3>4. Frame(<<x>> \o rest) = Framed(x) \o Frame(rest)
            <4> HIDE DEF x, rest
            <4> QED BY <3>1, FrameCons
        <3>5. Framed(x) = SubSeq(d, n + 1, e)
            BY <3>1, FramedIs
        <3>6. SubSeq(d, n + 1, e) \o SubSeq(d, e + 1, Len(d)) = SubSeq(d, n + 1, Len(d))
            <4> HIDE DEF e, x, rest
            <4>1. /\ n + 1 \in 1 .. Len(d) + 1
                  /\ e \in (n + 1) - 1 .. Len(d)
                  /\ Len(d) \in e .. Len(d)
                BY <3>1, <3>2, <1>0
            <4> QED BY <4>1, ConcatAdjacentSubSeq
        <3> HIDE DEF e, x, rest
        <3> QED BY <3>1, <3>3, <3>4, <3>5, <3>6
    <2>2. ASSUME NEW n \in 1 .. Len(d), Len(d) - n <= k + 1 PROVE Undone(n)
        BY <1>1, <2>1, <2>2
    <2> HIDE DEF Undone
    <2> QED BY <2>2
<1>4. Len(d) \in T
    <2>1. T \in SUBSET Nat
        OBVIOUS
    <2> HIDE DEF T
    <2> QED BY <1>0, <1>2, <1>3, <2>1, NatRule
<1>5. Undone(o)
    <2> HIDE DEF Undone
    <2> QED BY <1>0, <1>4
<1> QED BY <1>5

-----------------------------------------------------------------------------
(* What the two walks mean for whole inputs *)

\* What the replay accepts is packets.
LEMMA PacketsType ==
    ASSUME NEW d \in Seq(Byte), FuzzerPackets(d) # Invalid
    PROVE  /\ d # <<>>
           /\ FuzzerPackets(d) \in Seq(Seq(Byte))
           /\ Multipacket(d) => /\ Parse(d)[1] # Invalid
                                /\ FuzzerPackets(d) = Parse(d)[1]
           /\ ~Multipacket(d) => FuzzerPackets(d) = <<Tail(d)>>
<1>1. d # <<>>
    BY DEF FuzzerPackets
<1>2. CASE Multipacket(d)
    <2>1. Parse(d)[1] # Invalid /\ FuzzerPackets(d) = Parse(d)[1]
        BY <1>1, <1>2, ParseIs
    <2>2. 1 \in 1 .. Len(d)
        BY <1>1, EmptySeq
    <2> QED BY <1>1, <1>2, <2>1, <2>2, ParseType
<1>3. CASE ~Multipacket(d)
    <2>1. FuzzerPackets(d) = <<Tail(d)>>
        BY <1>1, <1>3 DEF FuzzerPackets
    <2>2. Tail(d) \in Seq(Byte)
        BY <1>1, HeadTailProperties
    <2>3. <<Tail(d)>> \in Seq(Seq(Byte))
        BY <2>2
    <2> QED BY <1>1, <1>3, <2>1, <2>3
<1> QED BY <1>2, <1>3

\* fuzzServer and the replay accept the same inputs.
LEMMA AcceptAlike ==
    ASSUME NEW d \in Seq(Byte), d # <<>>
    PROVE  FuzzerPackets(d) # Invalid <=> (Multipacket(d) => ValidMultipacket(Tail(d)))
<1>0. MaxPackets \in Nat \ {0}
    BY MaxPacketsAssumption
<1>1. CASE Multipacket(d)
    <2>1. IsPayload(Tail(d), d)
        BY TailIs
    <2>2. Tail(d) \in Seq(Byte) /\ 0 \in 0 .. Len(Tail(d)) /\ 0 \in 0 .. MaxPackets
        BY <1>0, HeadTailProperties
    <2>3. ValidMultipacket(Tail(d)) = Walk(Tail(d))[<<0, 0>>]
        BY <2>2, WalkIs
    <2>4. Walk(Tail(d))[<<0, 0>>] <=> Parses(d, 0 + 1, 0)
        BY <2>1, <2>2, WalkParses
    <2>5. Parses(d, 1, 0) <=> FuzzerPackets(d) # Invalid
        <3>1. CASE Parse(d)[1] = Invalid
            BY <1>1, <3>1, ParseIs DEF Parses
        <3>2. CASE Parse(d)[1] # Invalid
            <4>1. 1 \in 1 .. Len(d)
                BY EmptySeq
            <4>2. Len(Parse(d)[1]) \in Nat
                BY <3>2, <4>1, ParseType
            <4> QED BY <1>1, <3>2, <4>2, ParseIs DEF Parses
        <3> QED BY <3>1, <3>2
    <2> QED BY <1>1, <2>3, <2>4, <2>5
<1>2. CASE ~Multipacket(d)
    <2>1. FuzzerPackets(d) = <<Tail(d)>>
        BY <1>2 DEF FuzzerPackets
    <2>2. Tail(d) \in Seq(Byte)
        BY HeadTailProperties
    <2>3. <<Tail(d)>> # Invalid
        <3>1. <<Tail(d)>> \in Seq(Seq(0 .. 255))
            BY <2>2 DEF Byte
        <3> QED BY <3>1, InvalidAssumption
    <2> QED BY <1>2, <2>1, <2>3
<1> QED BY <1>1, <1>2

\* multipacket puts together what the replay took apart.
LEMMA FramesBack ==
    ASSUME NEW d \in Seq(Byte), FuzzerPackets(d) # Invalid, Multipacket(d)
    PROVE  Frame(FuzzerPackets(d)) = Tail(d)
<1>1. d # <<>> /\ Parse(d)[1] # Invalid /\ FuzzerPackets(d) = Parse(d)[1]
    BY PacketsType
<1>2. 1 \in 1 .. Len(d)
    BY <1>1, EmptySeq
<1>3. Frame(Parse(d)[1]) = SubSeq(d, 1 + 1, Len(d))
    BY <1>1, <1>2, FrameParse
<1>4. Tail(d) = SubSeq(d, 2, Len(d))
    BY <1>1, TailIsSubSeq
<1> QED BY <1>1, <1>3, <1>4

-----------------------------------------------------------------------------
(* What the replay sends *)

\* One packet, whole or as two halves.
Split(d, p) ==
    IF Fragmented(d) /\ Len(p) > 1
    THEN <<SubSeq(p, 1, Len(p) \div 2), SubSeq(p, Len(p) \div 2 + 1, Len(p))>>
    ELSE <<p>>

Splitting(d) == [p \in Seq(Byte) |-> Split(d, p)]

Sends(d, packets) == FlattenSeq(Image(Splitting(d), packets))

LEMMA SplitType ==
    ASSUME NEW d, NEW p \in Seq(Byte)
    PROVE  /\ Splitting(d)[p] = Split(d, p)
           /\ Split(d, p) \in Seq(Seq(Byte))
           /\ Len(p) > 1 => /\ SubSeq(p, 1, Len(p) \div 2) \in Seq(Byte)
                            /\ SubSeq(p, Len(p) \div 2 + 1, Len(p)) \in Seq(Byte)
<1>0. Len(p) \in Nat
    OBVIOUS
<1>1. ASSUME Len(p) > 1
      PROVE  /\ SubSeq(p, 1, Len(p) \div 2) \in Seq(Byte)
             /\ SubSeq(p, Len(p) \div 2 + 1, Len(p)) \in Seq(Byte)
    <2> DEFINE h == Len(p) \div 2
    <2>1. h \in Nat /\ h <= Len(p)
        BY <1>0
    <2> HIDE DEF h
    <2>2. \A i \in 1 .. h : p[i] \in Byte
        BY <1>0, <2>1
    <2>3. \A i \in h + 1 .. Len(p) : p[i] \in Byte
        BY <1>0, <2>1
    <2>4. SubSeq(p, 1, h) \in Seq(Byte) /\ SubSeq(p, h + 1, Len(p)) \in Seq(Byte)
        BY <1>0, <2>1, <2>2, <2>3, SubSeqProperties
    <2> QED BY <2>4 DEF h
<1>2. Split(d, p) \in Seq(Seq(Byte))
    <2>1. CASE Fragmented(d) /\ Len(p) > 1
        BY <2>1, <1>1 DEF Split
    <2>2. CASE ~(Fragmented(d) /\ Len(p) > 1)
        BY <2>2 DEF Split
    <2> QED BY <2>1, <2>2
<1> QED BY <1>1, <1>2 DEF Splitting

LEMMA SendsType ==
    ASSUME NEW d, NEW packets \in Seq(Seq(Byte))
    PROVE  Sends(d, packets) \in Seq(Seq(Byte))
<1>1. Maps(Splitting(d), Seq(Byte), Seq(Seq(Byte)))
    BY SplitType DEF Maps
<1>2. Image(Splitting(d), packets) \in Seq(Seq(Seq(Byte)))
    BY <1>1, ImageType
<1> QED BY <1>2, FlattenType DEF Sends

LEMMA SendsEmpty ==
    ASSUME NEW d
    PROVE  Sends(d, <<>>) = <<>>
<1>1. Image(Splitting(d), <<>>) = <<>>
    BY DEF Image
<1> QED BY <1>1, FlattenEmpty DEF Sends

LEMMA SendsCons ==
    ASSUME NEW d, NEW x \in Seq(Byte), NEW packets \in Seq(Seq(Byte))
    PROVE  Sends(d, <<x>> \o packets) = Split(d, x) \o Sends(d, packets)
<1>1. Maps(Splitting(d), Seq(Byte), Seq(Seq(Byte))) /\ Splitting(d)[x] = Split(d, x)
    BY SplitType DEF Maps
<1>2. Image(Splitting(d), Cons(x, packets))
      = Cons(Splitting(d)[x], Image(Splitting(d), packets))
    BY <1>1, ImageCons
<1>3. Split(d, x) \in Seq(Seq(Byte))
    BY SplitType
<1>4. Image(Splitting(d), packets) \in Seq(Seq(Seq(Byte)))
    BY <1>1, ImageType
<1>5. FlattenSeq(<<Split(d, x)>> \o Image(Splitting(d), packets))
      = Split(d, x) \o FlattenSeq(Image(Splitting(d), packets))
    BY <1>3, <1>4, FlattenCons
<1> QED BY <1>1, <1>2, <1>5 DEF Cons, Sends

LEMMA ReplayIs ==
    ASSUME NEW d \in Seq(Byte), FuzzerPackets(d) # Invalid
    PROVE  /\ ReplaySends(d) = Sends(d, FuzzerPackets(d))
           /\ ReplaySends(d) \in Seq(Seq(Byte))
           /\ ReplaySends(d) # Invalid
<1> DEFINE packets == FuzzerPackets(d)
<1>1. packets \in Seq(Seq(Byte))
    BY PacketsType
<1>2. ReplaySends(d) = FlattenSeq([i \in 1 .. Len(packets) |-> Split(d, packets[i])])
    BY DEF ReplaySends, Split
<1>3. [i \in 1 .. Len(packets) |-> Split(d, packets[i])] = Image(Splitting(d), packets)
    <2>1. ASSUME NEW i \in 1 .. Len(packets)
          PROVE  Split(d, packets[i]) = Splitting(d)[packets[i]]
        <3>1. packets[i] \in Seq(Byte)
            BY <1>1, ElementOfSeq
        <3> QED BY <3>1, SplitType
    <2> HIDE DEF packets
    <2> QED BY <2>1 DEF Image
<1>4. ReplaySends(d) = Sends(d, packets)
    <2> HIDE DEF packets
    <2> QED BY <1>2, <1>3 DEF Sends
<1>5. Sends(d, packets) \in Seq(Seq(Byte))
    BY <1>1, SendsType
<1> QED BY <1>4, <1>5, InvalidAssumption DEF Byte

-----------------------------------------------------------------------------
(* The callback: what was sent and what is left make up the replay *)

\* The packets from offset o of the payload on.
Left(o) == IF Multipacket(input) THEN Parse(input)[o + 1] ELSE <<>>

\* o is a place between packets, or the end.
Between(o) ==
    Multipacket(input) => /\ o \in 0 .. Len(Payload)
                          /\ Parse(input)[o + 1] # Invalid

\* s, then the sends in more, are the replay.
Remains(s, more) == ReplaySends(input) = s \o more

Types ==
    /\ pc \in {"idle", "entered", "connected", "send", "half", "answer", "final",
               "settle", "closed"}
    /\ input \in Seq(Byte)
    /\ offset \in Nat
    /\ half \in Seq(Byte)
    /\ sent \in Seq(Seq(Byte))

\* An exchange begins with nothing sent.
Fresh ==
    pc \in {"idle", "entered", "connected"} => offset = 0 /\ half = <<>> /\ sent = <<>>

\* Only what is accepted gets that far, and only what is logged.
Accepted ==
    /\ pc \in {"connected", "send", "half", "answer", "final"} =>
          FuzzerPackets(input) # Invalid
    /\ pc \in {"send", "half", "answer", "final"} => logged
    /\ sent # <<>> => logged

\* At the beginning of a packet, all from here on is still to be sent.
AtPacket ==
    pc \in {"send", "answer"} =>
        /\ Multipacket(input) => /\ offset < Len(Payload)
                                 /\ Between(offset)
                                 /\ Remains(sent, Sends(input, Left(offset)))
        /\ ~Multipacket(input) => pc = "send" /\ offset = 0 /\ sent = <<>>

\* In the middle of a packet, its second half is, and the packets after it.
AtHalf ==
    pc = "half" => /\ Between(offset)
                   /\ Remains(sent, <<half>> \o Sends(input, Left(offset)))

\* At the end nothing is; an exchange that was cut short sent a part.
SentSoFar ==
    /\ pc = "final" => sent = ReplaySends(input)
    /\ sent # <<>> =>
          LET replay == ReplaySends(input) IN
          /\ replay # Invalid
          /\ Len(sent) <= Len(replay)
          /\ \A i \in 1 .. (Len(sent) - 1) : sent[i] = replay[i]
          /\ IsPrefix(sent[Len(sent)], replay[Len(sent)])

IInv == Types /\ Fresh /\ Accepted /\ AtPacket /\ AtHalf /\ SentSoFar

-----------------------------------------------------------------------------
(* Sequences of sends *)

\* What was sent, and the next of what is left: the same.
LEMMA SendOne ==
    ASSUME NEW S, NEW s \in Seq(S), NEW p \in S, NEW more \in Seq(S)
    PROVE  /\ s \o (<<p>> \o more) = Append(s, p) \o more
           /\ Append(s, p) \in Seq(S)
<1>1. <<p>> \in Seq(S)
    OBVIOUS
<1>2. (s \o <<p>>) \o more = s \o (<<p>> \o more)
    BY <1>1, ConcatAssociative
<1>3. Append(s, p) = s \o <<p>> /\ Append(s, p) \in Seq(S)
    BY AppendIsConcat, AppendProperties
<1> QED BY <1>2, <1>3

\* The first sends of the replay, the last one as far as it went.
Cutoff(s, replay) ==
    /\ Len(s) <= Len(replay)
    /\ \A i \in 1 .. (Len(s) - 1) : s[i] = replay[i]
    /\ IsPrefix(s[Len(s)], replay[Len(s)])

LEMMA PartIsPrefix ==
    ASSUME NEW S, NEW p \in Seq(S), NEW k \in 0 .. Len(p)
    PROVE  IsPrefix(SubSeq(p, 1, k), p) /\ SubSeq(p, 1, k) \in Seq(S)
<1>1. Len(p) \in Nat /\ k \in Nat
    OBVIOUS
<1>2. \A i \in 1 .. k : p[i] \in S
    BY <1>1, ElementOfSeq
<1>3. SubSeq(p, 1, k) \in Seq(S) /\ Len(SubSeq(p, 1, k)) = k
    BY <1>1, <1>2, SubSeqProperties
<1>4. SubSeq(SubSeq(p, 1, k), 1, k) = SubSeq(p, 1, k)
    BY <1>3, SubSeqFull
<1> QED BY <1>1, <1>3, <1>4 DEF IsPrefix

\* After all of a send, or after a part of it, this is what was sent.
LEMMA SendCutoff ==
    ASSUME NEW s \in Seq(Seq(Byte)), NEW p \in Seq(Byte), NEW more \in Seq(Seq(Byte)),
           NEW k \in 0 .. Len(p), NEW replay, replay = s \o (<<p>> \o more)
    PROVE  /\ Cutoff(Append(s, SubSeq(p, 1, k)), replay)
           /\ Append(s, SubSeq(p, 1, k)) \in Seq(Seq(Byte))
<1> DEFINE part == SubSeq(p, 1, k)
           t == Append(s, part)
           n == Len(s)
<1>1. IsPrefix(part, p) /\ part \in Seq(Byte)
    BY PartIsPrefix
<1>2. /\ t \in Seq(Seq(Byte)) /\ Len(t) = n + 1
      /\ \A i \in 1 .. n : t[i] = s[i]
      /\ t[n + 1] = part
    <2> HIDE DEF part
    <2> QED BY <1>1, AppendProperties
<1>3. /\ <<p>> \o more \in Seq(Seq(Byte)) /\ Len(<<p>> \o more) = 1 + Len(more)
      /\ (<<p>> \o more)[1] = p
    <2>1. <<p>> \in Seq(Seq(Byte)) /\ Len(<<p>>) = 1 /\ <<p>>[1] = p
        OBVIOUS
    <2>2. Len(more) \in Nat
        OBVIOUS
    <2> QED BY <2>1, <2>2, ConcatProperties
<1>4. n \in Nat /\ Len(more) \in Nat
    OBVIOUS
<1>5. /\ Len(replay) = n + (1 + Len(more))
      /\ \A i \in 1 .. n : replay[i] = s[i]
      /\ replay[n + 1] = p
    <2> DEFINE x == <<p>> \o more
    <2>1. x \in Seq(Seq(Byte)) /\ Len(x) = 1 + Len(more) /\ x[1] = p
        BY <1>3
    <2> HIDE DEF x, n
    <2>2. /\ Len(s \o x) = Len(s) + Len(x)
          /\ \A i \in 1 .. Len(s) + Len(x) :
                (s \o x)[i] = IF i <= Len(s) THEN s[i] ELSE x[i - Len(s)]
        <3>1. x \in Seq(Seq(Byte))
            BY <2>1
        <3>2. ASSUME NEW y \in Seq(Seq(Byte))
              PROVE  /\ Len(s \o y) = Len(s) + Len(y)
                     /\ \A i \in 1 .. Len(s) + Len(y) :
                           (s \o y)[i] = IF i <= Len(s) THEN s[i] ELSE y[i - Len(s)]
            BY ConcatProperties
        <3> QED BY <3>1, <3>2, Zenon
    <2>3. replay = s \o x
        BY DEF x
    <2>4. /\ n + 1 \in 1 .. Len(s) + Len(x)
          /\ ~(n + 1 <= Len(s))
          /\ n + 1 - Len(s) = 1
        BY <2>1, <1>4 DEF n
    <2>5. \A i \in 1 .. n : i \in 1 .. Len(s) + Len(x) /\ i <= Len(s)
        BY <2>1, <1>4 DEF n
    <2>6. (s \o x)[n + 1] = x[1]
        <3>1. PICK j \in 1 .. Len(s) + Len(x) : j = n + 1
            BY <2>4
        <3>2. ~(j <= Len(s)) /\ j - Len(s) = 1
            BY <3>1, <1>4 DEF n
        <3>3. (s \o x)[j] = x[j - Len(s)]
            BY <2>2, <3>2
        <3> QED BY <3>1, <3>2, <3>3
    <2>7. \A i \in 1 .. n : (s \o x)[i] = s[i]
        BY <2>2, <2>5
    <2> QED BY <2>1, <2>2, <2>3, <2>6, <2>7 DEF n
<1> HIDE DEF part, t, n
<1>6. Cutoff(t, replay)
    <2>1. Len(t) <= Len(replay) /\ Len(t) - 1 = n
        BY <1>2, <1>4, <1>5
    <2>2. \A i \in 1 .. (Len(t) - 1) : t[i] = replay[i]
        BY <2>1, <1>2, <1>5
    <2>3. t[Len(t)] = part /\ replay[Len(t)] = p
        BY <1>2, <1>5
    <2> QED BY <2>1, <2>2, <2>3, <1>1 DEF Cutoff
<1> QED BY <1>2, <1>6 DEF t, part

-----------------------------------------------------------------------------
(* One send *)

\* A part of the payload is a part of the input.
LEMMA TailSub ==
    ASSUME NEW d \in Seq(Byte), d # <<>>,
           NEW a \in Nat \ {0}, NEW b \in Nat, b <= Len(Tail(d))
    PROVE  SubSeq(Tail(d), a, b) = SubSeq(d, a + 1, b + 1)
<1> DEFINE p == Tail(d)
           x == SubSeq(p, a, b)
           y == SubSeq(d, a + 1, b + 1)
           n == IF a <= b THEN b - a + 1 ELSE 0
<1>1. /\ p \in Seq(Byte) /\ Len(p) \in Nat /\ Len(d) = Len(p) + 1
      /\ \A i \in 1 .. Len(p) : p[i] = d[i + 1]
    <2>1. Len(d) \in Nat \ {0}
        BY EmptySeq
    <2> QED BY <2>1, HeadTailProperties
<1> HIDE DEF p
<1>2. b <= Len(p) /\ n \in Nat
    BY DEF p
<1>3. /\ x \in Seq(Byte) /\ Len(x) = n
      /\ \A i \in 1 .. b - a + 1 : x[i] = p[a + i - 1]
    <2>1. \A i \in a .. b : p[i] \in Byte
        BY <1>1, <1>2, ElementOfSeq
    <2> HIDE DEF x
    <2> QED BY <2>1, SubSeqProperties DEF x
<1>4. /\ y \in Seq(Byte) /\ Len(y) = n
      /\ \A i \in 1 .. b - a + 1 : y[i] = d[a + 1 + i - 1]
    <2>1. \A i \in a + 1 .. b + 1 : d[i] \in Byte
        BY <1>1, <1>2, ElementOfSeq
    <2>2. /\ (a + 1 <= b + 1 <=> a <= b)
          /\ (b + 1) - (a + 1) + 1 = b - a + 1
        OBVIOUS
    <2>3. /\ y \in Seq(Byte)
          /\ Len(y) = IF a + 1 <= b + 1 THEN (b + 1) - (a + 1) + 1 ELSE 0
          /\ \A i \in 1 .. (b + 1) - (a + 1) + 1 : y[i] = d[a + 1 + i - 1]
        <3>1. a + 1 \in Int /\ b + 1 \in Int
            OBVIOUS
        <3> HIDE DEF y
        <3> QED BY <2>1, <3>1, SubSeqProperties DEF y
    <2> HIDE DEF y
    <2> QED BY <2>2, <2>3
<1>5. ASSUME NEW i \in 1 .. n
      PROVE  x[i] = y[i]
    <2>1. /\ i \in 1 .. b - a + 1
          /\ a + i - 1 \in 1 .. Len(p)
          /\ (a + i - 1) + 1 = a + 1 + i - 1
        BY <1>1, <1>2
    <2> HIDE DEF x, y
    <2>2. p[a + i - 1] = d[(a + i - 1) + 1]
        BY <1>1, <2>1
    <2> QED BY <1>3, <1>4, <2>1, <2>2
<1> HIDE DEF x, y, n
<1>6. x = y
    BY <1>3, <1>4, <1>5, SeqEqual
<1> QED BY <1>6 DEF x, y, p

\* What sendAll leaves behind, when p is the next of the sends that remain.
LEMMA SendAllFacts ==
    ASSUME NEW p \in Seq(Byte), NEW more \in Seq(Seq(Byte)), NEW next,
           Types, FuzzerPackets(input) # Invalid,
           Remains(sent, <<p>> \o more), SendAll(p, next)
    PROVE  /\ sent' \in Seq(Seq(Byte))
           /\ sent' # <<>>
           /\ Cutoff(sent', ReplaySends(input))
           /\ \/ pc' = next /\ Remains(sent', more)
              \/ pc' = "settle"
<1>1. sent \in Seq(Seq(Byte)) /\ Len(p) \in Nat
    BY DEF Types
<1>2. ReplaySends(input) = sent \o (<<p>> \o more)
    BY DEF Remains
<1>3. ASSUME NEW k \in 0 .. Len(p), sent' = Append(sent, SubSeq(p, 1, k))
      PROVE  /\ sent' \in Seq(Seq(Byte))
             /\ sent' # <<>>
             /\ Cutoff(sent', ReplaySends(input))
    <2>1. /\ sent' \in Seq(Seq(Byte))
          /\ Cutoff(sent', ReplaySends(input))
        BY <1>1, <1>2, <1>3, SendCutoff
    <2>2. SubSeq(p, 1, k) \in Seq(Byte)
        BY PartIsPrefix
    <2>3. Append(sent, SubSeq(p, 1, k)) # <<>>
        BY <1>1, <2>2, AppendProperties, ZenonT(30)
    <2> QED BY <1>3, <2>1, <2>3
<1>4. CASE sent' = Append(sent, p) /\ pc' = next
    <2>1. SubSeq(p, 1, Len(p)) = p
        BY SubSeqFull
    <2>2. Len(p) \in 0 .. Len(p)
        BY <1>1
    <2>3. Append(sent, p) \o more = sent \o (<<p>> \o more)
        BY <1>1, SendOne
    <2> QED BY <1>2, <1>3, <1>4, <2>1, <2>2, <2>3 DEF Remains
<1>5. CASE \E k \in 0 .. (Len(p) - 1) :
              sent' = Append(sent, SubSeq(p, 1, k)) /\ pc' = "settle"
    <2>1. PICK k \in 0 .. (Len(p) - 1) :
              sent' = Append(sent, SubSeq(p, 1, k)) /\ pc' = "settle"
        BY <1>5
    <2>2. k \in 0 .. Len(p)
        BY <1>1
    <2> QED BY <1>3, <2>1, <2>2
<1> QED BY <1>4, <1>5 DEF SendAll

\* Where the callback goes on after a packet, and what it has left to do there.
LEMMA AfterFacts ==
    ASSUME Types, FuzzerPackets(input) # Invalid,
           NEW o, Between(o), NEW s \in Seq(Seq(Byte)),
           Remains(s, Sends(input, Left(o)))
    PROVE  \/ After(o) = "final" /\ s = ReplaySends(input)
           \/ After(o) \in {"send", "answer"} /\ Multipacket(input) /\ o < Len(Payload)
<1>1. input \in Seq(Byte) /\ input # <<>>
    BY PacketsType DEF Types
<1>2. /\ Len(Payload) \in Nat /\ Len(input) = Len(Payload) + 1
      /\ Len(input) \in 1 .. Len(input)
    <2>1. Len(input) \in Nat \ {0} /\ Len(Payload) = Len(input) - 1
        BY <1>1, EmptySeq, HeadTailProperties DEF Payload
    <2> QED BY <2>1
<1>3. ASSUME Left(o) = <<>> PROVE s = ReplaySends(input)
    <2>1. s \o <<>> = s
        BY ConcatEmptySeq
    <2> QED BY <1>3, <2>1, SendsEmpty DEF Remains
<1>4. CASE ~Multipacket(input)
    BY <1>3, <1>4 DEF After, Left
<1>5. CASE Multipacket(input) /\ o >= Len(Payload)
    <2>1. o + 1 = Len(input)
        BY <1>2, <1>5 DEF Between
    <2>2. Parse(input)[o + 1] = <<>>
        BY <1>1, <1>2, <2>1, ParseStep DEF ParseAt
    <2> QED BY <1>3, <1>5, <2>2 DEF After, Left
<1>6. CASE Multipacket(input) /\ ~(o >= Len(Payload))
    <2>1. o < Len(Payload)
        BY <1>2, <1>6 DEF Between
    <2> QED BY <1>6, <2>1 DEF After
<1> QED BY <1>4, <1>5, <1>6

\* The bounds of the next packet.
First == IF Multipacket(input) THEN offset + 2 ELSE 0
Size  == IF Multipacket(input) THEN LengthAt(Payload, offset) ELSE Len(Payload)
Packet == SubSeq(Payload, First + 1, First + Size)

\* The packet at the offset is the first of those left, and lies in the input.
LEMMA NextPacket ==
    ASSUME IInv, pc = "send"
    PROVE  /\ Packet \in Seq(Byte)
           /\ Len(Packet) = Size
           /\ First + Size \in Nat
           /\ Multipacket(input) => Size > 0 /\ First + Size <= Len(Payload)
           /\ Between(First + Size)
           /\ Left(First + Size) \in Seq(Seq(Byte))
           /\ Remains(sent, Split(input, Packet) \o Sends(input, Left(First + Size)))
<1>1. /\ input \in Seq(Byte) /\ input # <<>> /\ FuzzerPackets(input) # Invalid
      /\ sent \in Seq(Seq(Byte)) /\ offset \in Nat
    BY PacketsType DEF IInv, Types, Accepted
<1>2. /\ Payload \in Seq(Byte) /\ Len(Payload) \in Nat
      /\ Len(input) = Len(Payload) + 1
    <2>1. Len(input) \in Nat \ {0} /\ Payload \in Seq(Byte)
          /\ Len(Payload) = Len(input) - 1
        BY <1>1, EmptySeq, HeadTailProperties DEF Payload
    <2> QED BY <2>1
<1>3. CASE Multipacket(input)
    <2> DEFINE o == offset + 1
               e == End(input, o)
               x == SubSeq(input, o + 3, e)
               rest == Parse(input)[e]
    <2>1. /\ offset < Len(Payload) /\ Parse(input)[o] # Invalid
          /\ Remains(sent, Sends(input, Parse(input)[o]))
        BY <1>3 DEF IInv, AtPacket, Between, Left
    <2>2. o \in 1 .. Len(input) /\ o # Len(input)
        BY <1>1, <1>2, <2>1
    <2>3. /\ ~Cut(input, o) /\ e \in 1 .. Len(input)
          /\ rest \in Seq(Seq(Byte)) /\ rest # Invalid
          /\ x \in Seq(Byte) /\ Len(x) = LengthAt(input, o)
          /\ Parse(input)[o] = <<x>> \o rest
        <3> HIDE DEF o
        <3> QED BY <1>1, <2>1, <2>2, ParseCons
    <2>4. LengthAt(input, o) \in Nat \ {0} /\ e = o + 2 + LengthAt(input, o)
        <3> HIDE DEF o
        <3> QED BY <1>1, <2>2, <2>3, ParseGoesOn
    <2>5. LengthAt(Payload, offset) = LengthAt(input, o)
        <3>1. offset + 2 <= Len(Payload)
            BY <1>1, <1>2, <2>3, <2>4
        <3>2. IsPayload(Payload, input)
            BY <1>1, TailIs DEF Payload
        <3> QED BY <1>1, <3>1, <3>2 DEF IsPayload
    <2> HIDE DEF e, x, rest
    <2>6. First = offset + 2 /\ Size = LengthAt(input, o)
        BY <1>3, <2>5 DEF First, Size
    <2>7. /\ First + Size \in Nat /\ First + Size + 1 = e
          /\ First + Size <= Len(Payload)
        <3>1. LengthAt(input, o) \in Nat
            BY <2>4
        <3> QED BY <1>1, <1>2, <2>3, <2>4, <2>6, <3>1
    <2>8. Packet = x
        <3>1. First + 1 \in Nat \ {0}
            BY <1>1, <2>6
        <3>2. Packet = SubSeq(input, First + 1 + 1, First + Size + 1)
            BY <1>1, <2>7, <3>1, TailSub DEF Packet, Payload
        <3>3. First + 1 + 1 = o + 3
            BY <1>1, <2>6
        <3> QED BY <2>7, <3>2, <3>3 DEF x
    <2>9. Left(First + Size) = rest
        BY <1>3, <2>7 DEF Left, rest
    <2>10. Sends(input, Parse(input)[o]) = Split(input, x) \o Sends(input, rest)
        BY <2>3, SendsCons
    <2>11. Between(First + Size)
        <3>1. First + Size \in 0 .. Len(Payload)
            BY <1>2, <2>7
        <3> QED BY <2>3, <2>7, <3>1 DEF Between, rest
    <2>12. Len(Packet) = Size /\ Packet \in Seq(Byte)
        BY <2>3, <2>6, <2>8
    <2>13. Remains(sent, Split(input, Packet) \o Sends(input, Left(First + Size)))
        BY <2>1, <2>8, <2>9, <2>10
    <2>14. Size > 0
        BY <2>4, <2>6
    <2> QED BY <2>3, <2>7, <2>9, <2>11, <2>12, <2>13, <2>14
<1>4. CASE ~Multipacket(input)
    <2>1. First = 0 /\ Size = Len(Payload) /\ sent = <<>>
        BY <1>4 DEF First, Size, IInv, AtPacket
    <2>2. Packet = Payload
        <3>1. First + 1 = 1 /\ First + Size = Len(Payload)
            BY <1>2, <2>1
        <3> QED BY <1>2, <3>1, SubSeqFull DEF Packet
    <2>3. Left(First + Size) = <<>> /\ Between(First + Size)
        BY <1>4 DEF Left, Between
    <2>4. ReplaySends(input) = Sends(input, <<Payload>>)
        BY <1>1, <1>4, ReplayIs, PacketsType DEF Payload
    <2>5. <<Payload>> \o <<>> = <<Payload>> /\ <<>> \in Seq(Seq(Byte))
        <3>1. <<Payload>> \in Seq(Seq(Byte))
            BY <1>2
        <3> QED BY <3>1, ConcatEmptySeq
    <2>6. Sends(input, <<Payload>>) = Split(input, Payload) \o Sends(input, <<>>)
        BY <1>2, <2>5, SendsCons
    <2> DEFINE all == Split(input, Payload) \o Sends(input, <<>>)
    <2>7. <<>> \o all = all
        <3>1. Split(input, Payload) \in Seq(Seq(Byte))
            BY <1>2, SplitType
        <3>2. Sends(input, <<>>) \in Seq(Seq(Byte))
            BY <2>5, SendsType
        <3>3. all \in Seq(Seq(Byte))
            BY <3>1, <3>2, ConcatProperties
        <3> HIDE DEF all
        <3> QED BY <3>3, ConcatEmptySeq
    <2>8. Remains(sent, all)
        <3> HIDE DEF all
        <3>1. ReplaySends(input) = all
            BY <2>4, <2>6 DEF all
        <3> QED BY <2>1, <2>7, <3>1 DEF Remains
    <2>9. First + Size \in Nat
        BY <1>2, <2>1
    <2> QED BY <1>2, <1>4, <2>1, <2>2, <2>3, <2>5, <2>8, <2>9
<1> QED BY <1>3, <1>4

-----------------------------------------------------------------------------
(* Every step keeps it *)

\* A send that went on to its next place, or was cut short.
LEMMA AfterSend ==
    ASSUME IInv, logged, UNCHANGED <<input, logged>>,
           FuzzerPackets(input) # Invalid,
           offset' \in Nat, half' \in Seq(Byte),
           sent' \in Seq(Seq(Byte)), Cutoff(sent', ReplaySends(input)),
           \/ pc' = "settle"
           \/ /\ pc' = "half"
              /\ Between(offset')
              /\ Remains(sent', <<half'>> \o Sends(input, Left(offset')))
           \/ pc' = "final" /\ sent' = ReplaySends(input)
           \/ /\ pc' \in {"send", "answer"}
              /\ Multipacket(input) /\ offset' < Len(Payload)
              /\ Between(offset')
              /\ Remains(sent', Sends(input, Left(offset')))
    PROVE  IInv'
<1>0. input' = input /\ logged' = logged /\ input \in Seq(Byte)
    BY DEF IInv, Types
<1>1. Types'
    BY <1>0 DEF Types
<1>2. Fresh'
    BY DEF Fresh
<1>3. Accepted'
    BY <1>0 DEF Accepted
<1>4. AtPacket'
    <2>1. /\ Payload' = Payload
          /\ Multipacket(input') = Multipacket(input)
          /\ Between(offset)' = Between(offset')
          /\ Left(offset)' = Left(offset')
          /\ Remains(sent, Sends(input, Left(offset)))'
             = Remains(sent', Sends(input, Left(offset')))
        BY <1>0 DEF Between, Left, Remains, Payload
    <2> QED BY <2>1, <1>0 DEF AtPacket
<1>5. AtHalf'
    <2>1. /\ Between(offset)' = Between(offset')
          /\ Remains(sent, <<half>> \o Sends(input, Left(offset)))'
             = Remains(sent', <<half'>> \o Sends(input, Left(offset')))
        BY <1>0 DEF Between, Left, Remains, Payload
    <2> QED BY <2>1 DEF AtHalf
<1>6. SentSoFar'
    <2>1. ReplaySends(input) # Invalid
        BY <1>0, ReplayIs
    <2> QED BY <1>0, <2>1 DEF SentSoFar, Cutoff
<1> QED BY <1>1, <1>2, <1>3, <1>4, <1>5, <1>6 DEF IInv

\* Two halves, and what follows.
LEMMA TwoSends ==
    ASSUME NEW S, NEW a \in S, NEW b \in S, NEW more \in Seq(S)
    PROVE  /\ <<a, b>> \o more = <<a>> \o (<<b>> \o more)
           /\ <<b>> \o more \in Seq(S)
<1>1. <<a>> \in Seq(S) /\ <<b>> \in Seq(S)
    OBVIOUS
<1>2. <<a, b>> = <<a>> \o <<b>>
    <2> DEFINE x == <<a>> \o <<b>>
               y == <<a, b>>
    <2>1. /\ y \in Seq(S) /\ Len(y) = 2 /\ y[1] = a /\ y[2] = b
          /\ Len(<<a>>) = 1 /\ Len(<<b>>) = 1 /\ <<a>>[1] = a /\ <<b>>[1] = b
        OBVIOUS
    <2>2. /\ x \in Seq(S) /\ Len(x) = 1 + 1
          /\ \A i \in 1 .. 1 + 1 : x[i] = IF i <= 1 THEN <<a>>[i] ELSE <<b>>[i - 1]
        BY <1>1, <2>1, ConcatProperties
    <2> HIDE DEF x, y
    <2>3. x[1] = a /\ x[2] = b
        BY <2>1, <2>2
    <2>4. \A i \in 1 .. Len(y) : x[i] = y[i]
        BY <2>1, <2>3
    <2>5. x = y
        BY <2>1, <2>2, <2>4, SeqEqual
    <2> QED BY <2>5 DEF x, y
<1>3. (<<a>> \o <<b>>) \o more = <<a>> \o (<<b>> \o more)
    BY <1>1, ConcatAssociative
<1>4. <<b>> \o more \in Seq(S)
    BY <1>1, ConcatProperties
<1> QED BY <1>2, <1>3, <1>4

LEMMA SendPacketStep ==
    ASSUME IInv, SendPacket
    PROVE  IInv'
<1> DEFINE o == First + Size
           more == Sends(input, Left(o))
<1>1. /\ pc = "send" /\ offset' = o /\ UNCHANGED <<input, logged>>
      /\ \/ /\ Fragmented(input) /\ Size >= 2
            /\ half' = SubSeq(Packet, Size \div 2 + 1, Size)
            /\ SendAll(SubSeq(Packet, 1, Size \div 2), "half")
         \/ /\ ~Fragmented(input) \/ Size < 2
            /\ half' = <<>>
            /\ SendAll(Packet, After(o))
    BY DEF SendPacket, First, Size, Packet
<1>2. /\ Types /\ FuzzerPackets(input) # Invalid /\ logged
    BY <1>1 DEF IInv, Accepted
<1>3. /\ Packet \in Seq(Byte) /\ Len(Packet) = Size /\ Size \in Nat
      /\ o \in Nat /\ Between(o)
      /\ Left(o) \in Seq(Seq(Byte))
      /\ Remains(sent, Split(input, Packet) \o more)
    <2>1. Len(Packet) = Size /\ Packet \in Seq(Byte)
        BY <1>1, NextPacket
    <2>2. Len(Packet) \in Nat
        BY <2>1
    <2> QED BY <1>1, <2>1, <2>2, NextPacket
<1>4. more \in Seq(Seq(Byte))
    BY <1>3, SendsType
<1>5. CASE /\ Fragmented(input) /\ Size >= 2
           /\ half' = SubSeq(Packet, Size \div 2 + 1, Size)
           /\ SendAll(SubSeq(Packet, 1, Size \div 2), "half")
    <2> DEFINE a == SubSeq(Packet, 1, Size \div 2)
               b == SubSeq(Packet, Size \div 2 + 1, Size)
    <2>1. a \in Seq(Byte) /\ b \in Seq(Byte)
        <3>1. Len(Packet) > 1
            BY <1>3, <1>5
        <3> QED BY <1>3, <3>1, SplitType
    <2>2. Split(input, Packet) = <<a, b>>
        <3>1. Len(Packet) > 1
            BY <1>3, <1>5
        <3> QED BY <1>3, <1>5, <3>1 DEF Split
    <2> HIDE DEF a, b, o, more
    <2>3. <<a, b>> \o more = <<a>> \o (<<b>> \o more) /\ <<b>> \o more \in Seq(Seq(Byte))
        BY <1>4, <2>1, TwoSends
    <2>4. Remains(sent, <<a>> \o (<<b>> \o more))
        BY <1>3, <2>2, <2>3
    <2>5. SendAll(a, "half") /\ half' = b
        BY <1>5 DEF a, b
    <2>6. /\ sent' \in Seq(Seq(Byte))
          /\ Cutoff(sent', ReplaySends(input))
          /\ \/ pc' = "half" /\ Remains(sent', <<b>> \o more)
             \/ pc' = "settle"
        BY <1>2, <2>1, <2>3, <2>4, <2>5, SendAllFacts
    <2>7. /\ offset' \in Nat /\ half' \in Seq(Byte) /\ Between(offset')
          /\ pc' = "half" => Remains(sent', <<half'>> \o Sends(input, Left(offset')))
        BY <1>1, <1>3, <2>1, <2>5, <2>6 DEF more
    <2> QED BY <1>1, <1>2, <2>6, <2>7, AfterSend
<1>6. CASE /\ ~Fragmented(input) \/ Size < 2
           /\ half' = <<>>
           /\ SendAll(Packet, After(o))
    <2>1. Split(input, Packet) = <<Packet>>
        <3>1. ~(Fragmented(input) /\ Len(Packet) > 1)
            BY <1>3, <1>6
        <3> QED BY <3>1 DEF Split
    <2> HIDE DEF o, more
    <2>2. /\ sent' \in Seq(Seq(Byte))
          /\ Cutoff(sent', ReplaySends(input))
          /\ \/ pc' = After(o) /\ Remains(sent', more)
             \/ pc' = "settle"
        BY <1>2, <1>3, <1>4, <1>6, <2>1, SendAllFacts
    <2>3. CASE pc' = After(o) /\ Remains(sent', more)
        <3>1. Remains(sent', Sends(input, Left(offset'))) /\ Between(offset')
            BY <1>1, <1>3, <2>3 DEF more
        <3>2. \/ pc' = "final" /\ sent' = ReplaySends(input)
              \/ /\ pc' \in {"send", "answer"} /\ Multipacket(input)
                 /\ offset' < Len(Payload)
            BY <1>1, <1>2, <2>2, <2>3, <3>1, AfterFacts
        <3>3. offset' \in Nat /\ half' \in Seq(Byte)
            BY <1>1, <1>3, <1>6
        <3> QED BY <1>1, <1>2, <2>2, <3>1, <3>2, <3>3, AfterSend
    <2>4. CASE pc' = "settle"
        <3>1. offset' \in Nat /\ half' \in Seq(Byte)
            BY <1>1, <1>3, <1>6
        <3> QED BY <1>1, <1>2, <2>2, <2>4, <3>1, AfterSend
    <2> QED BY <2>2, <2>3, <2>4
<1> QED BY <1>1, <1>5, <1>6

LEMMA SendHalfStep ==
    ASSUME IInv, SendHalf
    PROVE  IInv'
<1> DEFINE more == Sends(input, Left(offset))
<1>1. /\ pc = "half" /\ half' = <<>> /\ SendAll(half, After(offset))
      /\ UNCHANGED <<input, offset, logged>>
    BY DEF SendHalf
<1>2. /\ Types /\ FuzzerPackets(input) # Invalid /\ logged
      /\ half \in Seq(Byte) /\ offset \in Nat
    BY <1>1 DEF IInv, Accepted, Types
<1>3. Between(offset) /\ Remains(sent, <<half>> \o more)
    BY <1>1 DEF IInv, AtHalf
<1>4. more \in Seq(Seq(Byte))
    <2>1. Left(offset) \in Seq(Seq(Byte))
        <3>1. CASE Multipacket(input)
            <4>1. input \in Seq(Byte) /\ input # <<>>
                BY <1>2, PacketsType DEF Types
            <4>2. offset + 1 \in 1 .. Len(input)
                <5>1. Len(input) \in Nat \ {0} /\ Len(Payload) = Len(input) - 1
                    BY <4>1, EmptySeq, HeadTailProperties DEF Payload
                <5>2. offset \in 0 .. Len(Payload)
                    BY <1>3, <3>1 DEF Between
                <5> QED BY <1>2, <5>1, <5>2
            <4>3. Parse(input)[offset + 1] # Invalid
                BY <1>3, <3>1 DEF Between
            <4> QED BY <3>1, <4>1, <4>2, <4>3, ParseType DEF Left
        <3>2. CASE ~Multipacket(input)
            BY <3>2 DEF Left
        <3> QED BY <3>1, <3>2
    <2> QED BY <2>1, SendsType
<1> HIDE DEF more
<1>5. /\ sent' \in Seq(Seq(Byte))
      /\ Cutoff(sent', ReplaySends(input))
      /\ \/ pc' = After(offset) /\ Remains(sent', more)
         \/ pc' = "settle"
    BY <1>1, <1>2, <1>3, <1>4, SendAllFacts
<1>6. offset' = offset /\ offset' \in Nat /\ half' \in Seq(Byte)
    BY <1>1, <1>2
<1>7. CASE pc' = After(offset) /\ Remains(sent', more)
    <2>1. Remains(sent', Sends(input, Left(offset)))
        BY <1>7 DEF more
    <2>2. \/ pc' = "final" /\ sent' = ReplaySends(input)
          \/ /\ pc' \in {"send", "answer"} /\ Multipacket(input)
             /\ offset < Len(Payload)
        BY <1>2, <1>3, <1>5, <1>7, <2>1, AfterFacts
    <2>3. /\ Between(offset') /\ Remains(sent', Sends(input, Left(offset')))
          /\ offset < Len(Payload) => offset' < Len(Payload)
        BY <1>3, <1>6, <2>1
    <2> QED BY <1>1, <1>2, <1>5, <1>6, <2>2, <2>3, AfterSend
<1>8. CASE pc' = "settle"
    BY <1>1, <1>2, <1>5, <1>6, <1>8, AfterSend
<1> QED BY <1>5, <1>7, <1>8

\* A step that only moves on, to a place where nothing is left to send.
LEMMA MovesOn ==
    ASSUME IInv, UNCHANGED <<input, offset, half, sent, logged>>,
           \/ pc' \in {"settle", "closed"}
           \/ pc = "answer" /\ pc' = "send"
    PROVE  IInv'
<1>0. /\ input' = input /\ offset' = offset /\ half' = half /\ sent' = sent
      /\ logged' = logged
    OBVIOUS
<1>1. Types'
    BY <1>0 DEF IInv, Types
<1>2. Fresh'
    BY DEF Fresh
<1>3. Accepted'
    BY <1>0 DEF IInv, Accepted
<1>4. AtPacket'
    BY <1>0 DEF IInv, AtPacket, Between, Left, Remains, Payload
<1>5. AtHalf'
    BY DEF AtHalf
<1>6. SentSoFar'
    BY <1>0 DEF IInv, SentSoFar
<1> QED BY <1>1, <1>2, <1>3, <1>4, <1>5, <1>6 DEF IInv

\* A step that an exchange begins or ends with.
LEMMA NothingSent ==
    ASSUME pc' \in {"idle", "entered", "connected"}, input' \in Seq(Byte),
           offset' = 0, half' = <<>>, sent' = <<>>,
           pc' = "connected" => FuzzerPackets(input') # Invalid
    PROVE  IInv'
<1>1. Types'
    BY DEF Types
<1>2. Fresh'
    BY DEF Fresh
<1>3. Accepted'
    BY DEF Accepted
<1>4. AtPacket' /\ AtHalf'
    BY DEF AtPacket, AtHalf
<1>5. SentSoFar'
    BY DEF SentSoFar
<1> QED BY <1>1, <1>2, <1>3, <1>4, <1>5 DEF IInv

LEMMA LogInputStep ==
    ASSUME IInv, LogInput
    PROVE  IInv'
<1>1. /\ pc = "connected" /\ pc' = "send" /\ logged'
      /\ input' = input /\ offset' = offset /\ half' = half /\ sent' = sent
    BY DEF LogInput
<1>2. /\ input \in Seq(Byte) /\ FuzzerPackets(input) # Invalid
      /\ offset = 0 /\ half = <<>> /\ sent = <<>>
    BY <1>1 DEF IInv, Types, Accepted, Fresh
<1>3. Types'
    BY <1>1, <1>2 DEF Types
<1>4. Fresh' /\ Accepted'
    BY <1>1, <1>2 DEF Fresh, Accepted
<1>5. ASSUME Multipacket(input)
      PROVE  /\ 0 < Len(Payload)
             /\ Between(0)
             /\ Remains(<<>>, Sends(input, Left(0)))
    <2>1. /\ input # <<>> /\ Parse(input)[1] # Invalid
          /\ FuzzerPackets(input) = Parse(input)[1]
          /\ FuzzerPackets(input) \in Seq(Seq(Byte))
        BY <1>2, <1>5, PacketsType
    <2>2. Len(input) \in Nat \ {0} /\ Len(Payload) = Len(input) - 1
        BY <1>2, <2>1, EmptySeq, HeadTailProperties DEF Payload
    <2>3. Len(input) # 1
        <3>1. SUFFICES ASSUME Len(input) = 1 PROVE FALSE
            OBVIOUS
        <3>2. Parse(input)[1] = <<>>
            <4>1. 1 \in 1 .. Len(input)
                BY <3>1
            <4>2. Parse(input)[1] = ParseAt(Parse(input), input, 1)
                BY <1>2, <4>1, ParseStep
            <4> QED BY <3>1, <4>2 DEF ParseAt
        <3>3. Len(Parse(input)[1]) \in 1 .. MaxPackets
            BY <1>2, <1>5, <2>1, ParseIs
        <3>4. Len(Parse(input)[1]) = 0
            BY <3>2
        <3> QED BY <3>3, <3>4
    <2>4. Between(0)
        BY <2>1, <2>2 DEF Between
    <2>5. Left(0) = FuzzerPackets(input)
        BY <1>5, <2>1 DEF Left
    <2>6. ReplaySends(input) = Sends(input, Left(0))
        BY <1>2, <2>5, ReplayIs
    <2>7. <<>> \o Sends(input, Left(0)) = Sends(input, Left(0))
        <3>1. Sends(input, Left(0)) \in Seq(Seq(Byte))
            BY <2>1, <2>5, SendsType
        <3> QED BY <3>1, ConcatEmptySeq
    <2> QED BY <2>2, <2>3, <2>4, <2>6, <2>7 DEF Remains
<1>6. AtPacket'
    <2>1. CASE Multipacket(input)
        <3>1. /\ offset < Len(Payload) /\ Between(offset)
              /\ Remains(sent, Sends(input, Left(offset)))
            BY <1>2, <1>5, <2>1
        <3>2. /\ Payload' = Payload
              /\ Multipacket(input') = Multipacket(input)
              /\ Between(offset)' = Between(offset)
              /\ Left(offset)' = Left(offset)
              /\ Remains(sent, Sends(input, Left(offset)))'
                 = Remains(sent, Sends(input, Left(offset)))
            BY <1>1 DEF Between, Left, Remains, Payload
        <3> QED BY <1>1, <2>1, <3>1, <3>2 DEF AtPacket
    <2>2. CASE ~Multipacket(input)
        BY <1>1, <1>2, <2>2 DEF AtPacket
    <2> QED BY <2>1, <2>2
<1>7. AtHalf' /\ SentSoFar'
    BY <1>1, <1>2 DEF AtHalf, SentSoFar
<1> QED BY <1>3, <1>4, <1>6, <1>7 DEF IInv

LEMMA ConnectStep ==
    ASSUME IInv, Connect
    PROVE  IInv'
<1>1. /\ pc = "entered" /\ UNCHANGED <<input, offset, half, sent, logged>>
      /\ \/ pc' = "closed"
         \/ /\ input # <<>>
            /\ Multipacket(input) => ValidMultipacket(Payload)
            /\ pc' = "connected"
    BY DEF Connect
<1>2. CASE pc' = "closed"
    BY <1>1, <1>2, MovesOn
<1>3. CASE /\ input # <<>>
           /\ Multipacket(input) => ValidMultipacket(Payload)
           /\ pc' = "connected"
    <2>1. input \in Seq(Byte) /\ offset = 0 /\ half = <<>> /\ sent = <<>>
        BY <1>1 DEF IInv, Types, Fresh
    <2>2. FuzzerPackets(input) # Invalid
        BY <1>3, <2>1, AcceptAlike DEF Payload
    <2>3. input' = input /\ offset' = offset /\ half' = half /\ sent' = sent
        BY <1>1
    <2> QED BY <1>3, <2>1, <2>2, <2>3, NothingSent
<1> QED BY <1>1, <1>2, <1>3

LEMMA Inductive ==
    ASSUME IInv, [Next]_vars
    PROVE  IInv'
<1>1. ASSUME NEW d \in Inputs, Enter(d)
      PROVE  IInv'
    <2>1. /\ pc = "idle" /\ pc' = "entered" /\ input' = d
          /\ offset' = offset /\ half' = half /\ sent' = sent
        BY <1>1 DEF Enter
    <2>2. offset = 0 /\ half = <<>> /\ sent = <<>>
        BY <2>1 DEF IInv, Fresh
    <2>3. d \in Seq(Byte)
        BY InputsAssumption DEF Byte
    <2> QED BY <2>1, <2>2, <2>3, NothingSent
<1>2. ASSUME Return
      PROVE  IInv'
    <2>1. pc' = "idle" /\ input' = <<>> /\ offset' = 0 /\ half' = <<>> /\ sent' = <<>>
        BY <1>2 DEF Return
    <2>2. <<>> \in Seq(Byte)
        OBVIOUS
    <2> QED BY <2>1, <2>2, NothingSent
<1>3. ASSUME ReadAnswer \/ ReadFinal \/ Close
      PROVE  IInv'
    <2>1. /\ UNCHANGED <<input, offset, half, sent, logged>>
          /\ \/ pc' \in {"settle", "closed"}
             \/ pc = "answer" /\ pc' = "send"
        BY <1>3 DEF ReadAnswer, ReadFinal, Close
    <2> QED BY <2>1, MovesOn
<1>4. ASSUME UNCHANGED vars
      PROVE  IInv'
    <2>1. /\ pc' = pc /\ input' = input /\ offset' = offset /\ half' = half
          /\ sent' = sent /\ logged' = logged
        BY <1>4 DEF vars
    <2> QED BY <2>1 DEF IInv, Types, Fresh, Accepted, AtPacket, AtHalf, SentSoFar,
                        Between, Left, Remains, Payload
<1> QED BY <1>1, <1>2, <1>3, <1>4, ConnectStep, LogInputStep, SendPacketStep,
           SendHalfStep DEF Next, Callback

\* The inductive invariant: an input within fuzzServer's bounds is always at a
\* place where the replay would stop too, and what was sent and what is left
\* make up its sends (fuzzer.c, sendMultipacketData and fuzzServer).
THEOREM Invariant == Spec => []IInv
<1>1. Init => IInv
    BY DEF Init, IInv, Types, Fresh, Accepted, AtPacket, AtHalf, SentSoFar
<1>2. IInv /\ [Next]_vars => IInv'
    BY Inductive
<1> QED BY <1>1, <1>2, PTL DEF Spec

-----------------------------------------------------------------------------
(* The properties *)

\* fuzzServer never reads a length or a packet beyond the end of its input,
\* though its send loop does not look again (fuzzer.c, sendMultipacketData).
THEOREM StaysInBounds == Spec => []InBounds
<1>1. IInv => InBounds
    <2> SUFFICES ASSUME IInv, pc = "send", Multipacket(input)
                 PROVE  /\ offset + 2 <= Len(Payload)
                        /\ offset + 2 + LengthAt(Payload, offset) <= Len(Payload)
                        /\ LengthAt(Payload, offset) > 0
        BY DEF InBounds
    <2>1. Size > 0 /\ First + Size <= Len(Payload)
          /\ Packet \in Seq(Byte) /\ Len(Packet) = Size
        BY NextPacket
    <2>2. First = offset + 2 /\ Size = LengthAt(Payload, offset)
        BY DEF First, Size
    <2>3. offset \in Nat /\ Size \in Nat /\ Len(Payload) \in Nat
        <3>1. input \in Seq(Byte) /\ input # <<>> /\ offset \in Nat
            BY PacketsType DEF IInv, Types, Accepted
        <3>2. Payload \in Seq(Byte)
            BY <3>1, HeadTailProperties DEF Payload
        <3>3. Len(Packet) \in Nat
            BY <2>1
        <3> QED BY <2>1, <3>1, <3>2, <3>3
    <2> QED BY <2>1, <2>2, <2>3
<1> QED BY <1>1, Invariant, PTL

\* What fuzzServer sends is what send-test-case.py replays, up to where it was
\* cut short, and was logged first (fuzzer.c, fuzzServer).
THEOREM SendsAreReplayed == Spec => []Replayed
<1>1. IInv => Replayed
    BY DEF IInv, Accepted, SentSoFar, Replayed
<1> QED BY <1>1, Invariant, PTL

\* fuzzServer and send-test-case.py accept the same inputs, and take a framed
\* one apart into what multipacket() put together.
THEOREM FramingsAgree == Spec => []FramingAgrees
<1>1. IInv => FramingAgrees
    <2>1. ASSUME IInv, pc = "connected" PROVE FuzzerPackets(input) # Invalid
        BY <2>1 DEF IInv, Accepted
    <2>2. ASSUME IInv, input # <<>>, FuzzerPackets(input) # Invalid, Multipacket(input)
          PROVE  /\ ValidMultipacket(Payload)
                 /\ Frame(FuzzerPackets(input)) = Payload
        <3>1. input \in Seq(Byte)
            BY <2>2 DEF IInv, Types
        <3> QED BY <2>2, <3>1, AcceptAlike, FramesBack DEF Payload
    <2> QED BY <2>1, <2>2 DEF FramingAgrees
<1> QED BY <1>1, Invariant, PTL

\* What normalize makes of an input.
LEMMA NormalizedIs ==
    ASSUME NEW d \in Seq(Byte), d # <<>>
    PROVE  /\ FuzzerPackets(Normalize(d)) # Invalid
           /\ Normalize(Normalize(d)) = Normalize(d)
           /\ Normalize(d) # d => FuzzerPackets(Normalize(d)) = <<d>>
<1>1. CASE Flags(d) > 7 \/ (Multipacket(d) /\ ~ValidMultipacket(Tail(d)))
    <2> DEFINE e == <<0>> \o d
    <2>1. Normalize(d) = e
        BY <1>1 DEF Normalize
    <2>2. /\ e \in Seq(Byte) /\ e # <<>> /\ Head(e) = 0 /\ Tail(e) = d
        <3>1. <<0>> \in Seq(Byte) /\ Len(<<0>>) = 1 /\ <<0>>[1] = 0
            BY DEF Byte
        <3>2. /\ e \in Seq(Byte) /\ Len(e) = 1 + Len(d)
              /\ \A i \in 1 .. 1 + Len(d) : e[i] = IF i <= 1 THEN <<0>>[i] ELSE d[i - 1]
            BY <3>1, ConcatProperties
        <3>3. Len(d) \in Nat
            OBVIOUS
        <3> HIDE DEF e
        <3>4. e # <<>>
            BY <3>2, <3>3
        <3>5. e[1] = 0
            BY <3>1, <3>2, <3>3
        <3>6. Head(e) = 0
            BY <3>2, <3>4, <3>5
        <3>7. /\ Tail(e) \in Seq(Byte) /\ Len(Tail(e)) = Len(d)
              /\ \A i \in 1 .. Len(Tail(e)) : Tail(e)[i] = e[i + 1]
            BY <3>2, <3>3, <3>4, HeadTailProperties
        <3>8. \A i \in 1 .. Len(d) : e[i + 1] = d[i]
            <4> TAKE i \in 1 .. Len(d)
            <4>1. PICK j \in 1 .. 1 + Len(d) : j = i + 1
                BY <3>3
            <4>2. ~(j <= 1) /\ j - 1 = i
                BY <4>1
            <4> QED BY <3>2, <4>1, <4>2
        <3>9. Tail(e) = d
            BY <3>7, <3>8, SeqEqual
        <3> QED BY <3>2, <3>4, <3>6, <3>9
    <2> HIDE DEF e
    <2>3. Flags(e) = 0 /\ ~Multipacket(e)
        BY <2>2 DEF Flags, Multipacket
    <2>4. FuzzerPackets(e) = <<d>>
        BY <2>2, <2>3 DEF FuzzerPackets
    <2>5. <<d>> # Invalid
        <3>1. <<d>> \in Seq(Seq(0 .. 255))
            BY DEF Byte
        <3> QED BY <3>1, InvalidAssumption
    <2>6. Normalize(e) = e
        BY <2>2, <2>3 DEF Normalize
    <2> QED BY <2>1, <2>4, <2>5, <2>6
<1>2. CASE ~(Flags(d) > 7 \/ (Multipacket(d) /\ ~ValidMultipacket(Tail(d))))
    <2>1. Normalize(d) = d
        BY <1>2 DEF Normalize
    <2> QED BY <1>2, <2>1, AcceptAlike
<1> QED BY <1>1, <1>2

\* An input of the normalized corpus is accepted, stays as it is, and, when it
\* was changed, is sent whole (normalize-corpus-flags.py, normalize).
THEOREM NormalizedAccepted == Spec => []NormalizedRuns
<1>1. IInv => NormalizedRuns
    BY NormalizedIs DEF IInv, Types, NormalizedRuns
<1> QED BY <1>1, Invariant, PTL
=============================================================================
