------------------------- MODULE LinkQuality_proofs -------------------------
(***************************************************************************)
(* The two ends of a frame's way to the flight computer: the quality of    *)
(* the radio link, and the serial line.                                    *)
(*                                                                         *)
(* LinkQuality, for every number of periods, every size of a word and      *)
(* every number of expiries that a connection survives, if at least N:     *)
(*   - LQ is the number of set bits (TotalIsRight);                        *)
(*   - a connection of N periods shows the ratio of the packets received   *)
(*     (QualityIsRatio);                                                   *)
(*   - a connection is given up out of quality 0 (QualityFades).           *)
(*                                                                         *)
(* The ring of words is one of N bits: index and LQmask walk over all of   *)
(* them and wrap after bit N - 1 (FollowingBit).  The bits from the cursor *)
(* backwards are then the last periods, each set as its packet came, and   *)
(* clear for as long as packets have been missing (BitsInv).               *)
(*                                                                         *)
(* SerialLink, for all frames, every size of the FIFO and every length of  *)
(* the silence after which reception is started anew:                      *)
(*   - the FIFO is a bounded queue (FifoServes), since the count, less the *)
(*     byte that the task is taking, is the distance of the two ends       *)
(*     (SerialInv);                                                        *)
(*   - SerialLink implements LossyLink (FramesArrive): the frames that end *)
(*     in the byte the task holds, in the FIFO and on the wire, in this    *)
(*     order, are the link's queue (Underway).  Ends takes concatenation   *)
(*     to concatenation (EndsConcat), so a byte that moves leaves it as it *)
(*     is, and one that is lost takes its frame, or none (LinkLoses).      *)
(***************************************************************************)
EXTENDS LinkQuality, SerialLink, FiniteSetTheorems, FunctionTheorems,
        SequenceTheorems, TLAPS

(* The inductive invariant: the set of bits is finite as well.              *)
TotalInv == IsFiniteSet(LQArray) /\ LQ = Cardinality(LQArray)

(* What is left of the ring when bit p is cleared, and of its size.         *)
LEMMA Clearing ==
  ASSUME TotalInv, NEW p
  PROVE  /\ IsFiniteSet(LQArray \ {p})
         /\ Without(p, LQ) = Cardinality(LQArray \ {p})
<1>1. IsFiniteSet(LQArray \ {p})
  BY FS_RemoveElement DEF TotalInv
<1>2. CASE p \in LQArray
  BY <1>1, <1>2, FS_RemoveElement DEF TotalInv, Without
<1>3. CASE p \notin LQArray
  <2>1. LQArray \ {p} = LQArray
    BY <1>3
  <2> QED
    BY <1>3, <2>1 DEF TotalInv, Without
<1> QED
  BY <1>1, <1>2, <1>3

LEMMA IncKeeps ==
  ASSUME TotalInv, Inc
  PROVE  TotalInv'
BY Clearing DEF Inc, TotalInv

LEMMA IncAddKeeps ==
  ASSUME TotalInv, IncAdd
  PROVE  TotalInv'
<1> DEFINE rest == LQArray \ {cursor'}
<1>1. IsFiniteSet(rest) /\ Without(cursor', LQ) = Cardinality(rest)
  BY Clearing
<1>2. cursor' \notin rest /\ LQArray' = rest \cup {cursor'}
  BY DEF IncAdd
<1>3. LQ' = Cardinality(rest) + 1
  BY <1>1 DEF IncAdd
<1> HIDE DEF rest
<1>4. IsFiniteSet(LQArray') /\ Cardinality(LQArray') = Cardinality(rest) + 1
  BY <1>1, <1>2, FS_AddElement
<1> QED
  BY <1>3, <1>4 DEF TotalInv

LEMMA ResetKeeps ==
  ASSUME Reset
  PROVE  TotalInv'
BY FS_EmptySet DEF Reset, TotalInv

LEMMA NextTotal ==
  ASSUME TotalInv, [Next]_vars
  PROVE  TotalInv'
<1>1. CASE Heard
  BY <1>1, IncAddKeeps DEF Heard
<1>2. CASE Invalid
  BY <1>2, IncKeeps DEF Invalid
<1>3. CASE MissingConnected
  BY <1>3, IncKeeps DEF MissingConnected
<1>4. CASE MissingLost
  BY <1>4, ResetKeeps DEF MissingLost
<1>5. CASE MissingSearching
  BY <1>5 DEF MissingSearching, lq, TotalInv
<1>6. CASE Restart
  BY <1>6, ResetKeeps DEF Restart
<1>7. CASE UNCHANGED vars
  BY <1>7 DEF vars, TotalInv
<1> QED
  BY <1>1, <1>2, <1>3, <1>4, <1>5, <1>6, <1>7 DEF Next, Missing

(***************************************************************************)
(* However periods, damaged packets, lost connections and restarts follow  *)
(* one another, LQ is the number of set bits.                              *)
(***************************************************************************)
THEOREM TotalIsRight == Spec => []RunningTotal
<1>1. Init => TotalInv
  BY FS_EmptySet DEF Init, TotalInv
<1>2. TotalInv /\ [Next]_vars => TotalInv'
  BY NextTotal
<1>3. TotalInv => RunningTotal
  BY DEF TotalInv, RunningTotal
<1> QED
  BY <1>1, <1>2, <1>3, PTL DEF Spec

-----------------------------------------------------------------------------
(* The ring of N bits.                                                      *)

(* Bit number k: its word, and its bit in the word.                         *)
At(k) == << k \div W, k % W >>

(* The number of the bit k periods before bit c.                            *)
Back(c, k) == IF k <= c THEN c - k ELSE (c + N) - k

(* The cursor is at bit c, and no bit is set outside the ring.              *)
RingInv(c) ==
  /\ c \in 0 .. N - 1 /\ cursor = At(c)
  /\ LQArray \subseteq {At(k) : k \in 0 .. N - 1}

(* Bits of a connection that has missed packets are clear; the bits since   *)
(* the connection was made, or the last damaged packet, are what came.      *)
BitsInv(c) ==
  \A k \in 0 .. N - 1 :
    /\ connectionState = "connected" /\ k < timeout => At(Back(c, k)) \notin LQArray
    /\ k < since /\ k < undamaged => (At(Back(c, k)) \in LQArray <=> expected[N - k])

LqTypes ==
  /\ count \in 1 .. N /\ since \in 0 .. N /\ undamaged \in 0 .. N
  /\ since <= count /\ timeout \in Nat
  /\ expected \in Seq(BOOLEAN) /\ Len(expected) = N

(* Does the ring agree with the history, wherever the cursor is?            *)
BitsAgree == \E c \in 0 .. N - 1 : RingInv(c) /\ BitsInv(c)

(* The inductive invariant.                                                 *)
LqInv == TotalInv /\ LqTypes /\ BitsAgree

-----------------------------------------------------------------------------
LEMMA DivMod ==
  ASSUME NEW k \in Nat
  PROVE  /\ k \div W \in Nat /\ k % W \in 0 .. W - 1
         /\ k = W * (k \div W) + (k % W)
BY SizeAssumption DEF SizeAssumption

(* A bit has one word, and one place in it.                                 *)
LEMMA OnePlace ==
  ASSUME NEW q \in Nat, NEW r \in 0 .. W - 1, NEW p \in Nat, NEW t \in 0 .. W - 1,
         W * q + r = W * p + t
  PROVE  q = p /\ r = t
<1> USE SizeAssumption DEF SizeAssumption
<1>1. ASSUME NEW a \in Nat, NEW b \in Nat, a < b PROVE W * b >= W * a + W
  <2>1. PICK d \in Nat : b = a + 1 + d
    <3>1. b - a - 1 \in Nat /\ b = a + 1 + (b - a - 1)
      BY <1>1
    <3> QED
      BY <3>1
  <2>2. W * b = W * a + W + W * d
    BY <2>1
  <2>3. W * d \in Nat /\ W * a \in Nat /\ W \in Nat
    OBVIOUS
  <2> QED
    BY <2>2, <2>3
<1>2. W * q \in Nat /\ W * p \in Nat /\ W \in Nat
  OBVIOUS
<1>3. CASE q < p
  BY <1>1, <1>2, <1>3
<1>4. CASE p < q
  BY <1>1, <1>2, <1>4
<1> QED
  BY <1>2, <1>3, <1>4

LEMMA AtIsInjective ==
  ASSUME NEW k \in Nat, NEW m \in Nat, At(k) = At(m)
  PROVE  k = m
<1>1. k \div W = m \div W /\ k % W = m % W
  BY DEF At
<1> QED
  BY <1>1, DivMod

(* Shifting the mask, and the word when the mask runs out, reaches the next *)
(* bit, and the comparison with word N / W and bit N % W wraps at bit N.    *)
LEMMA FollowingBit ==
  ASSUME NEW k \in 0 .. N - 1
  PROVE  Following(At(k)) = At(IF k + 1 = N THEN 0 ELSE k + 1)
<1> USE SizeAssumption DEF SizeAssumption
<1> DEFINE q == k \div W
           r == k % W
<1>1. q \in Nat /\ r \in 0 .. W - 1 /\ k = W * q + r /\ k \in Nat
  BY DivMod
<1>2. Shifted(At(k)) = IF r + 1 = W THEN << q + 1, 0 >> ELSE << q, r + 1 >>
  BY DEF Shifted, At
<1> HIDE DEF q, r
<1>3. Shifted(At(k)) = At(k + 1)
  <2> DEFINE p == (k + 1) \div W
             t == (k + 1) % W
  <2>1. p \in Nat /\ t \in 0 .. W - 1 /\ k + 1 = W * p + t
    BY <1>1, DivMod
  <2>2. At(k + 1) = << p, t >>
    BY DEF At
  <2> HIDE DEF p, t
  <2>3. CASE r + 1 = W
    <3>1. k + 1 = W * (q + 1) + 0
      BY <1>1, <2>3
    <3>2. p = q + 1 /\ t = 0
      BY <1>1, <2>1, <3>1, OnePlace
    <3> QED
      BY <1>2, <2>2, <2>3, <3>2
  <2>4. CASE r + 1 # W
    <3>1. k + 1 = W * q + (r + 1) /\ r + 1 \in 0 .. W - 1
      BY <1>1, <2>4
    <3>2. p = q /\ t = r + 1
      BY <1>1, <2>1, <3>1, OnePlace
    <3> QED
      BY <1>2, <2>2, <2>4, <3>2
  <2> QED
    BY <2>3, <2>4
<1>4. At(k + 1) = At(N) <=> k + 1 = N
  BY <1>1, AtIsInjective
<1>5. At(0) = << 0, 0 >>
  <2>1. 0 = W * 0 + 0
    OBVIOUS
  <2>2. 0 \div W \in Nat /\ 0 % W \in 0 .. W - 1 /\ 0 = W * (0 \div W) + (0 % W)
    BY DivMod
  <2>3. 0 \div W = 0 /\ 0 % W = 0
    BY <2>1, <2>2, OnePlace
  <2> QED
    BY <2>3 DEF At
<1>6. << N \div W, N % W >> = At(N)
  BY DEF At
<1> QED
  BY <1>3, <1>4, <1>5, <1>6 DEF Following

LEMMA BackFacts ==
  ASSUME NEW c \in 0 .. N - 1
  PROVE  /\ \A k \in 0 .. N - 1 : Back(c, k) \in 0 .. N - 1 /\ Back(c, Back(c, k)) = k
         /\ Back(c, 0) = c
BY SizeAssumption DEF Back, SizeAssumption

(* A new period: the cursor is at a bit of its own, and the others are one  *)
(* period older.                                                            *)
LEMMA Period ==
  ASSUME NEW c, RingInv(c), cursor' = Following(cursor),
         LQArray' \in {LQArray \ {cursor'}, LQArray \cup {cursor'}}
  PROVE  \E d \in 0 .. N - 1 :
           /\ RingInv(d)' /\ At(Back(d, 0)) = cursor'
           /\ \A k \in 0 .. N - 1 : k + 1 # N =>
                (At(Back(d, k + 1)) \in LQArray' <=> At(Back(c, k)) \in LQArray)
<1> USE SizeAssumption DEF SizeAssumption
<1> DEFINE d == IF c + 1 = N THEN 0 ELSE c + 1
<1>1. c \in 0 .. N - 1 /\ cursor = At(c) /\ LQArray \subseteq {At(k) : k \in 0 .. N - 1}
  BY DEF RingInv
<1>2. d \in 0 .. N - 1 /\ cursor' = At(d)
  BY <1>1, FollowingBit
<1>3. RingInv(d)'
  BY <1>1, <1>2 DEF RingInv
<1>4. At(Back(d, 0)) = cursor'
  BY <1>2, BackFacts
<1>5. ASSUME NEW k \in 0 .. N - 1, k + 1 # N
      PROVE  At(Back(d, k + 1)) \in LQArray' <=> At(Back(c, k)) \in LQArray
  <2>1. Back(d, k + 1) = Back(c, k) /\ Back(c, k) # d
    BY <1>1, <1>5 DEF Back
  <2>2. Back(c, k) \in Nat /\ d \in Nat
    BY <1>1, <1>2, BackFacts
  <2>3. At(Back(c, k)) # cursor'
    BY <1>2, <2>1, <2>2, AtIsInjective
  <2> QED
    BY <2>1, <2>3
<1> QED
  BY <1>2, <1>3, <1>4, <1>5

LEMMA RememberFacts ==
  ASSUME LqTypes, NEW x \in BOOLEAN, Remember(x)
  PROVE  /\ expected' \in Seq(BOOLEAN) /\ Len(expected') = N
         /\ expected'[N] = x
         /\ \A k \in 0 .. N - 1 : k + 1 # N => expected'[N - (k + 1)] = expected[N - k]
<1> USE SizeAssumption DEF SizeAssumption
<1>1. expected \in Seq(BOOLEAN) /\ Len(expected) = N /\ expected # << >>
  BY DEF LqTypes
<1> DEFINE t == Tail(expected)
<1>2. t \in Seq(BOOLEAN) /\ Len(t) = N - 1 /\ \A i \in 1 .. N - 1 : t[i] = expected[i + 1]
  BY <1>1
<1> HIDE DEF t
<1>3. expected' = Append(t, x)
  BY DEF Remember, t
<1>4. /\ expected' \in Seq(BOOLEAN) /\ Len(expected') = N
      /\ expected'[N] = x /\ \A i \in 1 .. N - 1 : expected'[i] = t[i]
  BY <1>2, <1>3
<1>5. ASSUME NEW k \in 0 .. N - 1, k + 1 # N
      PROVE  expected'[N - (k + 1)] = expected[N - k]
  <2>1. N - (k + 1) \in 1 .. N - 1 /\ (N - (k + 1)) + 1 = N - k
    BY <1>5
  <2>2. expected'[N - (k + 1)] = t[N - (k + 1)]
    BY <1>4, <2>1
  <2>3. t[N - (k + 1)] = expected[(N - (k + 1)) + 1]
    BY <1>2, <2>1
  <2> QED
    BY <2>1, <2>2, <2>3
<1> QED
  BY <1>4, <1>5

(* A reset puts the cursor back on bit 0 of an empty ring.                  *)
LEMMA ResetRing ==
  ASSUME Reset
  PROVE  RingInv(0)' /\ LQArray' = {}
<1> USE SizeAssumption DEF SizeAssumption
<1>1. At(0) = << 0, 0 >>
  BY DEF At
<1> QED
  BY <1>1 DEF Reset, RingInv

-----------------------------------------------------------------------------
(* A period of a connection: a packet is heard or missing.                  *)
LEMMA CountedBits ==
  ASSUME LqTypes, BitsAgree, NEW x \in BOOLEAN, Remember(x), Counted,
         cursor' = Following(cursor),
         LQArray' = IF x THEN LQArray \cup {cursor'} ELSE LQArray \ {cursor'},
         timeout' = 0 \/ ( /\ ~ x /\ timeout' = timeout + 1
                           /\ connectionState = "connected" )
  PROVE  BitsAgree'
<1> USE SizeAssumption DEF SizeAssumption
<1>1. PICK c \in 0 .. N - 1 : RingInv(c) /\ BitsInv(c)
  BY DEF BitsAgree
<1>2. PICK d \in 0 .. N - 1 :
           /\ RingInv(d)' /\ At(Back(d, 0)) = cursor'
           /\ \A k \in 0 .. N - 1 : k + 1 # N =>
                (At(Back(d, k + 1)) \in LQArray' <=> At(Back(c, k)) \in LQArray)
  BY <1>1, Period
<1>3. /\ expected'[N] = x
      /\ \A k \in 0 .. N - 1 : k + 1 # N => expected'[N - (k + 1)] = expected[N - k]
  BY RememberFacts
<1>4. /\ since \in Nat /\ undamaged \in Nat /\ timeout \in Nat
      /\ since' \in Nat /\ undamaged' \in Nat
      /\ since' <= since + 1 /\ undamaged' <= undamaged + 1
  BY DEF LqTypes, Counted, OneMore
<1>5. ASSUME NEW k \in 0 .. N - 1
      PROVE  /\ connectionState' = "connected" /\ k < timeout' =>
                  At(Back(d, k)) \notin LQArray'
             /\ k < since' /\ k < undamaged' =>
                  (At(Back(d, k)) \in LQArray' <=> expected'[N - k])
  <2>1. CASE k = 0
    <3>1. At(Back(d, k)) \in LQArray' <=> x
      BY <1>2, <2>1
    <3>2. expected'[N - k] = x
      BY <1>3, <2>1
    <3>3. 0 < timeout' => ~ x
      BY <1>4
    <3> QED
      BY <2>1, <3>1, <3>2, <3>3
  <2>2. CASE k # 0
    <3> DEFINE j == k - 1
    <3>1. j \in 0 .. N - 1 /\ j + 1 # N /\ k = j + 1
      BY <2>2
    <3> HIDE DEF j
    <3>2. At(Back(d, k)) \in LQArray' <=> At(Back(c, j)) \in LQArray
      BY <1>2, <3>1
    <3>3. expected'[N - k] = expected[N - j]
      BY <1>3, <3>1
    <3>4. k < timeout' => connectionState = "connected" /\ j < timeout
      BY <1>4, <3>1
    <3>5. k < since' /\ k < undamaged' => j < since /\ j < undamaged
      BY <1>4, <3>1
    <3> QED
      BY <1>1, <3>1, <3>2, <3>3, <3>4, <3>5 DEF BitsInv
  <2> QED
    BY <2>1, <2>2
<1> QED
  BY <1>2, <1>5 DEF BitsAgree, BitsInv

(* A damaged packet: a period of its own, which clears a bit.               *)
LEMMA InvalidBits ==
  ASSUME LqTypes, BitsAgree, Invalid
  PROVE  BitsAgree'
<1> USE SizeAssumption DEF SizeAssumption
<1>1. PICK c \in 0 .. N - 1 : RingInv(c) /\ BitsInv(c)
  BY DEF BitsAgree
<1>2. /\ cursor' = Following(cursor) /\ LQArray' = LQArray \ {cursor'}
      /\ undamaged' = 0 /\ timeout \in Nat
      /\ UNCHANGED << connectionState, timeout >>
  BY DEF Invalid, Inc, LqTypes
<1>3. PICK d \in 0 .. N - 1 :
           /\ RingInv(d)' /\ At(Back(d, 0)) = cursor'
           /\ \A k \in 0 .. N - 1 : k + 1 # N =>
                (At(Back(d, k + 1)) \in LQArray' <=> At(Back(c, k)) \in LQArray)
  BY <1>1, <1>2, Period
<1>4. ASSUME NEW k \in 0 .. N - 1, connectionState' = "connected", k < timeout'
      PROVE  At(Back(d, k)) \notin LQArray'
  <2>1. CASE k = 0
    BY <1>2, <1>3, <2>1
  <2>2. CASE k # 0
    <3> DEFINE j == k - 1
    <3>1. j \in 0 .. N - 1 /\ j + 1 # N /\ k = j + 1 /\ j < timeout
      BY <1>2, <1>4, <2>2
    <3> HIDE DEF j
    <3> QED
      BY <1>1, <1>2, <1>3, <1>4, <3>1 DEF BitsInv
  <2> QED
    BY <2>1, <2>2
<1> QED
  BY <1>2, <1>3, <1>4 DEF BitsAgree, BitsInv

(* No connection, and a ring that has been reset or stands still.           *)
LEMMA SearchingBits ==
  ASSUME BitsAgree, connectionState' = "disconnected", since' = 0, Reset \/ UNCHANGED lq
  PROVE  BitsAgree'
<1> USE SizeAssumption DEF SizeAssumption
<1>1. \A c : BitsInv(c)'
  BY DEF BitsInv
<1>2. CASE Reset
  BY <1>1, <1>2, ResetRing DEF BitsAgree
<1>3. CASE UNCHANGED lq
  BY <1>1, <1>3 DEF BitsAgree, RingInv, lq
<1> QED
  BY <1>2, <1>3

LEMMA NextTypes ==
  ASSUME LqTypes, [Next]_vars
  PROVE  LqTypes'
<1> USE SizeAssumption DEF SizeAssumption
<1>1. ASSUME Counted,
             \/ count' = IF count < N THEN count + 1 ELSE count
             \/ connectionState' # "connected" /\ count' = count
      PROVE  /\ count' \in 1 .. N /\ since' \in 0 .. N /\ undamaged' \in 0 .. N
             /\ since' <= count'
  BY <1>1 DEF LqTypes, Counted, OneMore
<1>2. CASE Heard
  <2>1. Counted /\ count' = IF count < N THEN count + 1 ELSE count
    BY <1>2 DEF Heard, IncAdd
  <2>2. expected' \in Seq(BOOLEAN) /\ Len(expected') = N
    BY <1>2, RememberFacts DEF Heard
  <2>3. timeout' \in Nat
    BY <1>2 DEF Heard
  <2> QED
    BY <1>1, <2>1, <2>2, <2>3 DEF LqTypes
<1>3. CASE Missing
  <2>1. Counted /\ (\/ count' = IF count < N THEN count + 1 ELSE count
                    \/ connectionState' # "connected" /\ count' = count)
    BY <1>3 DEF Missing, MissingConnected, MissingLost, MissingSearching, Inc, Reset, lq
  <2>2. expected' \in Seq(BOOLEAN) /\ Len(expected') = N
    BY <1>3, RememberFacts DEF Missing
  <2>3. timeout' \in Nat
    BY <1>3 DEF Missing, MissingConnected, MissingLost, MissingSearching, LqTypes
  <2> QED
    BY <1>1, <2>1, <2>2, <2>3 DEF LqTypes
<1>4. CASE Invalid
  BY <1>4 DEF Invalid, Inc, LqTypes
<1>5. CASE Restart
  BY <1>5 DEF Restart, Reset, LqTypes
<1>6. CASE UNCHANGED vars
  BY <1>6 DEF vars, LqTypes
<1> QED
  BY <1>2, <1>3, <1>4, <1>5, <1>6 DEF Next

LEMMA NextBits ==
  ASSUME LqTypes, BitsAgree, [Next]_vars
  PROVE  BitsAgree'
<1>1. CASE Heard
  BY <1>1, CountedBits DEF Heard, IncAdd
<1>2. CASE Invalid
  BY <1>2, InvalidBits
<1>3. CASE Missing
  <2>1. CASE MissingConnected
    BY <1>3, <2>1, CountedBits DEF Missing, MissingConnected, Inc
  <2>2. CASE MissingLost \/ MissingSearching
    BY <1>3, <2>2, SearchingBits DEF Missing, MissingLost, MissingSearching, Counted
  <2> QED
    BY <1>3, <2>1, <2>2 DEF Missing
<1>4. CASE Restart
  BY <1>4, SearchingBits DEF Restart
<1>5. CASE UNCHANGED vars
  BY <1>5 DEF vars, BitsAgree, RingInv, BitsInv
<1> QED
  BY <1>1, <1>2, <1>3, <1>4, <1>5 DEF Next

LEMMA InitLq == Init => LqInv
<1> SUFFICES ASSUME Init PROVE LqInv
  OBVIOUS
<1> USE SizeAssumption DEF SizeAssumption
<1>1. TotalInv
  BY FS_EmptySet DEF Init, TotalInv
<1>2. expected \in Seq(BOOLEAN) /\ Len(expected) = N
  BY DEF Init
<1>3. LqTypes
  BY <1>2 DEF Init, LqTypes
<1>4. RingInv(0) /\ BitsInv(0)
  <2>1. At(0) = << 0, 0 >>
    BY DEF At
  <2> QED
    BY <2>1 DEF Init, RingInv, BitsInv
<1> QED
  BY <1>1, <1>3, <1>4 DEF LqInv, BitsAgree

LEMMA NextLq ==
  ASSUME LqInv, [Next]_vars
  PROVE  LqInv'
BY NextTotal, NextTypes, NextBits DEF LqInv

(* A full ring has a bit for each packet received in the last N periods.    *)
LEMMA BitsAreReceived ==
  ASSUME LqInv, since = N, undamaged = N
  PROVE  LQ = Received
<1> USE SizeAssumption DEF SizeAssumption
<1> DEFINE S == {k \in 1 .. N : expected[k]}
<1>1. PICK c \in 0 .. N - 1 : RingInv(c) /\ BitsInv(c)
  BY DEF LqInv, BitsAgree
<1>2. \A k \in 0 .. N - 1 : At(Back(c, k)) \in LQArray <=> expected[N - k]
  BY <1>1 DEF BitsInv
<1> DEFINE f == [k \in S |-> At(Back(c, N - k))]
<1>3. \A k \in S : N - k \in 0 .. N - 1 /\ N - (N - k) = k
  OBVIOUS
<1>4. f \in [S -> LQArray]
  BY <1>2, <1>3
<1>5. ASSUME NEW j \in S, NEW k \in S, f[j] = f[k] PROVE j = k
  <2>1. Back(c, N - j) \in 0 .. N - 1 /\ Back(c, N - k) \in 0 .. N - 1
    BY <1>3, BackFacts
  <2>2. Back(c, N - j) = Back(c, N - k)
    BY <1>5, <2>1, AtIsInjective
  <2>3. \A i \in 0 .. N - 1 : Back(c, Back(c, i)) = i
    BY BackFacts
  <2>4. PICK m \in 0 .. N - 1, n \in 0 .. N - 1 : m = N - j /\ n = N - k
    BY <1>3
  <2>5. m = n
    BY <2>2, <2>3, <2>4
  <2> QED
    BY <2>4, <2>5
<1>6. ASSUME NEW b \in LQArray PROVE \E k \in S : f[k] = b
  <2>1. PICK i \in 0 .. N - 1 : b = At(i)
    BY <1>1 DEF RingInv
  <2>2. PICK k \in 0 .. N - 1 : Back(c, k) = i
    BY <2>1, BackFacts
  <2>3. expected[N - k] /\ N - k \in 1 .. N /\ N - (N - k) = k
    BY <1>2, <2>1, <2>2
  <2> QED
    BY <2>1, <2>2, <2>3
<1> HIDE DEF f
<1>7. f \in Bijection(S, LQArray)
  BY <1>4, <1>5, <1>6 DEF Bijection, Injection, Surjection, IsInjective
<1>8. IsFiniteSet(S)
  <2>1. IsFiniteSet(1 .. N)
    BY FS_Interval
  <2> QED
    BY <2>1, FS_Subset
<1>9. Cardinality(LQArray) = Cardinality(S)
  <2>1. ExistsBijection(S, LQArray)
    BY <1>7 DEF ExistsBijection
  <2> HIDE DEF S
  <2> QED
    BY <1>8, <2>1, FS_Bijection
<1> QED
  BY <1>9 DEF Received, LqInv, TotalInv

(***************************************************************************)
(* The quality of a connection of N periods or more with no damaged packet *)
(* is the ratio of the packets received, for every N and every word size:  *)
(* inc and add work on the bit they should, over the wrap of the ring.     *)
(***************************************************************************)
THEOREM QualityIsRatio == Spec => []LqIsRatio
<1>1. Init => LqInv
  BY InitLq
<1>2. LqInv /\ [Next]_vars => LqInv'
  BY NextLq
<1>3. LqInv => LqIsRatio
  <2> SUFFICES ASSUME LqInv, since = N, undamaged = N
               PROVE  getLQ = (Received * 100) \div N
    BY DEF LqIsRatio
  <2>1. LQ = Received
    BY BitsAreReceived
  <2>2. count = N
    BY SizeAssumption DEF LqInv, LqTypes, SizeAssumption
  <2> QED
    BY <2>1, <2>2 DEF getLQ
<1> QED
  BY <1>1, <1>2, <1>3, PTL DEF Spec

(* N expiries clear the ring.                                               *)
LEMMA LostAtZero ==
  ASSUME LqInv, MissingLost, connectionState = "connected"
  PROVE  getLQ = 0
<1> USE SizeAssumption DEF SizeAssumption
<1>1. PICK c \in 0 .. N - 1 : RingInv(c) /\ BitsInv(c)
  BY DEF LqInv, BitsAgree
<1>2. \A k \in 0 .. N - 1 : At(Back(c, k)) \notin LQArray
  BY <1>1 DEF BitsInv, MissingLost, TimesOut
<1>3. LQArray = {}
  <2> SUFFICES ASSUME NEW i \in 0 .. N - 1 PROVE At(i) \notin LQArray
    BY <1>1 DEF RingInv
  <2>1. Back(c, i) \in 0 .. N - 1 /\ Back(c, Back(c, i)) = i
    BY BackFacts
  <2> QED
    BY <1>2, <2>1
<1>4. LQ = 0 /\ count \in Nat \ {0}
  BY <1>3, FS_EmptySet DEF LqInv, TotalInv, LqTypes
<1> QED
  BY <1>4 DEF getLQ

(***************************************************************************)
(* A connection is never given up out of a quality above 0, for every N    *)
(* not above the expiries that it takes (N <= LostAfter).                  *)
(***************************************************************************)
THEOREM QualityFades == Spec => FadesBeforeLost
<1>1. Init => LqInv
  BY InitLq
<1>2. LqInv /\ [Next]_vars => LqInv'
  BY NextLq
<1>3. LqInv => [ MissingLost /\ connectionState = "connected" => getLQ = 0 ]_vars
  BY LostAtZero
<1> QED
  BY <1>1, <1>2, <1>3, PTL DEF Spec, FadesBeforeLost

-----------------------------------------------------------------------------
(* Positions and their ranks.                                               *)

LEMMA Positions ==
  ASSUME NEW n \in Nat, NEW S \in SUBSET (1 .. n)
  PROVE  /\ IsFiniteSet(S) /\ Cardinality(S) \in Nat
         /\ \A i \in S : i \in Nat /\ 1 <= i /\ i <= n
<1>1. IsFiniteSet(1 .. n)
  BY FS_Interval
<1>2. IsFiniteSet(S)
  BY <1>1, FS_Subset
<1>3. \A i \in S : i \in Nat /\ 1 <= i /\ i <= n
  OBVIOUS
<1> QED BY <1>2, <1>3, FS_CardinalityType

LEMMA RankRange ==
  ASSUME NEW n \in Nat, NEW S \in SUBSET (1 .. n), NEW i \in S
  PROVE  Rank(S, i) \in 1 .. Cardinality(S)
<1>1. IsFiniteSet(S) /\ Cardinality(S) \in Nat
  BY Positions
<1> DEFINE U == {j \in S : j <= i}
<1>2. IsFiniteSet(U) /\ Cardinality(U) <= Cardinality(S) /\ Cardinality(U) \in Nat
  <2>1. U \in SUBSET S
    OBVIOUS
  <2> HIDE DEF U
  <2> QED BY <1>1, <2>1, FS_Subset, FS_CardinalityType
<1>3. i \in U
  BY Positions
<1>4. Cardinality(U) # 0
  BY <1>2, <1>3, FS_EmptySet
<1> QED BY <1>1, <1>2, <1>4 DEF Rank

LEMMA RankIncreases ==
  ASSUME NEW n \in Nat, NEW S \in SUBSET (1 .. n), NEW i \in S, NEW j \in S, i < j
  PROVE  Rank(S, i) < Rank(S, j)
<1> DEFINE U == {m \in S : m <= i}
           V == {m \in S : m <= j}
<1>1. IsFiniteSet(S)
  BY Positions
<1>2. IsFiniteSet(V) /\ Cardinality(V) \in Nat
  <2>1. V \in SUBSET S
    OBVIOUS
  <2> HIDE DEF V
  <2> QED BY <1>1, <2>1, FS_Subset, FS_CardinalityType
<1>3. U \in SUBSET V /\ j \in V /\ j \notin U
  <2>1. i \in Int /\ j \in Int /\ \A m \in S : m \in Int
    BY Positions
  <2>2. \A m \in S : m <= i => m <= j
    BY <2>1
  <2>3. j <= j /\ ~ (j <= i)
    BY <2>1
  <2> QED BY <2>2, <2>3
<1>4. /\ IsFiniteSet(U) /\ Cardinality(U) <= Cardinality(V)
      /\ Cardinality(V) = Cardinality(U) => V = U
  <2> HIDE DEF U, V
  <2> QED BY <1>2, <1>3, FS_Subset
<1>5. Cardinality(U) \in Nat /\ Cardinality(U) # Cardinality(V)
  BY <1>3, <1>4, FS_CardinalityType
<1> QED BY <1>2, <1>4, <1>5 DEF Rank

(* Each rank up to the number of positions belongs to one position.         *)
LEMMA RankHasPosition ==
  ASSUME NEW n \in Nat, NEW S \in SUBSET (1 .. n), NEW k \in 1 .. Cardinality(S)
  PROVE  \E i \in S : Rank(S, i) = k
<1> DEFINE T == 1 .. Cardinality(S)
           F == [i \in S |-> Rank(S, i)]
<1>1. IsFiniteSet(S) /\ Cardinality(S) \in Nat
  BY Positions
<1>2. F \in [S -> T]
  BY RankRange
<1>3. \A i, j \in S : F[i] = F[j] => i = j
  <2> SUFFICES ASSUME NEW i \in S, NEW j \in S, i # j PROVE F[i] # F[j]
    OBVIOUS
  <2>1. Rank(S, i) \in 1 .. Cardinality(S) /\ Rank(S, j) \in 1 .. Cardinality(S)
    BY RankRange
  <2>2. i < j \/ j < i
    <3>1. i \in Int /\ j \in Int
      BY Positions
    <3> QED BY <3>1
  <2>3. Rank(S, i) # Rank(S, j)
    <3>1. Rank(S, i) < Rank(S, j) \/ Rank(S, j) < Rank(S, i)
      BY <2>2, RankIncreases
    <3>2. Rank(S, i) \in Int /\ Rank(S, j) \in Int
      BY <2>1
    <3> QED BY <3>1, <3>2
  <2> QED BY <2>3
<1>4. F \in Injection(S, T)
  BY <1>2, <1>3, Fun_IsInj
<1>5. IsFiniteSet(T) /\ Cardinality(T) = Cardinality(S)
  BY <1>1, FS_Interval
<1>6. F \in Surjection(S, T)
  <2> HIDE DEF F, T
  <2> QED BY <1>4, <1>5, FS_Injection
<1>7. \E i \in S : F[i] = k
  <2>1. k \in T
    OBVIOUS
  <2> HIDE DEF F, T
  <2>2. \A m \in T : \E i \in S : F[i] = m
    BY <1>6, Fun_SurjectionProperties
  <2> QED BY <2>1, <2>2
<1> QED BY <1>7

Nth(S, k) == CHOOSE i \in S : Rank(S, i) = k

LEMMA NthFacts ==
  ASSUME NEW n \in Nat, NEW S \in SUBSET (1 .. n), NEW k \in 1 .. Cardinality(S)
  PROVE  /\ Nth(S, k) \in S /\ Rank(S, Nth(S, k)) = k
         /\ \A i \in S : Rank(S, i) = k => i = Nth(S, k)
<1>1. Nth(S, k) \in S /\ Rank(S, Nth(S, k)) = k
  BY RankHasPosition DEF Nth
<1>2. ASSUME NEW i \in S, Rank(S, i) = k, i # Nth(S, k) PROVE FALSE
  <2>1. i < Nth(S, k) \/ Nth(S, k) < i
    <3>1. \A m \in S : m \in Nat
      BY Positions
    <3>2. i \in Nat /\ Nth(S, k) \in Nat
      BY <1>1, <3>1
    <3> QED BY <1>2, <3>2
  <2>2. Rank(S, i) < Rank(S, Nth(S, k)) \/ Rank(S, Nth(S, k)) < Rank(S, i)
    BY <1>1, <2>1, RankIncreases
  <2>3. k \in Int
    BY Positions
  <2> QED BY <1>1, <1>2, <2>2, <2>3
<1> QED BY <1>1, <1>2

(* Positions of a sequence and of one that follows it.                      *)
Shift(n, S) == {n + i : i \in S}

LEMMA ShiftSize ==
  ASSUME NEW n \in Nat, NEW m \in Nat, NEW S \in SUBSET (1 .. m)
  PROVE  IsFiniteSet(Shift(n, S)) /\ Cardinality(Shift(n, S)) = Cardinality(S)
<1> DEFINE F == [i \in S |-> n + i]
<1>1. IsFiniteSet(S)
  BY Positions
<1>2. F \in [S -> Shift(n, S)]
  BY DEF Shift
<1>3. \A i, j \in S : F[i] = F[j] => i = j
  OBVIOUS
<1>4. \A t \in Shift(n, S) : \E s \in S : F[s] = t
  BY DEF Shift
<1>5. F \in Bijection(S, Shift(n, S))
  <2> HIDE DEF F
  <2> QED BY <1>2, <1>3, <1>4, Fun_IsBij
<1>6. ExistsBijection(S, Shift(n, S))
  BY <1>5 DEF ExistsBijection
<1> QED BY <1>1, <1>6, FS_Bijection

LEMMA JoinedSize ==
  ASSUME NEW n \in Nat, NEW m \in Nat,
         NEW S \in SUBSET (1 .. n), NEW T \in SUBSET (1 .. m)
  PROVE  /\ IsFiniteSet(S \cup Shift(n, T))
         /\ Cardinality(S \cup Shift(n, T)) = Cardinality(S) + Cardinality(T)
         /\ Cardinality(S) \in Nat /\ Cardinality(T) \in Nat
<1>1. IsFiniteSet(S) /\ IsFiniteSet(T)
  BY Positions
<1>2. Cardinality(S) \in Nat /\ Cardinality(T) \in Nat
  BY Positions
<1>3. IsFiniteSet(Shift(n, T)) /\ Cardinality(Shift(n, T)) = Cardinality(T)
  BY ShiftSize
<1>4. S \cap Shift(n, T) = {}
  <2>1. \A i \in S : i \in Nat /\ i <= n
    BY Positions
  <2>2. \A i \in T : i \in Nat /\ 1 <= i
    BY Positions
  <2> QED BY <2>1, <2>2 DEF Shift
<1>5. Cardinality(S \cap Shift(n, T)) = 0
  BY <1>4, FS_EmptySet
<1>6. /\ IsFiniteSet(S \cup Shift(n, T))
      /\ Cardinality(S \cup Shift(n, T))
           = Cardinality(S) + Cardinality(Shift(n, T))
               - Cardinality(S \cap Shift(n, T))
  BY <1>1, <1>3, FS_Union
<1> QED BY <1>2, <1>3, <1>5, <1>6

LEMMA JoinedRank ==
  ASSUME NEW n \in Nat, NEW m \in Nat,
         NEW S \in SUBSET (1 .. n), NEW T \in SUBSET (1 .. m)
  PROVE  /\ \A i \in S : Rank(S \cup Shift(n, T), i) = Rank(S, i)
         /\ \A i \in T : Rank(S \cup Shift(n, T), n + i) = Cardinality(S) + Rank(T, i)
<1>1. ASSUME NEW i \in S PROVE Rank(S \cup Shift(n, T), i) = Rank(S, i)
  <2>1. {j \in S \cup Shift(n, T) : j <= i} = {j \in S : j <= i}
    <3>1. i \in Nat /\ i <= n
      BY Positions
    <3>2. \A j \in T : j \in Nat /\ 1 <= j
      BY Positions
    <3> QED BY <3>1, <3>2 DEF Shift
  <2> QED BY <2>1 DEF Rank
<1>2. ASSUME NEW i \in T
      PROVE  Rank(S \cup Shift(n, T), n + i) = Cardinality(S) + Rank(T, i)
  <2> DEFINE U == {j \in T : j <= i}
  <2>1. {j \in S \cup Shift(n, T) : j <= n + i} = S \cup Shift(n, U)
    <3>1. /\ \A j \in S : j \in Nat /\ j <= n
          /\ \A j \in T : j \in Nat /\ 1 <= j
      BY Positions
    <3>2. \A j \in S : j <= n + i
      BY <3>1
    <3>3. \A j \in T : n + j <= n + i <=> j <= i
      BY <3>1
    <3> QED BY <3>2, <3>3 DEF Shift
  <2>2. U \in SUBSET (1 .. m)
    OBVIOUS
  <2>3. Cardinality(S \cup Shift(n, U)) = Cardinality(S) + Cardinality(U)
    <3> HIDE DEF U
    <3>1. /\ IsFiniteSet(S \cup Shift(n, U))
          /\ Cardinality(S \cup Shift(n, U)) = Cardinality(S) + Cardinality(U)
          /\ Cardinality(S) \in Nat /\ Cardinality(U) \in Nat
      BY <2>2, JoinedSize
    <3> QED BY <3>1
  <2> QED BY <2>1, <2>3 DEF Rank
<1> QED BY <1>1, <1>2

-----------------------------------------------------------------------------
(* The frames that end in a sequence of bytes.                              *)

(* A byte on the line; one that ends a frame is its CRC.                    *)
LineByte ==
  {b \in [val : Nat, ends : Frames \cup {NoFrame}] :
     b.ends # NoFrame => b.val = b.ends.crc}

LastsOf(bytes) == {i \in 1 .. Len(bytes) : bytes[i].ends # NoFrame}

LEMMA EndsFacts ==
  ASSUME NEW s \in Seq(LineByte)
  PROVE  /\ Len(s) \in Nat /\ LastsOf(s) \in SUBSET (1 .. Len(s))
         /\ Cardinality(LastsOf(s)) \in Nat
         /\ Ends(s) \in Seq(Frames) /\ Len(Ends(s)) = Cardinality(LastsOf(s))
         /\ \A k \in 1 .. Cardinality(LastsOf(s)) :
              Ends(s)[k] = s[Nth(LastsOf(s), k)].ends
<1> DEFINE P == LastsOf(s)
<1>1. Len(s) \in Nat /\ P \in SUBSET (1 .. Len(s))
  BY DEF LastsOf
<1>2. Cardinality(P) \in Nat
  BY <1>1, Positions
<1>3. Ends(s) = [k \in 1 .. Cardinality(P) |-> s[Nth(P, k)].ends]
  BY DEF Ends, LastsOf, Nth
<1>4. \A k \in 1 .. Cardinality(P) : s[Nth(P, k)].ends \in Frames
  <2> TAKE k \in 1 .. Cardinality(P)
  <2>1. Nth(P, k) \in P
    BY <1>1, NthFacts
  <2>2. \A i \in P : s[i] \in LineByte /\ s[i].ends # NoFrame
    BY DEF LastsOf
  <2> QED BY <2>1, <2>2 DEF LineByte
<1>5. Ends(s) \in Seq(Frames) /\ Len(Ends(s)) = Cardinality(P)
  <2> HIDE DEF P
  <2> QED BY <1>2, <1>3, <1>4
<1> QED BY <1>1, <1>2, <1>3, <1>5

LEMMA JoinedSequences ==
  ASSUME NEW S, NEW a \in Seq(S), NEW b \in Seq(S), NEW c \in Seq(S),
         Len(c) = Len(a) + Len(b),
         \A k \in 1 .. Len(a) : c[k] = a[k],
         \A k \in 1 .. Len(b) : c[Len(a) + k] = b[k]
  PROVE  c = a \o b
<1>1. Len(a) \in Nat /\ Len(b) \in Nat
  OBVIOUS
<1>2. a \o b \in Seq(S) /\ Len(a \o b) = Len(c)
  OBVIOUS
<1>3. \A k \in 1 .. Len(c) : c[k] = (a \o b)[k]
  <2> TAKE k \in 1 .. Len(c)
  <2>1. CASE k <= Len(a)
    BY <1>1, <2>1
  <2>2. CASE k > Len(a)
    <3>1. k - Len(a) \in 1 .. Len(b) /\ Len(a) + (k - Len(a)) = k
      BY <1>1, <2>2
    <3>2. c[k] = b[k - Len(a)]
      BY <3>1
    <3>3. (a \o b)[k] = b[k - Len(a)]
      BY <1>1, <2>2, <3>1
    <3> QED BY <3>2, <3>3
  <2> QED BY <1>1, <2>1, <2>2
<1> QED BY <1>2, <1>3, SeqEqual

LEMMA EndsConcat ==
  ASSUME NEW s \in Seq(LineByte), NEW t \in Seq(LineByte)
  PROVE  Ends(s \o t) = Ends(s) \o Ends(t)
<1> DEFINE n == Len(s)
           m == Len(t)
           P == LastsOf(s)
           Q == LastsOf(t)
           R == LastsOf(s \o t)
<1>1. /\ n \in Nat /\ m \in Nat /\ s \o t \in Seq(LineByte) /\ Len(s \o t) = n + m
      /\ \A i \in 1 .. n : (s \o t)[i] = s[i]
      /\ \A i \in 1 .. m : (s \o t)[n + i] = t[i]
  OBVIOUS
<1>2. P \in SUBSET (1 .. n) /\ Q \in SUBSET (1 .. m)
  BY DEF LastsOf
<1>3. R = P \cup Shift(n, Q)
  <2>1. ASSUME NEW i \in R PROVE i \in P \cup Shift(n, Q)
    <3>1. i \in 1 .. n + m /\ (s \o t)[i].ends # NoFrame
      BY <1>1 DEF LastsOf
    <3>2. CASE i <= n
      BY <1>1, <3>1, <3>2 DEF LastsOf
    <3>3. CASE i > n
      <4>1. i - n \in 1 .. m /\ n + (i - n) = i
        BY <1>1, <3>1, <3>3
      <4>2. i - n \in Q
        BY <1>1, <3>1, <4>1 DEF LastsOf
      <4> QED BY <4>1, <4>2 DEF Shift
    <3> QED BY <1>1, <3>1, <3>2, <3>3
  <2>2. ASSUME NEW i \in P PROVE i \in R
    BY <1>1 DEF LastsOf
  <2>3. ASSUME NEW i \in Q PROVE n + i \in R
    BY <1>1 DEF LastsOf
  <2> QED BY <2>1, <2>2, <2>3 DEF Shift
<1> DEFINE p == Cardinality(P)
           q == Cardinality(Q)
<1> HIDE DEF P, Q, R
<1>4. Cardinality(R) = p + q /\ p \in Nat /\ q \in Nat
  <2>1. n \in Nat
    BY <1>1
  <2>2. m \in Nat
    BY <1>1
  <2>3. P \in SUBSET (1 .. n)
    BY <1>2
  <2>4. Q \in SUBSET (1 .. m)
    BY <1>2
  <2> HIDE DEF n, m
  <2>5. /\ IsFiniteSet(P \cup Shift(n, Q))
        /\ Cardinality(P \cup Shift(n, Q)) = Cardinality(P) + Cardinality(Q)
        /\ Cardinality(P) \in Nat /\ Cardinality(Q) \in Nat
    BY <2>1, <2>2, <2>3, <2>4, JoinedSize, Zenon
  <2> QED BY <1>3, <2>5, Zenon
<1>5. R \in SUBSET (1 .. n + m)
  BY <1>1 DEF LastsOf, R
<1>a. \A k \in 1 .. p + q : \A i \in R : Rank(R, i) = k => i = Nth(R, k)
  <2>1. n + m \in Nat
    BY <1>1
  <2> QED BY <1>4, <1>5, <2>1, NthFacts
<1>6. /\ \A i \in P : Rank(R, i) = Rank(P, i)
      /\ \A i \in Q : Rank(R, n + i) = p + Rank(Q, i)
  <2>1. /\ \A i \in P : Rank(P \cup Shift(n, Q), i) = Rank(P, i)
        /\ \A i \in Q : Rank(P \cup Shift(n, Q), n + i) = Cardinality(P) + Rank(Q, i)
    <3> HIDE DEF n, m
    <3> QED BY <1>1, <1>2, JoinedRank
  <2> QED BY <1>3, <2>1
<1>7. /\ Ends(s \o t) \in Seq(Frames) /\ Len(Ends(s \o t)) = p + q
      /\ Ends(s) \in Seq(Frames) /\ Len(Ends(s)) = p
      /\ Ends(t) \in Seq(Frames) /\ Len(Ends(t)) = q
  BY <1>1, <1>4, EndsFacts DEF P, Q, R
<1>8. /\ \A k \in 1 .. p + q : Ends(s \o t)[k] = (s \o t)[Nth(R, k)].ends
      /\ \A k \in 1 .. p : Ends(s)[k] = s[Nth(P, k)].ends
      /\ \A k \in 1 .. q : Ends(t)[k] = t[Nth(Q, k)].ends
  BY <1>1, <1>4, EndsFacts DEF P, Q, R
<1>9. ASSUME NEW k \in 1 .. p PROVE Ends(s \o t)[k] = Ends(s)[k]
  <2>1. Nth(P, k) \in P /\ Rank(P, Nth(P, k)) = k
    BY <1>1, <1>2, NthFacts
  <2>2. Nth(P, k) \in R /\ Rank(R, Nth(P, k)) = k
    BY <1>3, <1>6, <2>1
  <2>3. k \in 1 .. p + q
    BY <1>4
  <2>4. Nth(R, k) = Nth(P, k)
    BY <1>a, <2>2, <2>3
  <2>5. (s \o t)[Nth(P, k)] = s[Nth(P, k)]
    BY <1>1, <1>2, <2>1
  <2> QED BY <1>8, <2>3, <2>4, <2>5
<1>10. ASSUME NEW k \in 1 .. q PROVE Ends(s \o t)[p + k] = Ends(t)[k]
  <2>1. Nth(Q, k) \in Q /\ Rank(Q, Nth(Q, k)) = k
    BY <1>1, <1>2, NthFacts
  <2>2. n + Nth(Q, k) \in R /\ Rank(R, n + Nth(Q, k)) = p + k
    BY <1>3, <1>6, <2>1 DEF Shift
  <2>3. p + k \in 1 .. p + q
    BY <1>4
  <2>4. Nth(R, p + k) = n + Nth(Q, k)
    BY <1>a, <2>2, <2>3
  <2>5. (s \o t)[n + Nth(Q, k)] = t[Nth(Q, k)]
    BY <1>1, <1>2, <2>1
  <2> QED BY <1>8, <2>3, <2>4, <2>5
<1>11. /\ \A k \in 1 .. Len(Ends(s)) : Ends(s \o t)[k] = Ends(s)[k]
       /\ \A k \in 1 .. Len(Ends(t)) :
            Ends(s \o t)[Len(Ends(s)) + k] = Ends(t)[k]
  BY <1>7, <1>9, <1>10
<1>12. Len(Ends(s \o t)) = Len(Ends(s)) + Len(Ends(t))
  BY <1>7
<1> QED
  BY <1>7, <1>11, <1>12, JoinedSequences

LEMMA LineBytes ==
  /\ \A v \in Nat : Plain(v) \in LineByte
  /\ \A f \in Frames : [val |-> f.crc, ends |-> f] \in LineByte
<1> USE FrameAssumption DEF FrameType
<1>1. \A v \in Nat : Plain(v) \in LineByte
  BY DEF Plain, LineByte
<1>2. \A f \in Frames : [val |-> f.crc, ends |-> f] \in LineByte
  BY DEF LineByte
<1> QED BY <1>1, <1>2

LEMMA NoEnds ==
  ASSUME NEW s \in Seq(LineByte), \A i \in 1 .. Len(s) : s[i].ends = NoFrame
  PROVE  Ends(s) = << >>
<1>1. LastsOf(s) = {}
  BY DEF LastsOf
<1>2. Cardinality(LastsOf(s)) = 0
  BY <1>1, FS_EmptySet
<1>3. Ends(s) \in Seq(Frames) /\ Len(Ends(s)) = 0
  BY <1>2, EndsFacts
<1> QED BY <1>3

LEMMA EndsOfOne ==
  ASSUME NEW b \in LineByte
  PROVE  Ends(<< b >>) = IF b.ends = NoFrame THEN << >> ELSE << b.ends >>
<1>1. << b >> \in Seq(LineByte) /\ Len(<< b >>) = 1 /\ << b >>[1] = b
  OBVIOUS
<1>2. CASE b.ends = NoFrame
  <2>1. \A i \in 1 .. Len(<< b >>) : << b >>[i].ends = NoFrame
    BY <1>1, <1>2
  <2>2. Ends(<< b >>) = << >>
    BY <1>1, <2>1, NoEnds
  <2> QED BY <1>2, <2>2
<1>3. CASE b.ends # NoFrame
  <2>1. LastsOf(<< b >>) = {1}
    BY <1>1, <1>3 DEF LastsOf
  <2>2. Cardinality(LastsOf(<< b >>)) = 1
    BY <2>1, FS_Singleton
  <2>3. /\ Ends(<< b >>) \in Seq(Frames) /\ Len(Ends(<< b >>)) = 1
        /\ Ends(<< b >>)[1] = << b >>[Nth({1}, 1)].ends
    BY <1>1, <2>1, <2>2, EndsFacts
  <2>4. Nth({1}, 1) = 1
    <3>1. {1} \in SUBSET (1 .. 1) /\ 1 \in 1 .. Cardinality({1})
      BY <2>1, <2>2
    <3>2. Nth({1}, 1) \in {1}
      BY <3>1, NthFacts
    <3> QED BY <3>2
  <2>5. b.ends \in Frames
    BY <1>3 DEF LineByte
  <2>6. Ends(<< b >>)[1] = b.ends
    BY <1>1, <2>3, <2>4
  <2> QED BY <1>3, <2>3, <2>5, <2>6
<1> QED BY <1>2, <1>3

LEMMA EndsOfNone == Ends(<< >>) = << >>
<1> DEFINE s == << >>
<1>1. s \in Seq(LineByte) /\ \A i \in 1 .. Len(s) : s[i].ends = NoFrame
  OBVIOUS
<1> HIDE DEF s
<1>2. Ends(s) = << >>
  BY <1>1, NoEnds
<1> QED BY <1>2 DEF s

LEMMA EndsOfFrame ==
  ASSUME NEW f \in Frames
  PROVE  /\ BytesOf(f) \in Seq(LineByte) /\ Ends(BytesOf(f)) = << f >>
         /\ BytesOf(f) \in Seq(Byte)
<1> DEFINE d == [i \in 1 .. Len(f.data) |-> Plain(f.data[i])]
           s == << Plain(f.op), Plain(Len(f.data)) >> \o d
           b == [val |-> f.crc, ends |-> f]
<1>1. /\ f.op \in Nat /\ f.data \in Seq(Nat) /\ Len(f.data) \in Nat
      /\ f # NoFrame
  BY FrameAssumption DEF FrameType
<1>2. d \in Seq(LineByte)
  BY <1>1, LineBytes
<1>3. \A i \in 1 .. Len(d) : d[i].ends = NoFrame
  BY <1>1 DEF Plain
<1>4. << Plain(f.op), Plain(Len(f.data)) >> \in Seq(LineByte)
  BY <1>1, LineBytes
<1>5. s \in Seq(LineByte)
  BY <1>2, <1>4
<1>6. \A i \in 1 .. Len(s) : s[i].ends = NoFrame
  <2> HIDE DEF d
  <2>1. \A v : Plain(v).ends = NoFrame
    BY DEF Plain
  <2> QED BY <1>2, <1>3, <1>4, <2>1
<1>7. BytesOf(f) = s \o << b >> /\ b \in LineByte /\ b.ends = f
  BY LineBytes DEF BytesOf
<1> HIDE DEF s, b
<1>8. Ends(s) = << >> /\ Ends(<< b >>) = << f >>
  BY <1>1, <1>5, <1>6, <1>7, NoEnds, EndsOfOne
<1>9. BytesOf(f) \in Seq(LineByte)
  BY <1>5, <1>7
<1>10. Ends(BytesOf(f)) = << >> \o << f >>
  <2>1. << b >> \in Seq(LineByte)
    BY <1>7
  <2>2. Ends(s \o << b >>) = Ends(s) \o Ends(<< b >>)
    BY <1>5, <2>1, EndsConcat
  <2> QED BY <1>7, <1>8, <2>2
<1>11. BytesOf(f) \in Seq(Byte)
  <2>1. \A i \in 1 .. Len(BytesOf(f)) : BytesOf(f)[i] \in Byte
    BY DEF Byte
  <2> QED BY <1>9, <2>1
<1> QED BY <1>9, <1>10, <1>11

(* Only such bytes are sent.                                                *)
LEMMA BytesAreLineBytes == Byte \subseteq LineByte
<1> SUFFICES ASSUME NEW f \in Frames, NEW i \in 1 .. Len(BytesOf(f))
             PROVE  BytesOf(f)[i] \in LineByte
  BY DEF Byte
<1> QED BY EndsOfFrame

LEMMA OneLess ==
  ASSUME NEW S, NEW a \in Seq(S), NEW e \in S, NEW c \in Seq(S)
  PROVE  /\ a \o << e >> \o c \in Seq(S)
         /\ Len(a) + 1 \in 1 .. Len(a \o << e >> \o c)
         /\ Link!RemoveAt(a \o << e >> \o c, Len(a) + 1) = a \o c
<1> DEFINE s == a \o << e >> \o c
           n == Len(a)
           m == Len(c)
<1>1. n \in Nat /\ m \in Nat /\ s \in Seq(S) /\ Len(s) = n + 1 + m
  OBVIOUS
<1>2. /\ \A i \in 1 .. n : s[i] = a[i]
      /\ \A i \in 1 .. m : s[n + 1 + i] = c[i]
  OBVIOUS
<1> HIDE DEF s
<1>3. SubSeq(s, 1, n) = a
  <2>1. \A i \in 1 .. n : s[i] \in S
    BY <1>1
  <2>2. /\ SubSeq(s, 1, n) \in Seq(S) /\ Len(SubSeq(s, 1, n)) = n
        /\ \A i \in 1 .. n : SubSeq(s, 1, n)[i] = a[i]
    BY <1>1, <1>2, <2>1
  <2> QED BY <2>2, SeqEqual
<1>4. SubSeq(s, n + 2, n + 1 + m) = c
  <2> DEFINE t == SubSeq(s, n + 2, n + 1 + m)
  <2>1. t \in Seq(S) /\ Len(t) = m /\ \A i \in 1 .. m : t[i] = s[n + 1 + i]
    <3>1. \A i \in n + 2 .. n + 1 + m : s[i] \in S
      BY <1>1
    <3> QED BY <1>1, <3>1
  <2>2. \A i \in 1 .. Len(t) : t[i] = c[i]
    BY <1>2, <2>1
  <2> HIDE DEF t
  <2>3. t = c
    BY <2>1, <2>2, SeqEqual
  <2> QED BY <2>3 DEF t
<1>5. Link!RemoveAt(s, n + 1) = SubSeq(s, 1, n) \o SubSeq(s, n + 2, n + 1 + m)
  <2>1. (n + 1) - 1 = n /\ (n + 1) + 1 = n + 2
    BY <1>1
  <2> QED BY <1>1, <2>1 DEF Link!RemoveAt
<1>6. n + 1 \in 1 .. Len(s)
  BY <1>1
<1>7. Link!RemoveAt(s, n + 1) = a \o c
  BY <1>3, <1>4, <1>5
<1> QED BY <1>1, <1>6, <1>7 DEF s

-----------------------------------------------------------------------------
(* The slots of the FIFO.                                                   *)
Slot(a, k) == (a + k) % FifoSize

LEMMA Slots ==
  ASSUME NEW a \in 0 .. FifoSize - 1, NEW k \in 0 .. FifoSize
  PROVE  Slot(a, k) = IF a + k < FifoSize THEN a + k ELSE a + k - FifoSize
<1>1. FifoSize \in Nat /\ FifoSize > 0
  BY FifoAssumption
<1>2. CASE a + k < FifoSize
  BY <1>1, <1>2 DEF Slot
<1>3. CASE a + k >= FifoSize
  <2>1. a + k - FifoSize \in 0 .. FifoSize - 1
    BY <1>1, <1>3
  <2> DEFINE r == a + k - FifoSize
  <2>2. r \in 0 .. FifoSize - 1 /\ a + k = r + FifoSize
    BY <1>1, <2>1
  <2> HIDE DEF r
  <2>3. (r + FifoSize) % FifoSize = r
    BY <1>1, <2>2
  <2> QED BY <1>1, <1>3, <2>2, <2>3 DEF Slot, r
<1> QED BY <1>1, <1>2, <1>3

LEMMA SlotSteps ==
  ASSUME NEW a \in 0 .. FifoSize - 1, NEW k \in 0 .. FifoSize - 1
  PROVE  /\ Slot(a, 0) = a
         /\ Slot(a, k) \in 0 .. FifoSize - 1
         /\ Slot(Slot(a, k), 1) = Slot(a, k + 1)
         /\ Slot(Slot(a, 1), k) = Slot(a, k + 1)
         /\ \A j \in 0 .. FifoSize - 1 : Slot(a, j) = Slot(a, k) => j = k
<1>1. FifoSize \in Nat /\ FifoSize > 0
  BY FifoAssumption
<1>2. \A b \in 0 .. FifoSize - 1 : \A j \in 0 .. FifoSize :
        Slot(b, j) = IF b + j < FifoSize THEN b + j ELSE b + j - FifoSize
  BY Slots
<1>3. 0 \in 0 .. FifoSize /\ 1 \in 0 .. FifoSize /\ k + 1 \in 0 .. FifoSize
      /\ k \in 0 .. FifoSize
  BY <1>1
<1>4. /\ Slot(a, 0) = a
      /\ Slot(a, k) = IF a + k < FifoSize THEN a + k ELSE a + k - FifoSize
      /\ Slot(a, 1) = IF a + 1 < FifoSize THEN a + 1 ELSE a + 1 - FifoSize
      /\ Slot(a, k + 1)
           = IF a + k + 1 < FifoSize THEN a + k + 1 ELSE a + k + 1 - FifoSize
  BY <1>1, <1>2, <1>3
<1>5. Slot(a, k) \in 0 .. FifoSize - 1 /\ Slot(a, 1) \in 0 .. FifoSize - 1
  BY <1>1, <1>4
<1>6. /\ Slot(Slot(a, k), 1) = IF Slot(a, k) + 1 < FifoSize
                               THEN Slot(a, k) + 1 ELSE Slot(a, k) + 1 - FifoSize
      /\ Slot(Slot(a, 1), k) = IF Slot(a, 1) + k < FifoSize
                               THEN Slot(a, 1) + k ELSE Slot(a, 1) + k - FifoSize
  BY <1>2, <1>3, <1>5
<1>7. /\ Slot(Slot(a, k), 1) = Slot(a, k + 1)
      /\ Slot(Slot(a, 1), k) = Slot(a, k + 1)
  BY <1>1, <1>4, <1>5, <1>6
<1>8. ASSUME NEW j \in 0 .. FifoSize - 1, Slot(a, j) = Slot(a, k) PROVE j = k
  <2>1. j \in 0 .. FifoSize
    BY <1>1
  <2>2. Slot(a, j) = IF a + j < FifoSize THEN a + j ELSE a + j - FifoSize
    BY <1>2, <2>1
  <2> QED BY <1>1, <1>4, <1>8, <2>2
<1> QED BY <1>4, <1>5, <1>7, <1>8

LEMMA SlotIndex ==
  ASSUME NEW t \in Int, NEW n
  PROVE  \A i \in 1 .. n : (t + i - 1) % FifoSize = Slot(t, i - 1)
<1> TAKE i \in 1 .. n
<1>1. t + i - 1 = t + (i - 1)
  OBVIOUS
<1> QED BY <1>1 DEF Slot

(* n bytes of the buffer b, from slot t on.                                 *)
Ring(b, t, n) == [i \in 1 .. n |-> b[Slot(t, i - 1)]]

LEMMA RingFacts ==
  ASSUME NEW b \in [0 .. FifoSize - 1 -> LineByte],
         NEW t \in 0 .. FifoSize - 1, NEW n \in 0 .. FifoSize
  PROVE  /\ Ring(b, t, n) \in Seq(LineByte) /\ Len(Ring(b, t, n)) = n
         /\ \A i \in 1 .. n : Ring(b, t, n)[i] = b[Slot(t, i - 1)]
<1>1. FifoSize \in Nat
  BY FifoAssumption
<1>2. \A i \in 1 .. n : b[Slot(t, i - 1)] \in LineByte
  <2> TAKE i \in 1 .. n
  <2>1. i - 1 \in 0 .. FifoSize - 1
    BY <1>1
  <2>2. Slot(t, i - 1) \in 0 .. FifoSize - 1
    BY <2>1, SlotSteps
  <2> QED BY <2>2
<1> QED BY <1>1, <1>2 DEF Ring

LEMMA RingWrite ==
  ASSUME NEW b \in [0 .. FifoSize - 1 -> LineByte],
         NEW t \in 0 .. FifoSize - 1, NEW n \in 0 .. FifoSize - 1,
         NEW x \in LineByte
  PROVE  Ring([b EXCEPT ![Slot(t, n)] = x], t, n + 1) = Append(Ring(b, t, n), x)
<1> DEFINE c == [b EXCEPT ![Slot(t, n)] = x]
           p == Ring(b, t, n)
           q == Ring(c, t, n + 1)
<1>1. FifoSize \in Nat /\ n \in 0 .. FifoSize /\ n + 1 \in 0 .. FifoSize
  BY FifoAssumption
<1>2. Slot(t, n) \in 0 .. FifoSize - 1
  BY SlotSteps
<1>3. c \in [0 .. FifoSize - 1 -> LineByte] /\ c[Slot(t, n)] = x
  BY <1>2
<1>4. \A i \in 1 .. n : c[Slot(t, i - 1)] = b[Slot(t, i - 1)]
  <2> TAKE i \in 1 .. n
  <2>1. i - 1 \in 0 .. FifoSize - 1 /\ i - 1 # n
    BY <1>1
  <2>2. Slot(t, i - 1) \in 0 .. FifoSize - 1 /\ Slot(t, i - 1) # Slot(t, n)
    BY <2>1, SlotSteps
  <2> QED BY <2>2
<1> HIDE DEF c, p, q
<1>5. /\ p \in Seq(LineByte) /\ Len(p) = n
      /\ \A i \in 1 .. n : p[i] = b[Slot(t, i - 1)]
  BY <1>1, RingFacts DEF p
<1>6. /\ q \in Seq(LineByte) /\ Len(q) = n + 1
      /\ \A i \in 1 .. n + 1 : q[i] = c[Slot(t, i - 1)]
  BY <1>1, <1>3, RingFacts DEF q
<1>7. \A i \in 1 .. n : q[i] = p[i]
  <2> TAKE i \in 1 .. n
  <2>1. i \in 1 .. n + 1
    BY <1>1
  <2> QED BY <1>4, <1>5, <1>6, <2>1
<1>8. q[n + 1] = x
  <2>1. n + 1 \in 1 .. n + 1 /\ (n + 1) - 1 = n
    BY <1>1
  <2>2. q[n + 1] = c[Slot(t, (n + 1) - 1)]
    BY <1>6, <2>1
  <2> QED BY <1>3, <2>1, <2>2
<1>9. /\ Append(p, x) \in Seq(LineByte) /\ Len(Append(p, x)) = Len(q)
      /\ \A i \in 1 .. Len(q) : Append(p, x)[i] = q[i]
  BY <1>1, <1>5, <1>6, <1>7, <1>8
<1>10. q = Append(p, x)
  BY <1>6, <1>9, SeqEqual
<1> QED BY <1>10 DEF p, q, c

LEMMA RingRead ==
  ASSUME NEW b \in [0 .. FifoSize - 1 -> LineByte],
         NEW t \in 0 .. FifoSize - 1, NEW n \in 1 .. FifoSize,
         NEW x \in LineByte
  PROVE  Ring(b, t, n) = << b[t] >> \o Ring([b EXCEPT ![t] = x], Slot(t, 1), n - 1)
<1> DEFINE c == [b EXCEPT ![t] = x]
           p == Ring(b, t, n)
           q == Ring(c, Slot(t, 1), n - 1)
<1>1. FifoSize \in Nat /\ n \in 0 .. FifoSize /\ n - 1 \in 0 .. FifoSize
      /\ 0 \in 0 .. FifoSize - 1
  BY FifoAssumption
<1>2. Slot(t, 0) = t
  BY <1>1, SlotSteps
<1>3. Slot(t, 1) \in 0 .. FifoSize - 1
  <2>1. Slot(Slot(t, 0), 1) = Slot(t, 0 + 1)
    BY <1>1, SlotSteps
  <2>2. Slot(t, 1) = IF t + 1 < FifoSize THEN t + 1 ELSE t + 1 - FifoSize
    <3>1. 1 \in 0 .. FifoSize
      BY <1>1
    <3> QED BY <3>1, Slots
  <2> QED BY <1>1, <2>2
<1>4. c \in [0 .. FifoSize - 1 -> LineByte]
  OBVIOUS
<1>5. \A i \in 1 .. n - 1 : c[Slot(Slot(t, 1), i - 1)] = b[Slot(t, i)]
  <2> TAKE i \in 1 .. n - 1
  <2>1. i \in 0 .. FifoSize - 1 /\ i - 1 \in 0 .. FifoSize - 1 /\ i # 0
        /\ (i - 1) + 1 = i
    BY <1>1
  <2>2. Slot(Slot(t, 1), i - 1) = Slot(t, (i - 1) + 1)
    BY <2>1, SlotSteps
  <2>3. /\ Slot(t, i) \in 0 .. FifoSize - 1
        /\ \A j \in 0 .. FifoSize - 1 : Slot(t, j) = Slot(t, i) => j = i
    BY <2>1, SlotSteps
  <2>4. Slot(t, i) # Slot(t, 0)
    BY <1>1, <2>1, <2>3
  <2> QED BY <1>2, <2>1, <2>2, <2>3, <2>4
<1>6. b[t] \in LineByte
  OBVIOUS
<1> HIDE DEF c, p, q
<1>7. /\ p \in Seq(LineByte) /\ Len(p) = n
      /\ \A i \in 1 .. n : p[i] = b[Slot(t, i - 1)]
  BY <1>1, RingFacts DEF p
<1>8. /\ q \in Seq(LineByte) /\ Len(q) = n - 1
      /\ \A i \in 1 .. n - 1 : q[i] = c[Slot(Slot(t, 1), i - 1)]
  BY <1>1, <1>3, <1>4, RingFacts DEF q
<1>9. p[1] = b[t]
  BY <1>1, <1>2, <1>7
<1>10. \A k \in 1 .. n - 1 : p[1 + k] = q[k]
  <2> TAKE k \in 1 .. n - 1
  <2>1. 1 + k \in 1 .. n /\ (1 + k) - 1 = k
    BY <1>1
  <2>2. p[1 + k] = b[Slot(t, (1 + k) - 1)]
    BY <1>7, <2>1
  <2> QED BY <1>5, <1>8, <2>1, <2>2
<1>11. p = << b[t] >> \o q
  <2> DEFINE a == << b[t] >>
  <2>1. a \in Seq(LineByte) /\ Len(a) = 1 /\ a[1] = b[t]
    BY <1>6
  <2> HIDE DEF a
  <2>2. /\ Len(p) = Len(a) + Len(q)
        /\ \A k \in 1 .. Len(a) : p[k] = a[k]
        /\ \A k \in 1 .. Len(q) : p[Len(a) + k] = q[k]
    BY <1>1, <1>7, <1>8, <1>9, <1>10, <2>1
  <2>3. p = a \o q
    BY <1>7, <1>8, <2>1, <2>2, JoinedSequences
  <2> QED BY <2>3 DEF a
<1> QED BY <1>11 DEF p, q, c

-----------------------------------------------------------------------------
(* The FIFO, whatever the moment of the interrupt.                          *)
SerialTypes ==
  /\ head \in 0 .. FifoSize - 1 /\ tail \in 0 .. FifoSize - 1
  /\ used \in 0 .. FifoSize
  /\ buf \in [0 .. FifoSize - 1 -> LineByte]
  /\ wire \in Seq(Byte) /\ ch \in LineByte

(* While the task takes a byte the flag is set, and the count it will store is
   the one that it read. *)
TaskHoldsFifo == pc = "store" => mutex /\ loaded = used /\ used >= 1

SerialInv == SerialTypes /\ TaskHoldsFifo /\ head = Slot(tail, Occupied)

LEMMA OccupiedRange ==
  ASSUME SerialTypes, TaskHoldsFifo
  PROVE  Occupied \in 0 .. FifoSize
BY FifoAssumption DEF SerialTypes, TaskHoldsFifo, Occupied

LEMMA ContentsIsRing ==
  ASSUME SerialTypes
  PROVE  Contents = Ring(buf, tail, Occupied)
<1>1. tail \in Int
  BY FifoAssumption DEF SerialTypes
<1>2. \A i \in 1 .. Occupied : (tail + i - 1) % FifoSize = Slot(tail, i - 1)
  BY <1>1, SlotIndex
<1> QED BY <1>2 DEF Contents, Ring

LEMMA SerialInitially == SerialInit => SerialInv
<1> SUFFICES ASSUME SerialInit PROVE SerialInv
  OBVIOUS
<1> USE DEF SerialInit
<1>1. FifoSize \in Nat /\ FifoSize > 0
  BY FifoAssumption
<1>2. NoByte \in LineByte
  BY LineBytes DEF NoByte
<1>3. SerialTypes
  BY <1>1, <1>2 DEF SerialTypes
<1>4. TaskHoldsFifo
  BY DEF TaskHoldsFifo
<1>5. Slot(0, 0) = 0
  BY <1>1, SlotSteps
<1>6. head = Slot(tail, Occupied)
  BY <1>5 DEF Occupied
<1> QED BY <1>3, <1>4, <1>6 DEF SerialInv

(* The interrupt adds a byte to what the FIFO holds.                        *)
LEMMA WriteAppends ==
  ASSUME SerialInv, NEW b \in LineByte, MayWrite, Write(b),
         UNCHANGED << pc, loaded >>
  PROVE  /\ Contents' = Append(Contents, b) /\ Len(Contents) < FifoSize
         /\ head' = Slot(tail', Occupied')
         /\ head' \in 0 .. FifoSize - 1 /\ used' \in 0 .. FifoSize
         /\ buf' \in [0 .. FifoSize - 1 -> LineByte]
         /\ tail' = tail /\ pc # "store"
<1> USE DEF SerialInv, SerialTypes, TaskHoldsFifo
<1>1. FifoSize \in Nat /\ FifoSize > 0
  BY FifoAssumption
<1>2. pc # "store" /\ used \in 0 .. FifoSize - 1
  BY <1>1 DEF MayWrite
<1>3. Occupied = used /\ Occupied' = used + 1 /\ tail' = tail
  BY <1>2 DEF Occupied, Write
<1>4. head' = Slot(tail, used + 1) /\ head' \in 0 .. FifoSize - 1
  <2>1. head' = Slot(head, 1)
    BY DEF Write, NextSlot, Slot
  <2>2. Slot(head, 1) = Slot(tail, used + 1)
    BY <1>2, <1>3, SlotSteps
  <2>3. Slot(head, 1) \in 0 .. FifoSize - 1
    <3>1. 1 \in 0 .. FifoSize
      BY <1>1
    <3>2. Slot(head, 1)
            = IF head + 1 < FifoSize THEN head + 1 ELSE head + 1 - FifoSize
      BY <3>1, Slots
    <3> QED BY <1>1, <3>2
  <2> QED BY <2>1, <2>2, <2>3
<1>5. buf' = [buf EXCEPT ![Slot(tail, used)] = b]
  BY <1>3 DEF Write
<1>6. Contents = Ring(buf, tail, used) /\ Contents' = Ring(buf', tail, used + 1)
  <2>1. Contents = Ring(buf, tail, Occupied)
    BY ContentsIsRing
  <2>2. Contents' = Ring(buf', tail', Occupied')
    <3>1. tail' \in Int
      BY <1>1, <1>3
    <3>2. \A i \in 1 .. Occupied' :
            (tail' + i - 1) % FifoSize = Slot(tail', i - 1)
      BY <3>1, SlotIndex
    <3> QED BY <3>2 DEF Contents, Ring
  <2> QED BY <1>3, <2>1, <2>2
<1>7. Contents' = Append(Contents, b)
  BY <1>2, <1>5, <1>6, RingWrite
<1>8. Len(Contents) = used
  BY <1>1, <1>2, <1>6, RingFacts
<1>9. buf' \in [0 .. FifoSize - 1 -> LineByte]
  BY DEF Write
<1>10. used' \in 0 .. FifoSize
  BY <1>1, <1>2 DEF Write
<1> QED BY <1>1, <1>2, <1>3, <1>4, <1>7, <1>8, <1>9, <1>10

(* The task takes the oldest one.                                           *)
LEMMA TakeRemoves ==
  ASSUME SerialInv, Take
  PROVE  /\ Contents = << ch' >> \o Contents' /\ ch' \in LineByte
         /\ head' = Slot(tail', Occupied')
         /\ tail' \in 0 .. FifoSize - 1
         /\ buf' \in [0 .. FifoSize - 1 -> LineByte]
         /\ Contents' \in Seq(LineByte)
<1> USE DEF SerialInv, SerialTypes, TaskHoldsFifo
<1>1. FifoSize \in Nat /\ FifoSize > 0
  BY FifoAssumption
<1>2. pc = "read" /\ used \in 2 .. FifoSize /\ pc' = "store" /\ used' = used
  BY <1>1 DEF Take
<1>3. Occupied = used /\ Occupied' = used - 1
  BY <1>2 DEF Occupied
<1>4. tail' = Slot(tail, 1) /\ tail' \in 0 .. FifoSize - 1
  <2>1. tail' = Slot(tail, 1)
    BY DEF Take, NextSlot, Slot
  <2>2. 1 \in 0 .. FifoSize
    BY <1>1
  <2>3. Slot(tail, 1)
          = IF tail + 1 < FifoSize THEN tail + 1 ELSE tail + 1 - FifoSize
    BY <2>2, Slots
  <2> QED BY <1>1, <2>1, <2>3
<1>5. head' = Slot(tail', used - 1)
  <2>1. used - 1 \in 0 .. FifoSize - 1 /\ (used - 1) + 1 = used
    BY <1>1, <1>2
  <2>2. Slot(Slot(tail, 1), used - 1) = Slot(tail, (used - 1) + 1)
    BY <2>1, SlotSteps
  <2> QED BY <1>3, <1>4, <2>1, <2>2 DEF Take
<1>6. NoByte \in LineByte
  BY LineBytes DEF NoByte
<1>7. buf' = [buf EXCEPT ![tail] = NoByte] /\ ch' = buf[tail]
  BY DEF Take
<1>8. ch' \in LineByte /\ buf' \in [0 .. FifoSize - 1 -> LineByte]
  BY <1>6, <1>7
<1>9. Contents = Ring(buf, tail, used)
  BY <1>3, ContentsIsRing
<1>10. Contents' = Ring(buf', tail', used - 1)
  <2>1. tail' \in Int
    BY <1>1, <1>4
  <2>2. \A i \in 1 .. used - 1 :
          (tail' + i - 1) % FifoSize = Slot(tail', i - 1)
    BY <2>1, SlotIndex
  <2> QED BY <1>3, <2>2 DEF Contents, Ring
<1>11. Contents = << ch' >> \o Contents'
  <2>1. used \in 1 .. FifoSize
    BY <1>1, <1>2
  <2>2. Ring(buf, tail, used)
          = << buf[tail] >>
              \o Ring([buf EXCEPT ![tail] = NoByte], Slot(tail, 1), used - 1)
    <3>1. buf \in [0 .. FifoSize - 1 -> LineByte] /\ tail \in 0 .. FifoSize - 1
      OBVIOUS
    <3> QED BY <1>6, <2>1, <3>1, RingRead, ZenonT(40)
  <2> QED BY <1>4, <1>7, <1>9, <1>10, <2>2
<1>12. Contents' \in Seq(LineByte)
  <2>1. used - 1 \in 0 .. FifoSize
    BY <1>1, <1>2
  <2> QED BY <1>4, <1>8, <1>10, <2>1, RingFacts
<1> QED BY <1>3, <1>4, <1>5, <1>8, <1>11, <1>12

(* Nothing else touches it.                                                 *)
LEMMA ContentsStay ==
  ASSUME UNCHANGED << buf, tail, used >>, pc # "store", pc' # "store"
  PROVE  Contents' = Contents /\ Occupied' = Occupied
BY DEF Contents, Occupied

LEMMA ParseStores ==
  ASSUME SerialInv, Parse
  PROVE  Contents' = Contents /\ Occupied' = Occupied /\ used' \in 0 .. FifoSize
<1>1. FifoSize \in Nat /\ used \in 0 .. FifoSize
  BY FifoAssumption DEF SerialInv, SerialTypes
<1>2. pc = "store" /\ pc' = "read" /\ used' = used - 1 /\ used >= 1
      /\ UNCHANGED << buf, tail >>
  BY DEF SerialInv, TaskHoldsFifo, Parse
<1>3. Occupied' = Occupied
  BY <1>2 DEF Occupied
<1> QED BY <1>1, <1>2, <1>3 DEF Contents

LEMMA WireSteps ==
  ASSUME NEW w \in Seq(Byte), w # << >>
  PROVE  /\ Head(w) \in Byte /\ Tail(w) \in Seq(Byte)
         /\ w = << Head(w) >> \o Tail(w)
OBVIOUS

LEMMA SerialInductive == SerialInv /\ [SerialNext]_serialVars => SerialInv'
<1> SUFFICES ASSUME SerialInv, [SerialNext]_serialVars PROVE SerialInv'
  OBVIOUS
<1> USE DEF SerialInv, SerialTypes, TaskHoldsFifo
<1>1. ASSUME NEW f \in Frames, Send(f) PROVE SerialInv'
  <2>1. wire' \in Seq(Byte)
    BY <1>1, EndsOfFrame DEF Send
  <2>2. UNCHANGED << fifo, reader >>
    BY <1>1 DEF Send
  <2> QED BY <2>1, <2>2 DEF fifo, reader, Occupied
<1>2. CASE Receive
  <2>1. /\ wire # << >> /\ wire' = Tail(wire) /\ wire' \in Seq(Byte)
        /\ Head(wire) \in Byte
    BY <1>2, WireSteps DEF Receive
  <2>2. UNCHANGED << pc, ch, loaded >>
    BY <1>2 DEF Receive, reader
  <2>3. CASE MayWrite
    <3>1. Write(Head(wire))
      BY <1>2, <2>3 DEF Receive
    <3>2. Head(wire) \in LineByte
      BY <2>1, BytesAreLineBytes
    <3>3. /\ head' = Slot(tail', Occupied')
          /\ head' \in 0 .. FifoSize - 1 /\ used' \in 0 .. FifoSize
          /\ buf' \in [0 .. FifoSize - 1 -> LineByte]
          /\ tail' = tail /\ pc # "store"
      BY <2>2, <2>3, <3>1, <3>2, WriteAppends
    <3> QED BY <2>1, <2>2, <3>3
  <2>4. CASE ~ MayWrite
    <3>1. UNCHANGED fifo
      BY <1>2, <2>4 DEF Receive
    <3> QED BY <2>1, <2>2, <3>1 DEF fifo, Occupied
  <2> QED BY <2>3, <2>4
<1>3. CASE Overrun
  <2>1. UNCHANGED << fifo, reader >>
    BY <1>3 DEF Overrun
  <2>2. wire' \in Seq(Byte)
    <3>1. CASE wire # << >> /\ wire' = Tail(wire)
      BY <3>1
    <3>2. CASE Len(wire) > 1 /\ wire' = << Head(wire) >> \o Tail(Tail(wire))
      <4>1. wire # << >> /\ Tail(wire) # << >>
        <5>1. wire # << >>
          BY <3>2
        <5>2. Len(Tail(wire)) = Len(wire) - 1 /\ Len(wire) \in Nat
          BY <5>1
        <5>3. Len(Tail(wire)) # 0
          BY <3>2, <5>2
        <5>4. ASSUME Tail(wire) = << >> PROVE FALSE
          <6>1. Len(Tail(wire)) = Len(<< >>)
            BY <5>4
          <6> QED BY <5>3, <6>1, EmptySeq
        <5> QED BY <5>1, <5>4
      <4>2. Head(wire) \in Byte /\ Tail(Tail(wire)) \in Seq(Byte)
        BY <4>1, WireSteps
      <4> QED BY <3>2, <4>2
    <3> QED BY <1>3, <3>1, <3>2 DEF Overrun
  <2> QED BY <2>1, <2>2 DEF fifo, reader, Occupied
<1>4. CASE Wake
  BY <1>4 DEF Wake, fifo, Occupied
<1>5. CASE Transmitted \/ Requested
  BY <1>5 DEF Transmitted, Requested, fifo, Occupied
<1>6. CASE Finish
  BY <1>6 DEF Finish, fifo, Occupied
<1>7. CASE Take
  <2>1. /\ ch' \in LineByte /\ head' = Slot(tail', Occupied')
        /\ tail' \in 0 .. FifoSize - 1
        /\ buf' \in [0 .. FifoSize - 1 -> LineByte]
    BY <1>7, TakeRemoves
  <2>2. /\ UNCHANGED << wire, head, used >>
        /\ mutex' = TRUE /\ loaded' = used /\ used > 1
    BY <1>7 DEF Take
  <2>3. used' >= 1
    BY <2>2, FifoAssumption
  <2> QED BY <2>1, <2>2, <2>3
<1>8. CASE Parse
  <2>1. Occupied' = Occupied /\ used' \in 0 .. FifoSize
    BY <1>8, ParseStores
  <2>2. NoByte \in LineByte
    BY LineBytes DEF NoByte
  <2>3. /\ UNCHANGED << wire, buf, head, tail >> /\ ch' = NoByte /\ pc' = "read"
    BY <1>8 DEF Parse
  <2> QED BY <2>1, <2>2, <2>3
<1>9. CASE UNCHANGED serialVars
  BY <1>9 DEF serialVars, fifo, reader, Occupied
<1> QED
  BY <1>1, <1>2, <1>3, <1>4, <1>5, <1>6, <1>7, <1>8, <1>9 DEF SerialNext, Task

(* The bookkeeping of the FIFO is right whatever the moment of the interrupt:
   the count, less the byte being taken, is the distance of its two ends. *)
THEOREM FifoCounts == SerialSpec => []SerialInv
<1>1. SerialInit => SerialInv
  BY SerialInitially
<1>2. SerialInv /\ [SerialNext]_serialVars => SerialInv'
  BY SerialInductive
<1> QED BY <1>1, <1>2, PTL DEF SerialSpec

LEMMA QueueStep == SerialInv /\ [SerialNext]_serialVars => [Queue!Next]_Contents
<1> SUFFICES ASSUME SerialInv, [SerialNext]_serialVars
             PROVE  [Queue!Next]_Contents
  OBVIOUS
<1>1. ASSUME NEW f \in Frames, Send(f) PROVE Contents' = Contents
  BY <1>1 DEF Send, fifo, reader, Contents, Occupied
<1>2. CASE Receive
  <2>1. wire # << >> /\ Head(wire) \in Byte
    BY <1>2, WireSteps DEF Receive, SerialInv, SerialTypes
  <2>2. UNCHANGED << pc, loaded >>
    BY <1>2 DEF Receive, reader
  <2>3. CASE MayWrite
    <3>1. Write(Head(wire))
      BY <1>2, <2>3 DEF Receive
    <3>2. Head(wire) \in LineByte
      BY <2>1, BytesAreLineBytes
    <3>3. Contents' = Append(Contents, Head(wire)) /\ Len(Contents) < FifoSize
      BY <2>2, <2>3, <3>1, <3>2, WriteAppends
    <3> QED BY <2>1, <3>3 DEF Queue!Next, Queue!Put
  <2>4. CASE ~ MayWrite
    BY <1>2, <2>2, <2>4 DEF Receive, fifo, Contents, Occupied
  <2> QED BY <2>3, <2>4
<1>3. CASE Overrun
  BY <1>3 DEF Overrun, fifo, reader, Contents, Occupied
<1>4. CASE Wake \/ Transmitted \/ Finish \/ Requested
  BY <1>4 DEF Wake, Transmitted, Finish, Requested, fifo, Contents, Occupied
<1>5. CASE Take
  <2>1. Contents = << ch' >> \o Contents' /\ Contents' \in Seq(LineByte)
        /\ ch' \in LineByte
    BY <1>5, TakeRemoves
  <2>2. Contents # << >> /\ Contents' = Tail(Contents)
    BY <2>1
  <2> QED BY <2>2 DEF Queue!Next, Queue!Get
<1>6. CASE Parse
  BY <1>6, ParseStores
<1>7. CASE UNCHANGED serialVars
  BY <1>7 DEF serialVars, fifo, reader, Contents, Occupied
<1> QED
  BY <1>1, <1>2, <1>3, <1>4, <1>5, <1>6, <1>7 DEF SerialNext, Task

(* The FIFO of the receive interrupt and of the telemetry task is a bounded
   queue, whatever the order of their steps. *)
THEOREM FifoServes == SerialSpec => FifoIsQueue
<1>1. SerialInit => Queue!Init
  <2>1. SerialInit => Occupied = 0
    BY DEF SerialInit, Occupied
  <2> QED BY <2>1 DEF Queue!Init, Contents
<1>2. SerialInv /\ [SerialNext]_serialVars => [Queue!Next]_Contents
  BY QueueStep
<1> QED BY <1>1, <1>2, FifoCounts, PTL DEF SerialSpec, FifoIsQueue, Queue!Spec

-----------------------------------------------------------------------------
(* The frames that are on their way.                                        *)
Underway == Ends(InHand) \o Ends(Contents) \o Ends(wire)

LEMMA UnderwayTypes ==
  ASSUME SerialInv
  PROVE  /\ InHand \in Seq(LineByte) /\ Contents \in Seq(LineByte)
         /\ wire \in Seq(LineByte)
         /\ Ends(InHand) \in Seq(Frames) /\ Ends(Contents) \in Seq(Frames)
         /\ Ends(wire) \in Seq(Frames)
<1>1. InHand \in Seq(LineByte)
  BY DEF InHand, SerialInv, SerialTypes
<1>2. Contents \in Seq(LineByte)
  BY OccupiedRange, ContentsIsRing, RingFacts DEF SerialInv, SerialTypes
<1>3. wire \in Seq(LineByte)
  BY BytesAreLineBytes, SeqMonotonic DEF SerialInv, SerialTypes
<1> QED BY <1>1, <1>2, <1>3, EndsFacts

(* (Concatenation under a name, which the provers then leave alone.)        *)
Cat(s, t) == s \o t

LEMMA CatType ==
  ASSUME NEW S, NEW a \in Seq(S), NEW b \in Seq(S)
  PROVE  Cat(a, b) \in Seq(S)
BY DEF Cat

LEMMA CatAssociative ==
  ASSUME NEW S, NEW a \in Seq(S), NEW b \in Seq(S), NEW c \in Seq(S)
  PROVE  Cat(a, Cat(b, c)) = Cat(Cat(a, b), c)
<1>1. a \o (b \o c) = a \o b \o c
  BY ConcatAssociative, SMTT(30)
<1> QED BY <1>1 DEF Cat

LEMMA FourJoined ==
  ASSUME NEW S, NEW a \in Seq(S), NEW b \in Seq(S), NEW c \in Seq(S),
         NEW d \in Seq(S)
  PROVE  /\ Cat(a, b) \in Seq(S)
         /\ Cat(Cat(a, b), Cat(c, d)) = Cat(Cat(Cat(a, b), c), d)
         /\ Cat(Cat(a, Cat(b, c)), d) = Cat(Cat(Cat(a, b), c), d)
<1>1. Cat(a, b) \in Seq(S)
  BY CatType
<1>2. Cat(Cat(a, b), Cat(c, d)) = Cat(Cat(Cat(a, b), c), d)
  BY <1>1, CatAssociative
<1>3. Cat(a, Cat(b, c)) = Cat(Cat(a, b), c)
  BY CatAssociative
<1> QED BY <1>1, <1>2, <1>3

(* A byte that is lost loses its frame, or none.                            *)
LEMMA LinkLoses ==
  ASSUME NEW a \in Seq(Frames), NEW c \in Seq(Frames), NEW b \in LineByte,
         Underway = Cat(Cat(a, Ends(<< b >>)), c), Underway' = Cat(a, c),
         UNCHANGED given
  PROVE  [Link!Next]_<< Underway, given >>
<1>1. CASE b.ends = NoFrame
  <2>1. Ends(<< b >>) = << >>
    BY <1>1, EndsOfOne
  <2>2. Cat(a, << >>) = a
    BY DEF Cat
  <2> QED BY <2>1, <2>2
<1>2. CASE b.ends # NoFrame
  <2>1. Ends(<< b >>) = << b.ends >> /\ b.ends \in Frames
    BY <1>2, EndsOfOne DEF LineByte
  <2>2. Underway = a \o << b.ends >> \o c /\ Underway' = a \o c
    BY <2>1 DEF Cat
  <2>3. /\ Len(a) + 1 \in 1 .. Len(a \o << b.ends >> \o c)
        /\ Link!RemoveAt(a \o << b.ends >> \o c, Len(a) + 1) = a \o c
    <3>1. b.ends \in Frames
      BY <2>1
    <3> QED BY <3>1, OneLess, ZenonT(40)
  <2>4. /\ Len(a) + 1 \in 1 .. Len(Underway)
        /\ Underway' = Link!RemoveAt(Underway, Len(a) + 1)
    BY <2>2, <2>3
  <2>5. Link!Lose
    BY <2>4 DEF Link!Lose, Underway
  <2> QED BY <2>5 DEF Link!Next
<1> QED BY <1>1, <1>2

(* The first byte of some that are on the wire.                             *)
LEMMA EndsOfHead ==
  ASSUME NEW w \in Seq(Byte), w # << >>
  PROVE  /\ Head(w) \in LineByte /\ Ends(<< Head(w) >>) \in Seq(Frames)
         /\ Tail(w) \in Seq(Byte) /\ Ends(Tail(w)) \in Seq(Frames)
         /\ Ends(w) = Cat(Ends(<< Head(w) >>), Ends(Tail(w)))
<1>1. /\ Head(w) \in LineByte /\ Tail(w) \in Seq(Byte)
      /\ w = << Head(w) >> \o Tail(w)
  BY WireSteps, BytesAreLineBytes
<1>2. << Head(w) >> \in Seq(LineByte)
  BY <1>1
<1>3. Tail(w) \in Seq(LineByte)
  BY <1>1, BytesAreLineBytes, SeqMonotonic
<1>4. Ends(<< Head(w) >> \o Tail(w)) = Ends(<< Head(w) >>) \o Ends(Tail(w))
  BY <1>2, <1>3, EndsConcat
<1> QED BY <1>1, <1>2, <1>3, <1>4, EndsFacts DEF Cat

LEMMA LinkSends ==
  ASSUME SerialInv, NEW f \in Frames, Send(f)
  PROVE  [Link!Next]_<< Underway, given >>
<1> DEFINE a == Ends(InHand)
           b == Ends(Contents)
           c == Ends(wire)
<1>1. UNCHANGED << fifo, reader, parser >> /\ wire' = wire \o BytesOf(f)
  BY DEF Send
<1>2. Contents' = Contents /\ InHand' = InHand /\ given' = given
  BY <1>1 DEF fifo, reader, parser, Contents, Occupied, InHand
<1>3. Ends(wire') = c \o << f >>
  <2>1. wire \in Seq(LineByte) /\ BytesOf(f) \in Seq(LineByte)
    BY UnderwayTypes, EndsOfFrame
  <2>2. Ends(wire \o BytesOf(f)) = Ends(wire) \o Ends(BytesOf(f))
    BY <2>1, EndsConcat
  <2> QED BY <1>1, <2>2, EndsOfFrame
<1>4. a \in Seq(Frames) /\ b \in Seq(Frames) /\ c \in Seq(Frames)
  BY UnderwayTypes
<1>5. Underway = Cat(Cat(a, b), c) /\ Underway' = Cat(Cat(a, b), Cat(c, << f >>))
  BY <1>2, <1>3 DEF Underway, Cat
<1> HIDE DEF a, b, c
<1>6. << f >> \in Seq(Frames)
  OBVIOUS
<1>7. /\ Cat(a, b) \in Seq(Frames)
      /\ Cat(Cat(a, b), Cat(c, << f >>)) = Cat(Cat(Cat(a, b), c), << f >>)
  <2> DEFINE d == << f >>
  <2> HIDE DEF d
  <2>1. d \in Seq(Frames)
    BY <1>6 DEF d
  <2>2. /\ Cat(a, b) \in Seq(Frames)
        /\ Cat(Cat(a, b), Cat(c, d)) = Cat(Cat(Cat(a, b), c), d)
    BY <1>4, <2>1, FourJoined
  <2> QED BY <2>2 DEF d
<1>8. Underway' = Append(Underway, f)
  <2>1. Underway' = Cat(Underway, << f >>)
    BY <1>5, <1>7
  <2>2. Underway \in Seq(Frames)
    BY <1>4, <1>5, <1>7, CatType
  <2> QED BY <2>1, <2>2, AppendIsConcat DEF Cat
<1>9. Link!Send
  BY <1>2, <1>8 DEF Link!Send, Underway
<1> QED BY <1>9 DEF Link!Next

LEMMA LinkReceives ==
  ASSUME SerialInv, Receive
  PROVE  [Link!Next]_<< Underway, given >>
<1> DEFINE a == Ends(InHand)
           b == Ends(Contents)
           h == Head(wire)
           e == Ends(<< h >>)
           t == Ends(Tail(wire))
<1>1. /\ wire \in Seq(Byte) /\ wire # << >> /\ wire' = Tail(wire)
      /\ UNCHANGED << reader, parser >>
  BY DEF SerialInv, SerialTypes, Receive
<1>2. InHand' = InHand /\ given' = given /\ UNCHANGED << pc, loaded >>
  BY <1>1 DEF reader, parser, InHand
<1>3. /\ h \in LineByte /\ e \in Seq(Frames) /\ t \in Seq(Frames)
      /\ Ends(wire) = Cat(e, t)
  BY <1>1, EndsOfHead
<1>4. a \in Seq(Frames) /\ b \in Seq(Frames)
  BY UnderwayTypes
<1>5. Underway = Cat(Cat(a, b), Cat(e, t))
  BY <1>3 DEF Underway, Cat
<1>6. /\ Cat(a, b) \in Seq(Frames)
      /\ Cat(Cat(a, b), Cat(e, t)) = Cat(Cat(Cat(a, b), e), t)
      /\ Cat(Cat(a, Cat(b, e)), t) = Cat(Cat(Cat(a, b), e), t)
  <2> HIDE DEF a, b, h, e, t
  <2> QED BY <1>3, <1>4, FourJoined
<1>7. CASE MayWrite
  <2>1. Write(h)
    BY <1>7 DEF Receive
  <2>2. Contents' = Append(Contents, h)
    BY <1>2, <1>3, <1>7, <2>1, WriteAppends
  <2>3. Contents \in Seq(LineByte) /\ << h >> \in Seq(LineByte)
    BY <1>3, UnderwayTypes
  <2>4. Contents' = Contents \o << h >>
    BY <1>3, <2>2, <2>3, AppendIsConcat
  <2>5. Ends(Contents \o << h >>) = Cat(b, e)
    BY <2>3, EndsConcat DEF Cat
  <2>6. Underway' = Cat(Cat(a, Cat(b, e)), t)
    BY <1>1, <1>2, <2>4, <2>5 DEF Underway, Cat
  <2> QED BY <1>2, <1>5, <1>6, <2>6
<1>8. CASE ~ MayWrite
  <2>1. Contents' = Contents
    BY <1>2, <1>8 DEF Receive, fifo, Contents, Occupied
  <2>2. Underway' = Cat(Cat(a, b), t)
    BY <1>1, <1>2, <2>1 DEF Underway, Cat
  <2> HIDE DEF a, b, h, t
  <2>3. Underway = Cat(Cat(Cat(a, b), Ends(<< h >>)), t)
    BY <1>5, <1>6
  <2> QED BY <1>2, <1>3, <1>6, <2>2, <2>3, LinkLoses
<1> QED BY <1>7, <1>8

LEMMA LinkOverruns ==
  ASSUME SerialInv, Overrun
  PROVE  [Link!Next]_<< Underway, given >>
<1> DEFINE a == Ends(InHand)
           b == Ends(Contents)
           h == Head(wire)
           e == Ends(<< h >>)
           t == Ends(Tail(wire))
<1>1. /\ wire \in Seq(Byte) /\ wire # << >>
      /\ UNCHANGED << fifo, reader, parser >>
  <2>1. wire \in Seq(Byte)
    BY DEF SerialInv, SerialTypes
  <2>2. Len(wire) > 1 => wire # << >>
    BY <2>1
  <2> QED BY <2>1, <2>2 DEF Overrun
<1>2. InHand' = InHand /\ Contents' = Contents /\ given' = given
  BY <1>1 DEF fifo, reader, parser, InHand, Contents, Occupied
<1>3. /\ h \in LineByte /\ e \in Seq(Frames) /\ t \in Seq(Frames)
      /\ Ends(wire) = Cat(e, t) /\ Tail(wire) \in Seq(Byte)
  BY <1>1, EndsOfHead
<1>4. a \in Seq(Frames) /\ b \in Seq(Frames)
  BY UnderwayTypes
<1>5. Underway = Cat(Cat(a, b), Cat(e, t))
  BY <1>3 DEF Underway, Cat
<1>6. CASE wire' = Tail(wire)
  <2>1. Underway' = Cat(Cat(a, b), t)
    BY <1>2, <1>6 DEF Underway, Cat
  <2> HIDE DEF a, b, h, t
  <2>2. /\ Cat(a, b) \in Seq(Frames)
        /\ Cat(Cat(a, b), Cat(Ends(<< h >>), t))
             = Cat(Cat(Cat(a, b), Ends(<< h >>)), t)
    BY <1>3, <1>4, FourJoined
  <2>3. Underway = Cat(Cat(Cat(a, b), Ends(<< h >>)), t)
    BY <1>5, <2>2
  <2> QED BY <1>2, <1>3, <2>1, <2>2, <2>3, LinkLoses
<1>7. CASE Len(wire) > 1 /\ wire' = << h >> \o Tail(Tail(wire))
  <2> DEFINE r == Tail(wire)
             x == Head(r)
             y == Ends(Tail(r))
  <2>1. r # << >>
    <3>1. Len(r) # 0
      <4>1. Len(r) = Len(wire) - 1 /\ Len(wire) \in Nat
        BY <1>1
      <4> QED BY <1>7, <4>1
    <3>2. ASSUME r = << >> PROVE FALSE
      <4>1. Len(r) = Len(<< >>)
        BY <3>2
      <4> QED BY <3>1, <4>1, EmptySeq
    <3> QED BY <3>2
  <2>2. /\ x \in LineByte /\ Ends(<< x >>) \in Seq(Frames) /\ y \in Seq(Frames)
        /\ t = Cat(Ends(<< x >>), y) /\ Tail(r) \in Seq(Byte)
    BY <1>3, <2>1, EndsOfHead
  <2>3. Ends(wire') = Cat(e, y)
    <3>1. << h >> \in Seq(LineByte) /\ Tail(r) \in Seq(LineByte)
      BY <1>3, <2>2, BytesAreLineBytes, SeqMonotonic
    <3>2. Ends(<< h >> \o Tail(r)) = Ends(<< h >>) \o Ends(Tail(r))
      BY <3>1, EndsConcat
    <3> QED BY <1>7, <3>2 DEF Cat
  <2>4. Underway' = Cat(Cat(a, b), Cat(e, y))
    BY <1>2, <2>3 DEF Underway, Cat
  <2> HIDE DEF a, b, h, e, t, r, x, y
  <2> DEFINE u == Cat(Cat(a, b), e)
             v == Ends(<< x >>)
  <2>5. /\ Cat(a, b) \in Seq(Frames) /\ Cat(Cat(a, b), Cat(e, y)) = Cat(u, y)
    BY <1>3, <1>4, <2>2, FourJoined
  <2>6. u \in Seq(Frames)
    BY <1>3, <2>5, CatType
  <2>7. Cat(Cat(a, b), Cat(e, t)) = Cat(u, t)
    BY <1>3, <1>4, FourJoined
  <2> HIDE DEF u
  <2>8. Cat(u, Cat(v, y)) = Cat(Cat(u, v), y)
    <3> HIDE DEF v
    <3>1. v \in Seq(Frames)
      BY <2>2 DEF v
    <3> QED BY <2>2, <2>6, <3>1, CatAssociative
  <2>9. Underway = Cat(Cat(u, Ends(<< x >>)), y) /\ Underway' = Cat(u, y)
    BY <1>5, <2>2, <2>4, <2>5, <2>7, <2>8
  <2> QED BY <1>2, <2>2, <2>6, <2>9, LinkLoses
<1> QED BY <1>6, <1>7 DEF Overrun

LEMMA LinkTakes ==
  ASSUME SerialInv, Take
  PROVE  [Link!Next]_<< Underway, given >>
<1>1. pc = "read" /\ pc' = "store" /\ wire' = wire /\ given' = NoFrame
  BY DEF Take
<1>2. InHand = << >> /\ InHand' = << ch' >>
  BY <1>1 DEF InHand
<1>3. /\ Contents = << ch' >> \o Contents' /\ ch' \in LineByte
      /\ Contents' \in Seq(LineByte)
  BY TakeRemoves
<1>4. Ends(Contents) = Ends(<< ch' >>) \o Ends(Contents')
  <2> DEFINE s == << ch' >>
             t == Contents'
  <2>1. s \in Seq(LineByte) /\ t \in Seq(LineByte) /\ Contents = s \o t
    BY <1>3
  <2> HIDE DEF s, t
  <2>2. Ends(s \o t) = Ends(s) \o Ends(t)
    BY <2>1, EndsConcat
  <2> QED BY <2>1, <2>2 DEF s, t
<1>5. Ends(InHand) \o Ends(Contents) = Ends(Contents)
  <2>1. Ends(InHand) = << >> /\ Ends(Contents) \in Seq(Frames)
    BY <1>2, EndsOfNone, UnderwayTypes
  <2> HIDE DEF InHand, Contents
  <2> QED BY <2>1
<1>6. Underway' = Underway
  BY <1>1, <1>2, <1>4, <1>5 DEF Underway
<1>7. Link!Done
  BY <1>1, <1>6 DEF Link!Done, Underway
<1> QED BY <1>7 DEF Link!Next

(* The frame that the parser builds is the one whose last byte it looks at. *)
LEMMA CrcGivesFrame ==
  ASSUME SerialInv, CrcMatches
  PROVE  [op |-> op, data |-> data, crc |-> ch.val] = ch.ends
<1>1. ch \in LineByte /\ ch.ends # NoFrame
  BY DEF SerialInv, SerialTypes, CrcMatches
<1>2. ch.ends \in FrameType /\ ch.val = ch.ends.crc
  BY <1>1, FrameAssumption DEF LineByte
<1> QED BY <1>2 DEF CrcMatches, FrameType

LEMMA LinkParses ==
  ASSUME SerialInv, Parse
  PROVE  [Link!Next]_<< Underway, given >>
<1> DEFINE b == Ends(Contents)
           c == Ends(wire)
<1>1. pc = "store" /\ pc' = "read" /\ wire' = wire
  BY DEF Parse
<1>2. InHand = << ch >> /\ InHand' = << >> /\ ch \in LineByte
  BY <1>1 DEF InHand, SerialInv, SerialTypes
<1>3. Contents' = Contents
  BY ParseStores
<1>4. b \in Seq(Frames) /\ c \in Seq(Frames)
  BY UnderwayTypes
<1>5. Underway = Ends(<< ch >>) \o b \o c /\ Underway' = << >> \o b \o c
  BY <1>1, <1>2, <1>3, EndsOfNone DEF Underway
<1> HIDE DEF b, c
<1>6. Cat(b, c) \in Seq(Frames)
  BY <1>4, CatType
<1>7. Underway' = Cat(b, c)
  BY <1>4, <1>5 DEF Cat
<1>8. Underway = Cat(Ends(<< ch >>), Cat(b, c))
  <2> DEFINE e == Ends(<< ch >>)
  <2>1. e \in Seq(Frames)
    <3>1. << ch >> \in Seq(LineByte)
      BY <1>2
    <3> QED BY <3>1, EndsFacts
  <2>2. Underway = Cat(Cat(e, b), c)
    BY <1>5 DEF Cat
  <2> HIDE DEF e
  <2>3. Cat(e, Cat(b, c)) = Cat(Cat(e, b), c)
    BY <1>4, <2>1, CatAssociative
  <2> QED BY <2>2, <2>3 DEF e
<1>9. CASE given' = given
  <2> DEFINE n == << >>
  <2>1. n \in Seq(Frames) /\ Cat(n, Ends(<< ch >>)) = Ends(<< ch >>)
        /\ Cat(n, Cat(b, c)) = Cat(b, c)
    <3>1. << ch >> \in Seq(LineByte)
      BY <1>2
    <3>2. Ends(<< ch >>) \in Seq(Frames)
      BY <3>1, EndsFacts
    <3>3. \A s \in Seq(Frames) : << >> \o s = s
      OBVIOUS
    <3> QED BY <1>6, <3>2, <3>3 DEF Cat
  <2> HIDE DEF n
  <2>2. /\ Underway = Cat(Cat(n, Ends(<< ch >>)), Cat(b, c))
        /\ Underway' = Cat(n, Cat(b, c))
    BY <1>7, <1>8, <2>1
  <2> QED BY <1>2, <1>6, <1>9, <2>1, <2>2, LinkLoses
<1>10. CASE given' # given
  <2>1. ReadCrc /\ CrcMatches
    BY <1>10 DEF Parse, ReadOp, ReadLength, ReadData, ReadCrc
  <2>2. given' = ch.ends /\ ch.ends # NoFrame
    BY <2>1, CrcGivesFrame DEF ReadCrc, CrcMatches
  <2>3. Ends(<< ch >>) = << ch.ends >> /\ ch.ends \in Frames
    BY <1>2, <2>2, EndsOfOne DEF LineByte
  <2>4. Underway = << ch.ends >> \o Cat(b, c)
    BY <1>8, <2>3 DEF Cat
  <2>5. /\ Underway # << >> /\ Head(Underway) = ch.ends
        /\ Tail(Underway) = Cat(b, c)
    BY <1>6, <2>3, <2>4
  <2>6. Link!Arrive
    BY <1>7, <2>2, <2>5 DEF Link!Arrive, Underway
  <2> QED BY <2>6 DEF Link!Next
<1> QED BY <1>9, <1>10

LEMMA LinkStep ==
  SerialInv /\ [SerialNext]_serialVars => [Link!Next]_<< Underway, given >>
<1> SUFFICES ASSUME SerialInv, [SerialNext]_serialVars
             PROVE  [Link!Next]_<< Underway, given >>
  OBVIOUS
<1>1. ASSUME NEW f \in Frames, Send(f)
      PROVE  [Link!Next]_<< Underway, given >>
  BY <1>1, LinkSends
<1>2. CASE Wake \/ Transmitted \/ Requested
  <2>1. /\ UNCHANGED << wire, fifo, parser, ch >>
        /\ pc # "store" /\ pc' # "store"
    BY <1>2 DEF Wake, Transmitted, Requested
  <2>2. Contents' = Contents /\ InHand' = InHand /\ given' = given
    BY <2>1 DEF fifo, parser, Contents, Occupied, InHand
  <2> QED BY <2>1, <2>2 DEF Underway
<1>3. CASE Finish
  <2>1. /\ UNCHANGED << wire, fifo, ch >> /\ given' = NoFrame
        /\ pc # "store" /\ pc' # "store"
    BY <1>3 DEF Finish
  <2>2. Contents' = Contents /\ InHand' = InHand
    BY <2>1 DEF fifo, Contents, Occupied, InHand
  <2>3. Link!Done
    BY <2>1, <2>2 DEF Link!Done
  <2> QED BY <2>3 DEF Link!Next
<1>4. CASE UNCHANGED serialVars
  BY <1>4 DEF serialVars, fifo, reader, parser, Underway, Contents, Occupied,
              InHand
<1> QED
  BY <1>1, <1>2, <1>3, <1>4, LinkReceives, LinkOverruns, LinkTakes, LinkParses
     DEF SerialNext, Task

(* Whatever bytes are lost, and wherever that leaves the parser, Parse is given
   frames that were sent, in their order and at most once. *)
THEOREM FramesArrive == SerialSpec => FramesInOrder
<1>1. SerialInit => Link!Init
  <2> SUFFICES ASSUME SerialInit PROVE Link!Init
    OBVIOUS
  <2>1. Contents = << >> /\ InHand = << >> /\ wire = << >> /\ given = NoFrame
    BY DEF SerialInit, Contents, Occupied, InHand
  <2>2. << >> \o << >> \o << >> = << >>
    OBVIOUS
  <2> QED BY <2>1, <2>2, EndsOfNone DEF Link!Init
<1>2. SerialInv /\ [SerialNext]_serialVars
        => [Link!Next]_<< Ends(InHand) \o Ends(Contents) \o Ends(wire), given >>
  BY LinkStep DEF Underway
<1> QED BY <1>1, <1>2, FifoCounts, PTL DEF SerialSpec, FramesInOrder, Link!Spec
=============================================================================
