---------------------------- MODULE ContentProofs ---------------------------
(***************************************************************************)
(* What crosses the bridge is what was meant: byte strings survive their   *)
(* encoding; the formatting of a message survives being sent and read back; *)
(* settings that were read can be written again and the id of an inline    *)
(* message sent back, or it is said when not; a folder survives being      *)
(* written back when it is a plain one; a markup is built as it was asked  *)
(* for; a number names its peer; rights are written back as read;          *)
(* users are asked for once each and a sent message is found again.        *)
(***************************************************************************)
EXTENDS Settings, Requests, Markup, FiniteSetTheorems, WellFoundedInduction, TLAPS

-----------------------------------------------------------------------------
(* Order among numbers.                                                    *)

\* A set of naturals that has a member has a least one.
LEMMA LeastNumber ==
    ASSUME NEW numbers \in SUBSET Nat, numbers # {}
    PROVE  \E n \in numbers : \A m \in numbers : n <= m
<1> DEFINE Below(n) == 0..(n - 1)
           initial == {Below(n) : n \in numbers}
<1>1. initial \subseteq FiniteSubsetsOf(Nat)
  <2>1. \A n \in Nat : IsFiniteSet(0..(n - 1)) /\ 0..(n - 1) \subseteq Nat
    BY FS_Interval
  <2> QED BY <2>1 DEF FiniteSubsetsOf
<1>2. IsWellFoundedOn(StrictSubsetOrdering(Nat), FiniteSubsetsOf(Nat))
  BY FS_StrictSubsetOrderingWellFounded
<1>3. initial # {} OBVIOUS
<1>4. PICK b \in initial : \A c \in initial : <<c, b>> \notin StrictSubsetOrdering(Nat)
  <2> HIDE DEF initial
  <2> QED BY <1>1, <1>2, <1>3, WFMin
<1>5. PICK n \in numbers : b = Below(n) OBVIOUS
<1>6. ASSUME NEW m \in numbers, m < n PROVE FALSE
  <2>1. Below(m) \in initial OBVIOUS
  <2>2. m \in Below(n) /\ m \notin Below(m) BY <1>6
  <2>3. Below(m) \subseteq Below(n) BY <1>6
  <2>4. Below(m) \in SUBSET Nat /\ Below(n) \in SUBSET Nat OBVIOUS
  <2>5. <<Below(m), b>> \in StrictSubsetOrdering(Nat)
    BY <1>5, <2>2, <2>3, <2>4 DEF StrictSubsetOrdering
  <2> QED BY <1>4, <2>1, <2>5
<1> QED BY <1>6

\* The members of a finite set of naturals are counted up: each has a rank of
\* its own, greater for the greater, and every rank up to their number is one's.
LEMMA Ranks ==
    ASSUME NEW numbers \in SUBSET Nat, IsFiniteSet(numbers)
    PROVE  /\ \A i \in numbers :
                Cardinality({j \in numbers : j <= i}) \in 1..Cardinality(numbers)
           /\ \A i, j \in numbers :
                i < j => Cardinality({k \in numbers : k <= i})
                           < Cardinality({k \in numbers : k <= j})
           /\ \A k \in 1..Cardinality(numbers) :
                \E i \in numbers : Cardinality({j \in numbers : j <= i}) = k
<1> DEFINE UpTo(i) == {j \in numbers : j <= i}
           rank == [i \in numbers |-> Cardinality(UpTo(i))]
           ranks == 1..Cardinality(numbers)
<1>1. Cardinality(numbers) \in Nat BY FS_CardinalityType
<1>2. ASSUME NEW i \in numbers
      PROVE  IsFiniteSet(UpTo(i)) /\ Cardinality(UpTo(i)) \in Nat /\ rank[i] \in ranks
  <2>1. /\ IsFiniteSet(UpTo(i)) /\ Cardinality(UpTo(i)) <= Cardinality(numbers)
    <3>1. UpTo(i) \in SUBSET numbers OBVIOUS
    <3> HIDE DEF UpTo
    <3> QED BY <3>1, FS_Subset
  <2>2. Cardinality(UpTo(i)) \in Nat
    <3> HIDE DEF UpTo
    <3> QED BY <2>1, FS_CardinalityType
  <2>3. UpTo(i) # {} OBVIOUS
  <2>4. Cardinality(UpTo(i)) # 0
    <3> HIDE DEF UpTo
    <3> QED BY <2>1, <2>3, FS_EmptySet
  <2> QED BY <1>1, <2>1, <2>2, <2>4
<1>3. ASSUME NEW i \in numbers, NEW j \in numbers, i < j
      PROVE  Cardinality(UpTo(i)) < Cardinality(UpTo(j))
  <2>1. UpTo(i) \in SUBSET UpTo(j) /\ j \in UpTo(j) /\ j \notin UpTo(i)
    <3>1. \A k \in numbers : (k <= i => k <= j) /\ ~(j <= i) /\ j <= j BY <1>3
    <3> QED BY <3>1
  <2> HIDE DEF UpTo
  <2>2. /\ Cardinality(UpTo(i)) <= Cardinality(UpTo(j))
        /\ Cardinality(UpTo(i)) # Cardinality(UpTo(j))
    BY <1>2, <2>1, FS_Subset
  <2> QED BY <1>2, <2>2
<1>4. rank \in Surjection(numbers, ranks)
  <2>1. rank \in [numbers -> ranks] BY <1>2
  <2>2. ASSUME NEW i \in numbers, NEW j \in numbers, rank[i] = rank[j] PROVE i = j
    <3>1. CASE i < j BY <1>2, <1>3, <2>2, <3>1
    <3>2. CASE j < i BY <1>2, <1>3, <2>2, <3>2
    <3> QED BY <3>1, <3>2
  <2>3. rank \in Injection(numbers, ranks)
    <3> HIDE DEF rank, ranks
    <3> QED BY <2>1, <2>2 DEF Injection, IsInjective
  <2>4. IsFiniteSet(ranks) /\ Cardinality(ranks) = Cardinality(numbers)
    BY <1>1, FS_Interval
  <2> HIDE DEF rank, ranks
  <2> QED BY <2>3, <2>4, FS_Injection
<1>5. ASSUME NEW k \in ranks PROVE \E i \in numbers : Cardinality(UpTo(i)) = k
  <2>1. \E i \in numbers : rank[i] = k
    <3> HIDE DEF rank, ranks
    <3> QED BY <1>4 DEF Surjection
  <2> QED BY <2>1
<1> QED BY <1>2, <1>3, <1>5

\* The entries of one sequence are those at some places of another, one for each
\* and in their order.
AreEntriesAt(entries, s, places) ==
    \E place \in [DOMAIN entries -> places] :
       /\ \A k \in DOMAIN entries : entries[k] = s[place[k]]
       /\ \A k, l \in DOMAIN entries : k < l => place[k] < place[l]
       /\ \A i \in places : \E k \in DOMAIN entries : place[k] = i

\* The entries taken at some places are a sequence of those entries.
LEMMA EntriesAtPlaces ==
    ASSUME NEW S, NEW s \in Seq(S), NEW places \in SUBSET (DOMAIN s)
    PROVE  /\ At(s, places) \in Seq(S)
           /\ Cardinality(places) \in Nat
           /\ DOMAIN At(s, places) = 1..Cardinality(places)
           /\ AreEntriesAt(At(s, places), s, places)
<1> DEFINE Rank(i) == Cardinality({j \in places : j <= i})
           at == At(s, places)
           place == [k \in 1..Cardinality(places) |-> CHOOSE i \in places : Rank(i) = k]
<1>1. DOMAIN s = 1..Len(s) /\ Len(s) \in Nat /\ \A i \in DOMAIN s : s[i] \in S
  OBVIOUS
<1>2. places \in SUBSET Nat /\ IsFiniteSet(places)
  <2>1. IsFiniteSet(1..Len(s)) BY <1>1, FS_Interval
  <2>2. IsFiniteSet(places) BY <1>1, <2>1, FS_Subset
  <2>3. \A i \in 1..Len(s) : i \in Nat OBVIOUS
  <2> QED BY <1>1, <2>2, <2>3
<1>3. Cardinality(places) \in Nat BY <1>2, FS_CardinalityType
<1>4. /\ \A i \in places : Rank(i) \in 1..Cardinality(places)
      /\ \A i, j \in places : i < j => Rank(i) < Rank(j)
      /\ \A k \in 1..Cardinality(places) : \E i \in places : Rank(i) = k
  BY <1>2, Ranks
<1>5. at = [k \in 1..Cardinality(places) |-> s[CHOOSE i \in places : Rank(i) = k]]
  BY DEF At
<1> HIDE DEF Rank, at
<1>6. \A k \in 1..Cardinality(places) : place[k] \in places /\ Rank(place[k]) = k
  BY <1>4
<1>7. \A k \in 1..Cardinality(places) : at[k] = s[place[k]] BY <1>5
<1>8. DOMAIN at = 1..Cardinality(places) BY <1>5
<1>9. place \in [1..Cardinality(places) -> places] BY <1>6
<1> HIDE DEF place
<1>10. at \in Seq(S)
  <2>1. \A k \in 1..Cardinality(places) : at[k] \in S BY <1>1, <1>6, <1>7
  <2>2. at = [k \in 1..Cardinality(places) |-> at[k]] BY <1>5, <1>8
  <2>3. at \in [1..Cardinality(places) -> S] BY <2>1, <2>2
  <2>4. \A n \in Nat : [1..n -> S] \subseteq Seq(S) OBVIOUS
  <2> QED BY <1>3, <2>3, <2>4
<1>11. \A n \in 1..Cardinality(places) : n \in Int OBVIOUS
<1>12. \A i, j \in places : Rank(i) = Rank(j) => i = j
  <2>1. SUFFICES ASSUME NEW i \in places, NEW j \in places, Rank(i) = Rank(j)
                 PROVE  i = j
    OBVIOUS
  <2>2. i \in Nat /\ j \in Nat /\ Rank(i) \in Int BY <1>2, <1>4, <1>11
  <2>3. ~(i < j) /\ ~(j < i) BY <1>4, <2>1, <2>2
  <2> QED BY <2>2, <2>3
<1>13. \A i \in places : \E k \in 1..Cardinality(places) : place[k] = i
  BY <1>4, <1>6, <1>12
<1>14. ASSUME NEW k \in 1..Cardinality(places), NEW l \in 1..Cardinality(places), k < l
       PROVE  place[k] < place[l]
  <2>1. /\ place[k] \in places /\ Rank(place[k]) = k
        /\ place[l] \in places /\ Rank(place[l]) = l
    BY <1>6
  <2>2. place[k] \in Nat /\ place[l] \in Nat /\ k \in Int /\ l \in Int
    BY <1>2, <1>11, <2>1
  <2>3. ~(place[l] < place[k]) /\ place[l] # place[k] BY <1>4, <1>14, <2>1, <2>2
  <2> QED BY <2>2, <2>3
<1>15. AreEntriesAt(at, s, places)
  <2>1. place \in [DOMAIN at -> places] BY <1>8, <1>9
  <2>2. \A k \in DOMAIN at : at[k] = s[place[k]] BY <1>7, <1>8
  <2>3. \A k, l \in DOMAIN at : k < l => place[k] < place[l] BY <1>8, <1>14
  <2>4. \A i \in places : \E k \in DOMAIN at : place[k] = i BY <1>8, <1>13
  <2> QED BY <2>1, <2>2, <2>3, <2>4 DEF AreEntriesAt
<1> QED BY <1>3, <1>8, <1>10, <1>15 DEF at

\* They are the whole sequence only when the places are all of its places.
LEMMA EntriesAtAllPlaces ==
    ASSUME NEW S, NEW s \in Seq(S), NEW places \in SUBSET (DOMAIN s)
    PROVE  At(s, places) = s <=> places = DOMAIN s
<1>1. DOMAIN s = 1..Len(s) /\ Len(s) \in Nat /\ s = [i \in 1..Len(s) |-> s[i]]
  OBVIOUS
<1>2. IsFiniteSet(1..Len(s)) /\ Cardinality(1..Len(s)) = Len(s)
  <2>1. \A n \in Nat : IsFiniteSet(1..n) /\ Cardinality(1..n) = n BY FS_Interval
  <2> QED BY <1>1, <2>1
<1>3. ASSUME At(s, places) = s PROVE places = DOMAIN s
  <2>1. Cardinality(places) \in Nat /\ DOMAIN At(s, places) = 1..Cardinality(places)
    BY EntriesAtPlaces
  <2>2. \A m, n \in Nat : 1..m = 1..n => m = n
    <3>1. SUFFICES ASSUME NEW m \in Nat, NEW n \in Nat, 1..m = 1..n PROVE m = n
      OBVIOUS
    <3>2. Cardinality(1..m) = m /\ Cardinality(1..n) = n BY FS_Interval
    <3> QED BY <3>1, <3>2
  <2>3. Cardinality(places) = Cardinality(1..Len(s)) BY <1>1, <1>2, <1>3, <2>1, <2>2
  <2> QED BY <1>1, <1>2, <2>3, FS_Subset
<1>4. ASSUME places = DOMAIN s PROVE At(s, places) = s
  <2> DEFINE Rank(i) == Cardinality({j \in places : j <= i})
  <2>1. ASSUME NEW i \in 1..Len(s) PROVE Rank(i) = i
    <3>1. i \in Nat /\ {j \in 1..Len(s) : j <= i} = 1..i BY <1>1
    <3>2. Cardinality(1..i) = i BY <3>1, FS_Interval
    <3> QED BY <1>1, <1>4, <3>1, <3>2
  <2>2. Cardinality(places) = Len(s) BY <1>1, <1>2, <1>4
  <2>3. At(s, places) = [k \in 1..Len(s) |-> s[CHOOSE i \in places : Rank(i) = k]]
    BY <2>2 DEF At
  <2> HIDE DEF Rank
  <2>4. \A k \in 1..Len(s) : (CHOOSE i \in places : Rank(i) = k) = k
    BY <1>1, <1>4, <2>1
  <2> QED BY <1>1, <2>3, <2>4
<1> QED BY <1>3, <1>4

-----------------------------------------------------------------------------
(* Base64.                                                                 *)

\* The decoder's table is the inverse of the encoder's (dto/files.rs:218).
LEMMA CharacterOfSextet ==
    ASSUME NEW v \in 0..63
    PROVE  /\ Character(v) # Pad
           /\ IsCharacter(Character(v))
           /\ Sextet(Character(v)) = v
<1>1. CASE v < 26 BY <1>1 DEF Character, IsCharacter, Sextet, Pad
<1>2. CASE v >= 26 /\ v < 52 BY <1>2 DEF Character, IsCharacter, Sextet, Pad
<1>3. CASE v >= 52 /\ v < 62 BY <1>3 DEF Character, IsCharacter, Sextet, Pad
<1>4. CASE v >= 62 BY <1>4 DEF Character, IsCharacter, Sextet, Pad
<1> QED BY <1>1, <1>2, <1>3, <1>4

\* A number of two digits, in the bases a group is cut into.
LEMMA TwoDigits ==
    /\ \A a \in 0..3, x \in 0..15 :
          (16 * a + x) \div 16 = a /\ (16 * a + x) % 16 = x
    /\ \A a \in 0..15, x \in 0..3 :
          (4 * a + x) \div 4 = a /\ (4 * a + x) % 4 = x
    /\ \A b \in 0..255 :
          /\ b \div 4 \in 0..63 /\ b % 4 \in 0..3
          /\ b = 4 * (b \div 4) + (b % 4)
          /\ b \div 16 \in 0..15 /\ b % 16 \in 0..15
          /\ b = 16 * (b \div 16) + (b % 16)
          /\ b \div 64 \in 0..3 /\ b % 64 \in 0..63
          /\ b = 64 * (b \div 64) + (b % 64)
OBVIOUS

\* Three bytes are four sextets, which are the three bytes.
LEMMA GroupOfBytes ==
    ASSUME NEW b1 \in Byte, NEW b2 \in Byte, NEW b3 \in Byte
    PROVE  /\ \A k \in 0..3 : SextetOf(b1, b2, b3, k) \in 0..63
           /\ ByteOf(SextetOf(b1, b2, b3, 0), SextetOf(b1, b2, b3, 1),
                     SextetOf(b1, b2, b3, 2), SextetOf(b1, b2, b3, 3), 0) = b1
           /\ ByteOf(SextetOf(b1, b2, b3, 0), SextetOf(b1, b2, b3, 1),
                     SextetOf(b1, b2, b3, 2), SextetOf(b1, b2, b3, 3), 1) = b2
           /\ ByteOf(SextetOf(b1, b2, b3, 0), SextetOf(b1, b2, b3, 1),
                     SextetOf(b1, b2, b3, 2), SextetOf(b1, b2, b3, 3), 2) = b3
<1>1. b1 \in 0..255 /\ b2 \in 0..255 /\ b3 \in 0..255 BY DEF Byte
<1>2. SextetOf(b1, b2, b3, 0) = b1 \div 4 BY DEF SextetOf
<1>3. SextetOf(b1, b2, b3, 1) = 16 * (b1 % 4) + (b2 \div 16) BY DEF SextetOf
<1>4. SextetOf(b1, b2, b3, 2) = 4 * (b2 % 16) + (b3 \div 64) BY DEF SextetOf
<1>5. SextetOf(b1, b2, b3, 3) = b3 % 64 BY DEF SextetOf
<1>6. \A k \in 0..3 : SextetOf(b1, b2, b3, k) \in 0..63
  <2>1. b1 \div 4 \in 0..63 BY <1>1, TwoDigits
  <2>2. 16 * (b1 % 4) + (b2 \div 16) \in 0..63
    <3>1. b1 % 4 \in 0..3 /\ b2 \div 16 \in 0..15 BY <1>1, TwoDigits
    <3> QED BY <3>1
  <2>3. 4 * (b2 % 16) + (b3 \div 64) \in 0..63
    <3>1. b2 % 16 \in 0..15 /\ b3 \div 64 \in 0..3 BY <1>1, TwoDigits
    <3> QED BY <3>1
  <2>4. b3 % 64 \in 0..63 BY <1>1, TwoDigits
  <2>5. \A k \in 0..3 : k = 0 \/ k = 1 \/ k = 2 \/ k = 3 OBVIOUS
  <2> QED BY <1>2, <1>3, <1>4, <1>5, <2>1, <2>2, <2>3, <2>4, <2>5
<1>7. 4 * (b1 \div 4) + ((16 * (b1 % 4) + (b2 \div 16)) \div 16) = b1
  BY <1>1, TwoDigits
<1>8. 16 * ((16 * (b1 % 4) + (b2 \div 16)) % 16)
          + ((4 * (b2 % 16) + (b3 \div 64)) \div 4) = b2
  BY <1>1, TwoDigits
<1>9. 64 * ((4 * (b2 % 16) + (b3 \div 64)) % 4) + (b3 % 64) = b3
  BY <1>1, TwoDigits
<1> QED BY <1>2, <1>3, <1>4, <1>5, <1>6, <1>7, <1>8, <1>9 DEF ByteOf

\* The bytes past the end count as zero, and so do their sextets.
LEMMA SextetsPastTheEnd ==
    /\ \A b1, b2 \in Byte : SextetOf(b1, b2, 0, 3) = 0
    /\ \A b1 \in Byte : SextetOf(b1, 0, 0, 2) = 0 /\ SextetOf(b1, 0, 0, 3) = 0
BY DEF SextetOf, Byte

\* A byte that is there is a byte, and so is the zero of one that is not.
LEMMA ByteAtIsByte ==
    ASSUME NEW bytes \in Seq(Byte), NEW i \in Nat \ {0}
    PROVE  ByteAt(bytes, i) \in Byte
<1>1. CASE i <= Len(bytes)
  <2>1. i \in DOMAIN bytes BY <1>1
  <2> QED BY <1>1, <2>1 DEF ByteAt
<1>2. CASE ~(i <= Len(bytes)) BY <1>2 DEF ByteAt, Byte
<1> QED BY <1>1, <1>2

\* Every character of an encoding stands for its sextet of the bytes, padding
\* for a sextet that is zero (dto/files.rs:143).
LEMMA EncodedSextets ==
    ASSUME NEW bytes \in Seq(Byte), NEW g \in 0..(Groups(Len(bytes)) - 1),
           NEW k \in 0..3
    PROVE  /\ 4 * g + k + 1 \in 1..(4 * Groups(Len(bytes)))
           /\ Encode(bytes)[4 * g + k + 1] = Encoded(bytes, g, k)
           /\ SextetAt(Encode(bytes), 4 * g + k + 1)
                = SextetOf(ByteAt(bytes, 3 * g + 1), ByteAt(bytes, 3 * g + 2),
                           ByteAt(bytes, 3 * g + 3), k)
           /\ Encoded(bytes, g, k) = Pad <=> k > Present(bytes, g)
           /\ Encoded(bytes, g, k) # Pad => IsCharacter(Encoded(bytes, g, k))
<1> DEFINE n == Len(bytes)
           b1 == ByteAt(bytes, 3 * g + 1)
           b2 == ByteAt(bytes, 3 * g + 2)
           b3 == ByteAt(bytes, 3 * g + 3)
           s == SextetOf(b1, b2, b3, k)
<1>1. n \in Nat /\ Groups(n) \in Nat /\ g \in Nat BY DEF Groups
<1>2. 3 * g < n BY <1>1 DEF Groups
<1>3. b1 \in Byte /\ b2 \in Byte /\ b3 \in Byte BY <1>1, ByteAtIsByte
<1>4. s \in 0..63 BY <1>3, GroupOfBytes
<1>5. 4 * g + k + 1 \in 1..(4 * Groups(n)) BY <1>1
<1>6. Encode(bytes)[4 * g + k + 1] = Encoded(bytes, g, k)
  <2>1. (4 * g + k + 1 - 1) \div 4 = g /\ (4 * g + k + 1 - 1) % 4 = k
    BY <1>1
  <2> QED BY <1>5, <2>1 DEF Encode
<1>7. CASE k <= Present(bytes, g)
  <2>1. Encoded(bytes, g, k) = Character(s) BY <1>7 DEF Encoded
  <2>2. SextetAt(Encode(bytes), 4 * g + k + 1) = s
    BY <1>4, <1>6, <2>1, CharacterOfSextet DEF SextetAt
  <2>3. ~(k > Present(bytes, g)) BY <1>1, <1>7 DEF Present
  <2> QED BY <1>4, <1>5, <1>6, <2>1, <2>2, <2>3, CharacterOfSextet
<1>8. CASE k > Present(bytes, g)
  <2>1. Encoded(bytes, g, k) = Pad BY <1>1, <1>8 DEF Encoded, Present
  <2>2. SextetAt(Encode(bytes), 4 * g + k + 1) = 0
    BY <1>6, <2>1 DEF SextetAt
  <2>3. Present(bytes, g) \in {1, 2} /\ Present(bytes, g) = n - 3 * g
    <3>1. n - 3 * g \in Nat \ {0} BY <1>1, <1>2
    <3>2. k <= 3 BY <1>1
    <3>3. n - 3 * g < 3 BY <1>1, <1>8, <3>1, <3>2 DEF Present
    <3> QED BY <3>1, <3>3 DEF Present
  <2>4. b3 = 0 BY <1>1, <2>3 DEF ByteAt
  <2>5. CASE n - 3 * g = 2
    <3>1. k = 3 BY <1>8, <2>3, <2>5
    <3> QED BY <1>3, <1>5, <1>6, <1>8, <2>1, <2>2, <2>4, <3>1,
               SextetsPastTheEnd
  <2>6. CASE n - 3 * g = 1
    <3>1. k \in {2, 3} BY <1>8, <2>3, <2>6
    <3>2. b2 = 0 BY <1>1, <2>6 DEF ByteAt
    <3> QED BY <1>3, <1>5, <1>6, <1>8, <2>1, <2>2, <2>4, <3>1, <3>2,
               SextetsPastTheEnd
  <2> QED BY <2>3, <2>5, <2>6
<1>9. Present(bytes, g) \in Int BY <1>1 DEF Present
<1> QED BY <1>7, <1>8, <1>9

\* A character is padding where the bytes have ended before it.
LEMMA PaddingIsPastTheEnd ==
    ASSUME NEW bytes \in Seq(Byte), NEW g \in 0..(Groups(Len(bytes)) - 1),
           NEW k \in 0..3
    PROVE  Encode(bytes)[4 * g + k + 1] = Pad <=> Len(bytes) - 3 * g < k
<1>1. Len(bytes) \in Nat /\ Groups(Len(bytes)) \in Nat BY DEF Groups
<1>2. k > Present(bytes, g) <=> Len(bytes) - 3 * g < k
  <2>1. CASE Len(bytes) - 3 * g < 3 BY <1>1, <2>1 DEF Present
  <2>2. CASE ~(Len(bytes) - 3 * g < 3) BY <1>1, <2>2 DEF Present
  <2> QED BY <2>1, <2>2
<1> QED BY <1>2, EncodedSextets

\* A place of an encoding is a group and a place in it.
LEMMA PlaceInGroup ==
    ASSUME NEW n \in Nat, NEW i \in 1..(4 * Groups(n))
    PROVE  /\ (i - 1) \div 4 \in 0..(Groups(n) - 1)
           /\ (i - 1) % 4 \in 0..3
           /\ 4 * ((i - 1) \div 4) + ((i - 1) % 4) + 1 = i
BY DEF Groups

\* The encoding has a whole number of groups, and its padding says how many
\* bytes the last one lacks.
LEMMA EncodingIsWhole ==
    ASSUME NEW bytes \in Seq(Byte)
    PROVE  /\ Encode(bytes) \in Seq(Int)
           /\ Len(Encode(bytes)) = 4 * Groups(Len(bytes))
           /\ Padding(Encode(bytes)) = 3 * Groups(Len(bytes)) - Len(bytes)
<1> DEFINE n == Len(bytes)
           G == Groups(n)
           e == Encode(bytes)
<1>1. n \in Nat /\ G \in Nat BY DEF Groups
<1>2. \A i \in 1..(4 * G) : e[i] \in Int
  <2>1. SUFFICES ASSUME NEW i \in 1..(4 * G)
                 PROVE  Encoded(bytes, (i - 1) \div 4, (i - 1) % 4) \in Int
    BY DEF Encode
  <2>2. \A c : IsCharacter(c) => c \in Int BY DEF IsCharacter
  <2>3. (i - 1) \div 4 \in 0..(G - 1) /\ (i - 1) % 4 \in 0..3
    BY <1>1, PlaceInGroup
  <2>4. \A g \in 0..(G - 1) : \A k \in 0..3 :
            \/ Encoded(bytes, g, k) = Pad
            \/ IsCharacter(Encoded(bytes, g, k))
    BY EncodedSextets
  <2>5. \/ Encoded(bytes, (i - 1) \div 4, (i - 1) % 4) = Pad
        \/ IsCharacter(Encoded(bytes, (i - 1) \div 4, (i - 1) % 4))
    BY <2>3, <2>4
  <2> QED BY <2>2, <2>5 DEF Pad
<1>3. e \in Seq(Int) /\ Len(e) = 4 * G
  <2>1. e = [i \in 1..(4 * G) |-> Encoded(bytes, (i - 1) \div 4, (i - 1) % 4)]
    BY DEF Encode
  <2> HIDE DEF e
  <2>2. 4 * G \in Nat BY <1>1
  <2>3. e \in [1..(4 * G) -> Int] BY <1>2, <2>1
  <2> QED BY <2>2, <2>3
<1>4. CASE n = 0
  <2>1. G = 0 BY <1>4 DEF Groups
  <2>2. e = <<>> BY <1>3, <2>1
  <2> QED BY <1>3, <1>4, <2>1, <2>2 DEF Padding
<1>5. CASE n > 0
  <2> DEFINE g == G - 1
  <2>1. g \in 0..(G - 1) /\ G > 0 BY <1>1, <1>5 DEF Groups
  <2>2. Present(bytes, g) = n - 3 * g /\ n - 3 * g \in 1..3
    <3>1. n - 3 * g \in 1..3 BY <1>1, <1>5 DEF Groups
    <3> QED BY <3>1 DEF Present
  <2>3. 4 * g + 3 + 1 = 4 * G /\ 4 * g + 2 + 1 = 4 * G - 1
    BY <1>1, <2>1
  <2>4. e[4 * g + 3 + 1] = Pad <=> n - 3 * g < 3
    BY <2>1, PaddingIsPastTheEnd
  <2>5. e[4 * g + 2 + 1] = Pad <=> n - 3 * g < 2
    BY <2>1, PaddingIsPastTheEnd
  <2>6. /\ e[4 * G] = Pad <=> n - 3 * g < 3
        /\ e[4 * G - 1] = Pad <=> n - 3 * g < 2
    <3> HIDE DEF e, g
    <3> QED BY <2>3, <2>4, <2>5
  <2>7. e # <<>> BY <1>1, <1>3, <2>1
  <2> HIDE DEF e
  <2>8. Padding(e) = 3 - (n - 3 * g)
    <3>1. Len(e) = 4 * G BY <1>3
    <3>2. CASE n - 3 * g = 3
      <4>1. e[Len(e)] # Pad BY <2>6, <3>1, <3>2
      <4> QED BY <3>2, <4>1 DEF Padding
    <3>3. CASE n - 3 * g = 2
      <4>1. e[Len(e)] = Pad /\ e[Len(e) - 1] # Pad BY <2>6, <3>1, <3>3
      <4> QED BY <2>7, <3>3, <4>1 DEF Padding
    <3>4. CASE n - 3 * g = 1
      <4>1. e[Len(e)] = Pad /\ e[Len(e) - 1] = Pad BY <2>6, <3>1, <3>4
      <4> QED BY <2>7, <3>4, <4>1 DEF Padding
    <3> QED BY <2>2, <3>2, <3>3, <3>4
  <2> QED BY <1>1, <1>3, <2>8 DEF e
<1> QED BY <1>1, <1>4, <1>5

\* What is encoded decodes to itself: callback data, poll options, raw
\* updates and file chunks are the bytes they were on the other side
\* (dto/files.rs:143 and 173).
THEOREM Base64RoundTrip ==
    \A bytes \in Seq(Byte) : RoundTrips(bytes)
<1> SUFFICES ASSUME NEW bytes \in Seq(Byte) PROVE RoundTrips(bytes) OBVIOUS
<1> DEFINE n == Len(bytes)
           G == Groups(n)
           e == Encode(bytes)
<1>1. n \in Nat /\ G \in Nat /\ 3 * G - n \in 0..2 BY DEF Groups
<1>2. Len(e) = 4 * G /\ DOMAIN e = 1..(4 * G) BY EncodingIsWhole
<1>3. Decodable(e)
  <2>1. Len(e) % 4 = 0 BY <1>1, <1>2
  <2>2. ASSUME NEW i \in DOMAIN e
        PROVE  IF e[i] = Pad THEN WellPadded(e, i) ELSE IsCharacter(e[i])
    <3> DEFINE g == (i - 1) \div 4
               k == (i - 1) % 4
    <3>1. g \in 0..(G - 1) /\ k \in 0..3 /\ i = 4 * g + k + 1
      BY <1>1, <1>2, PlaceInGroup
    <3> HIDE DEF g, k
    <3>2. e[i] = Encoded(bytes, g, k) BY <3>1, EncodedSextets
    <3>3. CASE e[i] # Pad BY <3>1, <3>2, <3>3, EncodedSextets
    <3>4. CASE e[i] = Pad
      <4>1. n - 3 * g < k BY <3>1, <3>4, PaddingIsPastTheEnd
      <4>2. g = G - 1 BY <1>1, <3>1, <4>1
      <4>3. k >= 2
        <5>1. n - 3 * g > 0 BY <1>1, <4>2
        <5> QED BY <1>1, <3>1, <4>1, <5>1
      <4>4. i < Len(e) => e[i + 1] = Pad
        <5>1. SUFFICES ASSUME i < Len(e) PROVE e[i + 1] = Pad OBVIOUS
        <5>2. k = 2 /\ i + 1 = 4 * g + 3 + 1
          <6>1. i < 4 * G BY <1>2, <5>1
          <6>2. 4 * g + k + 1 < 4 * g + 4 BY <1>1, <3>1, <4>2, <6>1
          <6> QED BY <1>1, <3>1, <4>3, <6>2
        <5>3. n - 3 * g < 3 BY <1>1, <3>1, <4>1, <5>2
        <5>4. e[4 * g + 3 + 1] = Pad BY <3>1, <5>3, PaddingIsPastTheEnd
        <5> QED BY <5>2, <5>4
      <4>5. 4 * g + 4 = Len(e) BY <1>1, <1>2, <4>2
      <4> QED BY <3>4, <4>3, <4>4, <4>5 DEF WellPadded, g, k
    <3> QED BY <3>3, <3>4
  <2> QED BY <2>1, <2>2 DEF Decodable
<1>4. 3 * (Len(e) \div 4) - Padding(e) = n
  <2>1. Padding(e) = 3 * G - n BY EncodingIsWhole
  <2>2. Len(e) \div 4 = G BY <1>1, <1>2
  <2> HIDE DEF e, G, n
  <2> QED BY <1>1, <2>1, <2>2
<1>5. ASSUME NEW i \in 1..n
      PROVE  LET at == 4 * ((i - 1) \div 3) IN
             ByteOf(SextetAt(e, at + 1), SextetAt(e, at + 2),
                    SextetAt(e, at + 3), SextetAt(e, at + 4), (i - 1) % 3)
               = bytes[i]
  <2> DEFINE g == (i - 1) \div 3
             k == (i - 1) % 3
             b1 == ByteAt(bytes, 3 * g + 1)
             b2 == ByteAt(bytes, 3 * g + 2)
             b3 == ByteAt(bytes, 3 * g + 3)
  <2>1. g \in 0..(G - 1) /\ k \in 0..2 /\ i = 3 * g + k + 1
    BY <1>1 DEF Groups
  <2> HIDE DEF g, k
  <2>2. /\ SextetAt(e, 4 * g + 1) = SextetOf(b1, b2, b3, 0)
        /\ SextetAt(e, 4 * g + 2) = SextetOf(b1, b2, b3, 1)
        /\ SextetAt(e, 4 * g + 3) = SextetOf(b1, b2, b3, 2)
        /\ SextetAt(e, 4 * g + 4) = SextetOf(b1, b2, b3, 3)
    <3>1. ASSUME NEW j \in 0..3
          PROVE  SextetAt(e, 4 * g + j + 1) = SextetOf(b1, b2, b3, j)
      BY <2>1, EncodedSextets
    <3>2. /\ 4 * g + 0 + 1 = 4 * g + 1 /\ 4 * g + 1 + 1 = 4 * g + 2
          /\ 4 * g + 2 + 1 = 4 * g + 3 /\ 4 * g + 3 + 1 = 4 * g + 4
      BY <2>1
    <3> HIDE DEF e, b1, b2, b3
    <3> QED BY <3>1, <3>2
  <2>3. b1 \in Byte /\ b2 \in Byte /\ b3 \in Byte
    BY <2>1, ByteAtIsByte
  <2>4. ByteOf(SextetAt(e, 4 * g + 1), SextetAt(e, 4 * g + 2),
               SextetAt(e, 4 * g + 3), SextetAt(e, 4 * g + 4), k)
          = ByteAt(bytes, 3 * g + k + 1)
    <3> DEFINE s(j) == SextetOf(b1, b2, b3, j)
    <3>1. /\ ByteOf(s(0), s(1), s(2), s(3), 0) = b1
          /\ ByteOf(s(0), s(1), s(2), s(3), 1) = b2
          /\ ByteOf(s(0), s(1), s(2), s(3), 2) = b3
      BY <2>3, GroupOfBytes
    <3>2. /\ k = 0 => 3 * g + k + 1 = 3 * g + 1
          /\ k = 1 => 3 * g + k + 1 = 3 * g + 2
          /\ k = 2 => 3 * g + k + 1 = 3 * g + 3
      BY <2>1
    <3>3. k = 0 \/ k = 1 \/ k = 2 BY <2>1
    <3>4. ByteOf(s(0), s(1), s(2), s(3), k) = ByteAt(bytes, 3 * g + k + 1)
      <4>1. CASE k = 0 BY <3>1, <3>2, <4>1
      <4>2. CASE k = 1 BY <3>1, <3>2, <4>2
      <4>3. CASE k = 2 BY <3>1, <3>2, <4>3
      <4> QED BY <3>3, <4>1, <4>2, <4>3
    <3> HIDE DEF e, b1, b2, b3
    <3> QED BY <2>2, <3>4
  <2>5. ByteAt(bytes, 3 * g + k + 1) = bytes[i] BY <2>1 DEF ByteAt
  <2> QED BY <2>4, <2>5 DEF g, k
<1>6. Decode(e) = [i \in 1..n |-> bytes[i]]
  BY <1>4, <1>5 DEF Decode
<1> QED BY <1>3, <1>6 DEF RoundTrips
-----------------------------------------------------------------------------
(* Entities.                                                               *)

\* Where an entity's payload is, by its kind.
LEMMA PayloadOfKind ==
    /\ DOMAIN EntityPayload = {"pre", "textUrl", "mentionName", "customEmoji"}
    /\ EntityPayload["pre"] = "language"
    /\ EntityPayload["textUrl"] = "url"
    /\ EntityPayload["mentionName"] = "userId"
    /\ EntityPayload["customEmoji"] = "customEmojiId"
    /\ \A k \in PlainEntities \cup ReceivedEntities : k \notin DOMAIN EntityPayload
BY DEF EntityPayload, PlainEntities, ReceivedEntities

\* What a caller formats a text with is what it reads back: an entity that is
\* accepted (payload.rs:152) and then projected (dto/message.rs:312) has the
\* kind, the place and the payload that were asked for.
THEOREM EntitiesReadBack ==
    ASSUME NEW spec, IsEntitySpec(spec), EntityAccepted(spec)
    PROVE  EntityReadsBack(spec)
<1> DEFINE e == ToMessageEntity(spec)
<1> DEFINE span == {"kind", "offset", "length"}
<1>1. /\ DOMAIN Span(spec) = span
      /\ \A f \in span : Span(spec)[f] = spec[f]
  BY DEF Span, Keep, IsEntitySpec
<1>2. CASE spec.kind \notin DOMAIN EntityPayload
  <2>1. span \subseteq DOMAIN e /\ \A f \in span : e[f] = spec[f]
    <3>1. CASE spec.kind = "blockquote"
      BY <1>1, <1>2, <3>1 DEF ToMessageEntity, With, Field
    <3>2. CASE spec.kind # "blockquote"
      BY <1>1, <1>2, <3>2, PayloadOfKind DEF ToMessageEntity, With, None
    <3> QED BY <3>1, <3>2
  <2>2. MessageEntityDto(e) = [f \in span |-> spec[f]]
    <3> HIDE DEF e
    <3> QED BY <1>2, <2>1 DEF MessageEntityDto, Span, Keep
  <2> QED BY <1>2, <2>2 DEF EntityReadsBack, OrElse, IsEntitySpec
<1>3. CASE spec.kind \in DOMAIN EntityPayload
  <2> DEFINE p == EntityPayload[spec.kind]
  <2>1. p \notin span /\ (p \in DOMAIN spec \/ p = "language")
    BY <1>3, PayloadOfKind DEF EntityAccepted
  <2>2. e = With(Span(spec), Field(p, OrElse(spec, p, "")))
    <3>1. CASE spec.kind = "pre"
      BY <3>1, PayloadOfKind DEF ToMessageEntity
    <3>2. CASE spec.kind # "pre"
      <4>1. /\ spec.kind \in DOMAIN EntityPayload \ {"pre"}
            /\ spec.kind # "blockquote"
            /\ p \in DOMAIN spec
        BY <1>3, <3>2, PayloadOfKind DEF EntityAccepted
      <4>2. e = With(Span(spec), Keep(spec, {p}))
        BY <3>2, <4>1 DEF ToMessageEntity
      <4>3. Keep(spec, {p}) = Field(p, OrElse(spec, p, ""))
        BY <4>1 DEF Keep, Field, OrElse
      <4> QED BY <4>2, <4>3
    <3> QED BY <3>1, <3>2
  <2>3. DOMAIN e = span \cup {p} /\ e[p] = OrElse(spec, p, "")
        /\ \A f \in span : e[f] = spec[f]
    <3> HIDE DEF p, e
    <3> QED BY <1>1, <2>1, <2>2 DEF With, Field
  <2>4. MessageEntityDto(e)
            = [f \in span \cup {p} |-> OrElse(spec, f, "")]
    <3>1. e.kind = spec.kind BY <2>3
    <3>2. MessageEntityDto(e) = Keep(e, {"kind", "offset", "length", p})
      BY <1>3, <3>1 DEF MessageEntityDto
    <3> HIDE DEF p, e
    <3>3. \A f \in span \cup {p} : e[f] = OrElse(spec, f, "")
      BY <2>1, <2>3 DEF OrElse, IsEntitySpec
    <3>4. Keep(e, {"kind", "offset", "length", p})
              = [f \in span \cup {p} |-> e[f]]
      BY <2>3 DEF Keep
    <3> QED BY <3>2, <3>3, <3>4
  <2> HIDE DEF p
  <2> QED BY <1>3, <2>4 DEF EntityReadsBack, p
<1> QED BY <1>2, <1>3

\* A received entity can be sent on as it was received, except that its kind
\* may be one a caller cannot send and that a quotation is opened.
THEOREM EntitiesAreSentAgain ==
    ASSUME NEW entity \in ReceivedEntity
    PROVE  EntityIsSentAgain(entity)
<1> DEFINE dto == MessageEntityDto(entity)
<1> USE PayloadOfKind
<1>1. CASE entity.kind \in (PlainEntities \cup ReceivedEntities) \ {"blockquote"}
  <2>1. entity \in [kind : (PlainEntities \cup ReceivedEntities)
                             \ {"blockquote"}, offset : Int, length : Int]
    BY <1>1 DEF ReceivedEntity, PlainEntities, ReceivedEntities
  <2>2. dto = entity
    BY <2>1, <1>1 DEF MessageEntityDto, Span, Keep
  <2>3. ToMessageEntity(entity) = entity
    BY <2>1, <1>1 DEF ToMessageEntity, Span, Keep, With, None
  <2>4. EntityAccepted(entity) <=> entity.kind \in SendableEntities
    BY <1>1 DEF EntityAccepted
  <2> QED BY <1>1, <2>2, <2>3, <2>4 DEF EntityIsSentAgain, Opened
<1>2. CASE entity.kind = "blockquote"
  <2>1. entity \in [kind : {"blockquote"}, offset : Int, length : Int,
                     collapsed : BOOLEAN]
    BY <1>2 DEF ReceivedEntity, PlainEntities, ReceivedEntities
  <2>2. dto = [kind |-> "blockquote", offset |-> entity.offset,
               length |-> entity.length]
    BY <1>2, <2>1 DEF MessageEntityDto, Span, Keep, PlainEntities
  <2>3. ToMessageEntity(dto)
            = [kind |-> "blockquote", offset |-> entity.offset,
               length |-> entity.length, collapsed |-> FALSE]
    <3> HIDE DEF dto
    <3>1. ToMessageEntity(dto) = With(Span(dto), Field("collapsed", FALSE))
      BY <2>2 DEF ToMessageEntity
    <3>2. Span(dto) = dto
      <4>1. /\ DOMAIN dto = {"kind", "offset", "length"}
            /\ dto = [f \in DOMAIN dto |-> dto[f]]
        BY <2>2
      <4>2. Span(dto) = [f \in {"kind", "offset", "length"} |-> dto[f]]
        BY <4>1 DEF Span, Keep
      <4> QED BY <4>1, <4>2
    <3>3. /\ DOMAIN dto = {"kind", "offset", "length"}
          /\ dto.kind = "blockquote"
          /\ dto.offset = entity.offset
          /\ dto.length = entity.length
      BY <2>2
    <3>4. With(dto, Field("collapsed", FALSE))
            = [f \in {"kind", "offset", "length", "collapsed"} |->
                  IF f = "collapsed" THEN FALSE ELSE dto[f]]
      BY <3>3 DEF With, Field
    <3> QED BY <3>1, <3>2, <3>3, <3>4
  <2>4. EntityAccepted(dto) /\ entity.kind \in SendableEntities
    BY <1>2, <2>2 DEF EntityAccepted, SendableEntities, PlainEntities
  <2>5. Opened(entity)
            = [kind |-> "blockquote", offset |-> entity.offset,
               length |-> entity.length, collapsed |-> FALSE]
    BY <2>1 DEF Opened
  <2> QED BY <2>3, <2>4, <2>5 DEF EntityIsSentAgain
<1>3. CASE entity.kind \in DOMAIN EntityPayload
  <2> DEFINE p == EntityPayload[entity.kind]
  <2>1. /\ DOMAIN entity = {"kind", "offset", "length", p}
        /\ entity = [f \in DOMAIN entity |-> entity[f]]
        /\ p \notin {"kind", "offset", "length"}
    BY <1>3 DEF ReceivedEntity, PlainEntities, ReceivedEntities
  <2>2. dto = entity
    <3>1. dto = Keep(entity, {"kind", "offset", "length", p})
      BY <1>3 DEF MessageEntityDto
    <3> HIDE DEF p, dto
    <3> QED BY <2>1, <3>1 DEF Keep
  <2>3. ToMessageEntity(entity) = With(Span(entity), Keep(entity, {p}))
    <3>1. CASE entity.kind = "pre"
      <4>1. Keep(entity, {p})
                = Field("language", OrElse(entity, "language", ""))
        BY <2>1, <3>1 DEF Keep, Field, OrElse
      <4> QED BY <3>1, <4>1 DEF ToMessageEntity
    <3>2. CASE entity.kind # "pre"
      BY <1>3, <3>2 DEF ToMessageEntity
    <3> QED BY <3>1, <3>2
  <2>4. With(Span(entity), Keep(entity, {p})) = entity
    <3> HIDE DEF p
    <3> QED BY <2>1 DEF With, Span, Keep
  <2>5. EntityAccepted(entity) /\ entity.kind \in SendableEntities
    BY <1>3, <2>1 DEF EntityAccepted, SendableEntities
  <2>6. Opened(entity) = entity
    BY <1>3 DEF Opened
  <2> QED BY <2>2, <2>3, <2>4, <2>5, <2>6 DEF EntityIsSentAgain
<1> QED BY <1>1, <1>2, <1>3
        DEF ReceivedEntity, PlainEntities, ReceivedEntities
-----------------------------------------------------------------------------
(* Settings.                                                               *)

\* Every privacy rule that was read can be written as it was, but for the
\* rules that list users, none of which can be written.
THEOREM PrivacyRulesAreWrittenAgain ==
    ASSUME NEW rule \in PrivacyRule
    PROVE  PrivacyRuleIsWrittenAgain(rule)
<1> USE DEF PrivacyRuleIsWrittenAgain, PrivacyRuleAccepted, PrivacyRuleDto,
            PrivacyRuleInput
<1>1. CASE rule \in [kind : ValuelessRules]
  <2>1. /\ rule.kind \in ValuelessRules
        /\ rule.kind \notin UserRules \cup ChatRules
    BY <1>1 DEF ValuelessRules, UserRules, ChatRules
  <2>2. rule = [kind |-> rule.kind] BY <1>1
  <2> QED BY <2>1, <2>2
<1>2. CASE rule \in [kind : ChatRules, chats : Seq(Int)]
  <2>1. rule.kind \in ChatRules /\ rule.kind \notin UserRules
    BY <1>2 DEF UserRules, ChatRules
  <2>2. rule = [kind |-> rule.kind, chats |-> rule.chats] BY <1>2
  <2> QED BY <2>1, <2>2
<1>3. CASE rule \in [kind : UserRules, users : Seq(Int)]
  <2>1. /\ rule.kind \in UserRules
        /\ rule.kind \notin ValuelessRules \cup ChatRules
    BY <1>3 DEF ValuelessRules, UserRules, ChatRules
  <2> QED BY <2>1
<1> QED BY <1>1, <1>2, <1>3 DEF PrivacyRule

\* Every notification sound that was read can be written as it was.
THEOREM SoundsAreWrittenAgain ==
    ASSUME NEW sound \in NotificationSound
    PROVE  SoundIsWrittenAgain(sound)
<1>1. /\ sound.kind \in {"default", "none", "local", "ringtone"}
      /\ DOMAIN SoundFields = {"default", "none", "local", "ringtone"}
  BY DEF NotificationSound, SoundFields
<1>2. /\ sound = [f \in DOMAIN sound |-> sound[f]]
      /\ DOMAIN sound = {"kind"} \cup SoundFields[sound.kind]
  <2>1. CASE sound \in [kind : {"default", "none"}]
    <3>1. SoundFields[sound.kind] = {}
      BY <2>1 DEF SoundFields
    <3> QED BY <2>1, <3>1
  <2>2. CASE sound \in [kind : {"local"}, title : STRING, data : STRING]
    <3>1. SoundFields[sound.kind] = {"title", "data"}
      BY <2>2 DEF SoundFields
    <3> QED BY <2>2, <3>1
  <2>3. CASE sound \in [kind : {"ringtone"}, id : Int]
    <3>1. SoundFields[sound.kind] = {"id"}
      BY <2>3 DEF SoundFields
    <3> QED BY <2>3, <3>1
  <2> QED BY <2>1, <2>2, <2>3 DEF NotificationSound
<1>3. NotificationSoundDto(sound) = sound
  BY <1>2 DEF NotificationSoundDto, Keep
<1>4. NotifySoundInput(sound) = sound
  BY <1>2 DEF NotifySoundInput, Keep
<1>5. SoundAccepted(sound)
  BY <1>1, <1>2 DEF SoundAccepted
<1> QED BY <1>3, <1>4, <1>5 DEF SoundIsWrittenAgain

\* Every date the layer can hold survives being read and written, before the
\* epoch and after it.
THEOREM MutesAreWrittenAgain ==
    ASSUME NEW date \in Int32
    PROVE  MuteIsWrittenAgain(date)
<1>1. date \in Int
  <2>1. Half32 \in Int BY SMT DEF Half32, Million
  <2> QED BY <2>1 DEF Int32
<1>2. CASE date >= 0
  BY <1>1, <1>2 DEF MuteIsWrittenAgain, Seconds, Millis, TowardsZero
<1>3. CASE date < 0
  <2>1. ~ (Millis(date) >= 0) BY <1>1, <1>3 DEF Millis
  <2>2. (-Millis(date)) \div 1000 = -date BY <1>1, <1>3 DEF Millis
  <2> QED BY <1>1, <2>1, <2>2 DEF MuteIsWrittenAgain, Seconds, TowardsZero
<1> QED BY <1>1, <1>2, <1>3

\* Three records without a field in common are joined to one that has the fields
\* of each.
LEMMA JoinedApart ==
    ASSUME NEW a, NEW b, NEW c,
           DOMAIN a \cap DOMAIN b = {}, DOMAIN a \cap DOMAIN c = {},
           DOMAIN b \cap DOMAIN c = {}
    PROVE  LET all == Joined(<<a, b, c>>)
           IN  /\ all = [f \in DOMAIN a \cup DOMAIN b \cup DOMAIN c |-> all[f]]
               /\ \A f \in DOMAIN a : all[f] = a[f]
               /\ \A f \in DOMAIN b : all[f] = b[f]
               /\ \A f \in DOMAIN c : all[f] = c[f]
<1> DEFINE rs == <<a, b, c>>
           fields == UNION {DOMAIN rs[i] : i \in DOMAIN rs}
           Last(f) == CHOOSE i \in DOMAIN rs :
                         /\ f \in DOMAIN rs[i]
                         /\ \A j \in DOMAIN rs : f \in DOMAIN rs[j] => j <= i
<1>1. DOMAIN rs = {1, 2, 3} /\ rs[1] = a /\ rs[2] = b /\ rs[3] = c OBVIOUS
<1>2. Joined(rs) = [f \in fields |-> rs[Last(f)][f]] BY DEF Joined
<1> HIDE DEF rs
<1>3. fields = DOMAIN a \cup DOMAIN b \cup DOMAIN c BY <1>1
<1>4. \A f \in DOMAIN a : Last(f) = 1 BY <1>1
<1>5. \A f \in DOMAIN b : Last(f) = 2 BY <1>1
<1>6. \A f \in DOMAIN c : Last(f) = 3 BY <1>1
<1> HIDE DEF fields, Last
<1>7. Joined(rs) = [f \in DOMAIN a \cup DOMAIN b \cup DOMAIN c |-> Joined(rs)[f]]
  BY <1>2, <1>3
<1>8. /\ \A f \in DOMAIN a : Joined(rs)[f] = a[f]
      /\ \A f \in DOMAIN b : Joined(rs)[f] = b[f]
      /\ \A f \in DOMAIN c : Joined(rs)[f] = c[f]
  BY <1>1, <1>2, <1>3, <1>4, <1>5, <1>6
<1> QED BY <1>7, <1>8 DEF rs

\* What a folder is written with: the rules, peers and title asked for, and nothing
\* else.
IsWritten(input, id, spec, peerOf) ==
    LET ListOf(f) == OrElse(spec, f, <<>>)
    IN  /\ input = [f \in RuledFolderFields |-> input[f]]
        /\ \A f \in FolderFlags : input[f] = OrElse(spec, f, FALSE)
        /\ \A f \in FolderPeers :
              input[f] = [i \in DOMAIN ListOf(f) |-> peerOf[ListOf(f)[i]]]
        /\ input.kind = "filter" /\ input.id = id /\ input.titleNoanimate = FALSE
        /\ input.title = [text |-> spec.title, entities |-> <<>>]

\* Writing a folder writes that (ops/folders.rs:139).
LEMMA FilterInput ==
    ASSUME NEW id, NEW spec, NEW peerOf
    PROVE  IsWritten(DialogFilterInput(id, spec, peerOf), id, spec, peerOf)
<1> DEFINE input == DialogFilterInput(id, spec, peerOf)
           ListOf(f) == OrElse(spec, f, <<>>)
           flags == [f \in FolderFlags |-> OrElse(spec, f, FALSE)]
           peers == [f \in FolderPeers |->
                        [i \in DOMAIN ListOf(f) |-> peerOf[ListOf(f)[i]]]]
           others == [kind |-> "filter", id |-> id, titleNoanimate |-> FALSE,
                      title |-> [text |-> spec.title, entities |-> <<>>]]
<1>1. /\ FolderFlags \cap FolderPeers = {}
      /\ FolderFlags \cap {"kind", "id", "title", "titleNoanimate"} = {}
      /\ FolderPeers \cap {"kind", "id", "title", "titleNoanimate"} = {}
  BY DEF FolderFlags, FolderPeers
<1>2. input = Joined(<<flags, peers, others>>) BY DEF DialogFilterInput
<1>3. /\ DOMAIN flags = FolderFlags /\ DOMAIN peers = FolderPeers
      /\ DOMAIN others = {"kind", "id", "title", "titleNoanimate"}
  OBVIOUS
<1>4. /\ input = [f \in FolderFlags \cup FolderPeers
                          \cup {"kind", "id", "title", "titleNoanimate"} |-> input[f]]
      /\ \A f \in FolderFlags : input[f] = flags[f]
      /\ \A f \in FolderPeers : input[f] = peers[f]
      /\ \A f \in {"kind", "id", "title", "titleNoanimate"} : input[f] = others[f]
  <2> HIDE DEF input, flags, peers, others
  <2> QED BY <1>1, <1>2, <1>3, JoinedApart
<1>5. /\ \A f \in FolderFlags : flags[f] = OrElse(spec, f, FALSE)
      /\ \A f \in FolderPeers :
            peers[f] = [i \in DOMAIN ListOf(f) |-> peerOf[ListOf(f)[i]]]
      /\ others.kind = "filter" /\ others.id = id /\ others.titleNoanimate = FALSE
      /\ others.title = [text |-> spec.title, entities |-> <<>>]
  OBVIOUS
<1> HIDE DEF input, flags, peers, others, ListOf
<1>6. input = [f \in RuledFolderFields |-> input[f]] BY <1>4 DEF RuledFolderFields
<1>7. /\ \A f \in FolderFlags : input[f] = OrElse(spec, f, FALSE)
      /\ \A f \in FolderPeers :
            input[f] = [i \in DOMAIN ListOf(f) |-> peerOf[ListOf(f)[i]]]
      /\ input.kind = "filter" /\ input.id = id /\ input.titleNoanimate = FALSE
      /\ input.title = [text |-> spec.title, entities |-> <<>>]
  BY <1>4, <1>5
<1> QED BY <1>6, <1>7 DEF input, ListOf, IsWritten

\* What a folder is written back as, field by field: its rules, those of its peers
\* that can be reached, its id and the text of its title.
IsReached(input, folder, reached) ==
    /\ input = [f \in RuledFolderFields |-> input[f]]
    /\ \A f \in FolderFlags : input[f] = folder[f]
    /\ \A f \in FolderPeers :
          input[f] = At(folder[f], Reachable(folder[f], reached))
    /\ input.kind = "filter" /\ input.id = folder.id
    /\ input.titleNoanimate = FALSE
    /\ input.title = [text |-> folder.title.text, entities |-> <<>>]

\* Writing back a folder with rules that was read writes that (dto/folders.rs:67).
LEMMA WrittenFolder ==
    ASSUME NEW Peer, NEW Entity, NEW reached, NEW folder,
           IsFolder(folder, Peer, Entity), folder.kind = "filter"
    PROVE  IsReached(WrittenBack(folder, reached), folder, reached)
<1> DEFINE same == [peer \in reached |-> peer]
           dto == DialogFolderDto(folder, reached, same)
           input == WrittenBack(folder, reached)
           read == [f \in FolderFlags |-> folder.kind = "filter" /\ folder[f]]
           seen == [f \in FolderPeers |->
                       PeersDto(OrElse(folder, f, <<>>), reached, same)]
           named == [kind |-> folder.kind,
                     id |-> OrElse(folder, "id", 0),
                     title |-> OrElse(folder, "title", [text |-> ""]).text,
                     hasMyInvites |-> OrElse(folder, "hasMyInvites", FALSE)]
<1>1. /\ FolderFlags \cap FolderPeers = {}
      /\ FolderFlags \cap {"kind", "id", "title", "hasMyInvites"} = {}
      /\ FolderPeers \cap {"kind", "id", "title", "hasMyInvites"} = {}
  BY DEF FolderFlags, FolderPeers
<1>2. /\ FolderFlags \subseteq DOMAIN folder /\ FolderPeers \subseteq DOMAIN folder
      /\ {"kind", "id", "title", "titleNoanimate"} \subseteq DOMAIN folder
  BY DEF IsFolder, RuledFolderFields
<1>3. dto = Joined(<<read, seen, named>>) BY DEF DialogFolderDto
<1>4. /\ DOMAIN read = FolderFlags /\ DOMAIN seen = FolderPeers
      /\ DOMAIN named = {"kind", "id", "title", "hasMyInvites"}
  OBVIOUS
<1>5. /\ dto = [f \in FolderFlags \cup FolderPeers
                          \cup {"kind", "id", "title", "hasMyInvites"} |-> dto[f]]
      /\ \A f \in FolderFlags : dto[f] = read[f]
      /\ \A f \in FolderPeers : dto[f] = seen[f]
      /\ dto.id = named.id /\ dto.title = named.title
  <2> HIDE DEF dto, read, seen, named
  <2> QED BY <1>1, <1>3, <1>4, JoinedApart
<1>6. \A f \in FolderFlags : read[f] = folder[f] BY <1>2 DEF IsFolder
<1>7. named.id = folder.id /\ named.title = folder.title.text BY <1>2 DEF OrElse
<1>8. ASSUME NEW f \in FolderPeers
      PROVE  /\ seen[f] = At(folder[f], Reachable(folder[f], reached))
             /\ \A k \in DOMAIN seen[f] : seen[f][k] \in reached
             /\ seen[f] = [k \in DOMAIN seen[f] |-> seen[f][k]]
  <2> DEFINE list == folder[f]
             places == Reachable(list, reached)
             at == At(list, places)
  <2>1. list \in Seq(Peer) /\ OrElse(folder, f, <<>>) = list
    BY <1>2 DEF IsFolder, OrElse
  <2>2. places \in SUBSET (DOMAIN list) BY DEF Reachable
  <2>3. seen[f] = [i \in DOMAIN at |-> same[at[i]]]
    <3>1. seen[f] = PeersDto(OrElse(folder, f, <<>>), reached, same) OBVIOUS
    <3> HIDE DEF seen, same, list
    <3>2. PeersDto(list, reached, same) = [i \in DOMAIN at |-> same[at[i]]]
      BY DEF PeersDto
    <3> QED BY <2>1, <3>1, <3>2
  <2>4. at \in Seq(Peer) /\ AreEntriesAt(at, list, places)
    <3> HIDE DEF list, places
    <3> QED BY <2>1, <2>2, EntriesAtPlaces
  <2>5. \A k \in DOMAIN at : at[k] \in reached
    <3>1. \A i \in places : list[i] \in reached BY DEF Reachable
    <3> HIDE DEF at, list, places
    <3> QED BY <2>4, <3>1 DEF AreEntriesAt
  <2>6. at = [k \in DOMAIN at |-> at[k]]
    <3> HIDE DEF at
    <3> QED BY <2>4
  <2> HIDE DEF at, seen
  <2>7. \A k \in DOMAIN at : same[at[k]] = at[k] BY <2>5
  <2>8. seen[f] = at
    <3> HIDE DEF same
    <3> QED BY <2>3, <2>6, <2>7
  <2> QED BY <2>5, <2>6, <2>8 DEF at
<1>9. input = DialogFilterInput(dto.id, dto, same) BY DEF WrittenBack
<1> HIDE DEF dto, read, seen, named, input
<1>10. /\ input = [f \in RuledFolderFields |-> input[f]]
       /\ \A f \in FolderFlags : input[f] = OrElse(dto, f, FALSE)
       /\ \A f \in FolderPeers :
             input[f] = [i \in DOMAIN OrElse(dto, f, <<>>) |->
                            same[OrElse(dto, f, <<>>)[i]]]
       /\ input.kind = "filter" /\ input.id = dto.id
       /\ input.titleNoanimate = FALSE
       /\ input.title = [text |-> dto.title, entities |-> <<>>]
  <2> HIDE DEF same
  <2>1. IsWritten(input, dto.id, dto, same) BY <1>9, FilterInput
  <2> QED BY <2>1 DEF IsWritten
<1>11. \A f \in FolderFlags \cup FolderPeers : f \in DOMAIN dto BY <1>5
<1>12. \A f \in FolderFlags : input[f] = folder[f]
  BY <1>5, <1>6, <1>10, <1>11 DEF OrElse
<1>13. ASSUME NEW f \in FolderPeers
       PROVE  input[f] = At(folder[f], Reachable(folder[f], reached))
  <2>1. OrElse(dto, f, <<>>) = seen[f] BY <1>5, <1>11 DEF OrElse
  <2>2. input[f] = [i \in DOMAIN seen[f] |-> same[seen[f][i]]]
    <3> HIDE DEF same
    <3> QED BY <1>10, <2>1
  <2>3. \A k \in DOMAIN seen[f] : same[seen[f][k]] = seen[f][k] BY <1>8
  <2> HIDE DEF same
  <2> QED BY <1>8, <2>2, <2>3
<1>14. input.id = folder.id
       /\ input.title = [text |-> folder.title.text, entities |-> <<>>]
  BY <1>5, <1>7, <1>10
<1>15. IsReached(input, folder, reached) BY <1>10, <1>12, <1>13, <1>14 DEF IsReached
<1> QED BY <1>15 DEF input

\* A folder that is written back unchanged, as one must to change a part of it, is
\* the folder it was just when it was a plain one and each of its peers could be
\* reached: whatever is lost on the way was there to lose (dto/folders.rs:67,
\* ops/folders.rs:139).
THEOREM FoldersAreWrittenBack ==
    ASSUME NEW Peer, NEW Entity, NEW reached, NEW folder,
           IsFolder(folder, Peer, Entity)
    PROVE  FolderIsWrittenBack(folder, reached)
<1> DEFINE same == [peer \in reached |-> peer]
           dto == DialogFolderDto(folder, reached, same)
           input == WrittenBack(folder, reached)
<1>1. SUFFICES input = folder <=> Plain(folder, reached)
  BY DEF FolderIsWrittenBack
<1> HIDE DEF input
<1>2. CASE folder.kind # "filter"
  <2>1. DialogFilterInput(dto.id, dto, same).kind = "filter"
    <3> HIDE DEF same, dto
    <3>1. IsWritten(DialogFilterInput(dto.id, dto, same), dto.id, dto, same)
      BY FilterInput
    <3> QED BY <3>1 DEF IsWritten
  <2>2. input.kind = "filter" BY <2>1 DEF input, WrittenBack
  <2> QED BY <1>2, <2>2 DEF Plain
<1>3. CASE folder.kind = "filter"
  <2>1. /\ input = [f \in RuledFolderFields |-> input[f]]
        /\ \A f \in FolderFlags : input[f] = folder[f]
        /\ \A f \in FolderPeers :
              input[f] = At(folder[f], Reachable(folder[f], reached))
        /\ input.kind = "filter" /\ input.id = folder.id
        /\ input.titleNoanimate = FALSE
        /\ input.title = [text |-> folder.title.text, entities |-> <<>>]
    <3>1. IsReached(input, folder, reached) BY <1>3, WrittenFolder DEF input
    <3> QED BY <3>1 DEF IsReached
  <2>2. /\ folder = [f \in DOMAIN folder |-> folder[f]]
        /\ RuledFolderFields \subseteq DOMAIN folder
        /\ DOMAIN folder \subseteq RuledFolderFields \cup {"emoticon", "color"}
        /\ folder.title \in [text : STRING, entities : Seq(Entity)]
        /\ folder.titleNoanimate \in BOOLEAN
        /\ \A f \in FolderPeers : folder[f] \in Seq(Peer)
    BY <1>3 DEF IsFolder
  <2>3. DOMAIN folder = RuledFolderFields <=> {"emoticon", "color"} \cap DOMAIN folder = {}
    <3>1. {"emoticon", "color"} \cap RuledFolderFields = {}
      BY DEF RuledFolderFields, FolderFlags, FolderPeers
    <3> QED BY <2>2, <3>1
  <2>4. \A f \in FolderPeers :
           input[f] = folder[f]
              <=> \A i \in DOMAIN folder[f] : folder[f][i] \in reached
    <3> TAKE f \in FolderPeers
    <3> DEFINE places == Reachable(folder[f], reached)
    <3>1. folder[f] \in Seq(Peer) /\ input[f] = At(folder[f], places) BY <2>1, <2>2
    <3>2. /\ places \in SUBSET (DOMAIN folder[f])
          /\ places = DOMAIN folder[f]
                <=> \A i \in DOMAIN folder[f] : folder[f][i] \in reached
      BY DEF Reachable
    <3> HIDE DEF places
    <3>3. At(folder[f], places) = folder[f] <=> places = DOMAIN folder[f]
      BY <3>1, <3>2, EntriesAtAllPlaces
    <3> QED BY <3>1, <3>2, <3>3
  <2>5. input.title = folder.title <=> folder.title.entities = <<>>
    <3>1. folder.title = [text |-> folder.title.text, entities |-> folder.title.entities]
      BY <2>2
    <3> QED BY <2>1, <3>1
  <2>6. input.titleNoanimate = folder.titleNoanimate <=> ~folder.titleNoanimate
    BY <2>1, <2>2
  <2>7. input = folder <=> /\ DOMAIN folder = RuledFolderFields
                           /\ \A f \in RuledFolderFields : input[f] = folder[f]
    BY <2>1, <2>2
  <2>8. (\A f \in RuledFolderFields : input[f] = folder[f])
           <=> /\ input.title = folder.title
               /\ input.titleNoanimate = folder.titleNoanimate
               /\ \A f \in FolderPeers : input[f] = folder[f]
    BY <1>3, <2>1 DEF RuledFolderFields
  <2> QED BY <1>3, <2>3, <2>4, <2>5, <2>6, <2>7, <2>8 DEF Plain
<1> QED BY <1>2, <1>3

-----------------------------------------------------------------------------
(* Inline messages.                                                        *)

\* The id of an inline message survives the crossing when it is of the older
\* kind, and never when it is of the newer one.
THEOREM OldInlineIdsAreSentBack ==
    ASSUME NEW id \in InlineId
    PROVE  InlineIdIsSentBack(id)
<1> DEFINE dto == InlineMessageIdDto(id)
<1>1. /\ "ownerId" \notin DOMAIN dto
      /\ dto.dcId = id.dcId
      /\ dto.id = id.id
      /\ dto.accessHash = id.accessHash
  BY DEF InlineId, InlineMessageIdDto, Keep
<1>2. InlineMessageId(dto) = [kind |-> "id", dcId |-> id.dcId, id |-> id.id,
                              accessHash |-> id.accessHash]
  <2> HIDE DEF dto
  <2> QED BY <1>1 DEF InlineMessageId
<1>3. id.kind = "id" => id = [kind |-> "id", dcId |-> id.dcId, id |-> id.id,
                              accessHash |-> id.accessHash]
  BY DEF InlineId
<1>4. id.kind = "id64" => InlineMessageId(dto).kind = "id"
  BY <1>2
<1> HIDE DEF dto
<1>5. id.kind = "id64" => InlineMessageId(dto) # id
  BY <1>4
<1> QED BY <1>2, <1>3, <1>4, <1>5 DEF InlineIdIsSentBack, dto

\* With its owner, an id of the newer kind survives the crossing too.
THEOREM OwnedInlineIdsAreSentBack ==
    ASSUME NEW id \in InlineId, id.kind = "id64"
    PROVE  OwnedIdIsSentBack(id)
<1> DEFINE dto == With(InlineMessageIdDto(id), Field("ownerId", id.ownerId))
<1>1. /\ id = [kind |-> "id64", dcId |-> id.dcId, ownerId |-> id.ownerId,
               id |-> id.id, accessHash |-> id.accessHash]
      /\ id.id \in Int32
  BY DEF InlineId
<1>2. DOMAIN InlineMessageIdDto(id) = {"dcId", "accessHash", "id"}
  BY <1>1 DEF InlineMessageIdDto, Keep
<1>3. /\ "ownerId" \in DOMAIN dto
      /\ dto.ownerId = id.ownerId
      /\ dto.dcId = id.dcId
      /\ dto.id = id.id
      /\ dto.accessHash = id.accessHash
  BY <1>1, <1>2 DEF InlineMessageIdDto, Keep, With, Field
<1>4. Wrap32(id.id) = id.id
  <2>1. Half32 \in Nat /\ Half32 > 0 BY SMT DEF Half32, Million
  <2>2. id.id \in Int /\ -Half32 <= id.id /\ id.id < Half32
    BY <1>1, <2>1 DEF Int32
  <2>3. id.id + Half32 \in 0 .. (2 * Half32 - 1)
    BY <2>1, <2>2
  <2>4. (id.id + Half32) % (2 * Half32) = id.id + Half32
    BY <2>1, <2>3
  <2> QED BY <2>1, <2>2, <2>4 DEF Wrap32
<1> HIDE DEF dto
<1>5. InlineMessageId(dto)
          = [kind |-> "id64", dcId |-> id.dcId, ownerId |-> id.ownerId,
             id |-> id.id, accessHash |-> id.accessHash]
  BY <1>3, <1>4 DEF InlineMessageId
<1> QED BY <1>1, <1>5 DEF OwnedIdIsSentBack, dto

-----------------------------------------------------------------------------
(* Reply markups: what a caller asks for is what is built and read back.   *)

\* A record with each field of another, and its value, answers it.
LEMMA AnswersByFields ==
    ASSUME NEW dto, NEW spec,
           \A f \in DOMAIN spec : f \in DOMAIN dto /\ dto[f] = spec[f]
    PROVE  Answers(dto, spec)
BY DEF Answers, OrElse

\* A built inline button answers the specification it was built from
\* (ops/markup.rs:226, dto/markup.rs:201).
LEMMA InlineButtonAnswers ==
    ASSUME NEW spec \in InlineButtonSpec
    PROVE  Answers(InlineButtonDto(InlineButton(spec)), spec)
<1>1. CASE spec \in [kind : {"url", "webView"}, text : Text, url : Text]
  <2>1. spec = [kind |-> spec.kind, text |-> spec.text, url |-> spec.url]
    BY <1>1
  <2>2. InlineButton(spec) = spec
    BY <1>1, <2>1 DEF InlineButton
  <2>3. DOMAIN spec = {"kind", "text", "url"} BY <2>1
  <2>4. InlineFields[spec.kind] = {"url"} BY <1>1 DEF InlineFields
  <2>5. InlineButtonDto(spec) = Keep(spec, {"kind", "text", "url"})
    BY <1>1, <2>4 DEF InlineButtonDto
  <2> QED BY <2>2, <2>3, <2>5 DEF Keep, Answers, OrElse
<1>2. CASE spec \in [kind : {"callback"}, text : Text, data : Text]
  <2> DEFINE b == InlineButton(spec)
  <2>1. b = [kind |-> "callback", text |-> spec.text,
             data |-> spec.data, requiresPassword |-> FALSE]
    BY <1>2 DEF InlineButton
  <2>2. DOMAIN spec = {"kind", "text", "data"} /\ spec.kind = "callback"
    BY <1>2
  <2>3. b.kind = "callback" /\ b.data \in Text BY <1>2, <2>1
  <2>4. InlineFields["callback"] = {"data", "requiresPassword"}
    BY DEF InlineFields
  <2>5. InlineButtonDto(b)
            = Keep(b, {"kind", "text", "data", "requiresPassword"})
    BY <2>3, <2>4 DEF InlineButtonDto
  <2>6. InlineButtonDto(b) = b
    BY <2>1, <2>5 DEF Keep
  <2>7. \A f \in DOMAIN spec : f \in DOMAIN b /\ b[f] = spec[f]
    BY <2>1, <2>2
  <2> QED BY <2>6, <2>7, AnswersByFields
<1>3. CASE spec.kind = "switchInline"
  <2> DEFINE b == InlineButton(spec)
  <2>1. b = [kind |-> "switchInline", text |-> spec.text,
             query |-> spec.query,
             samePeer |-> OrElse(spec, "samePeer", TRUE)]
    BY <1>3 DEF InlineButton
  <2>2. DOMAIN spec \subseteq {"kind", "text", "query", "samePeer"}
    BY <1>3 DEF InlineButtonSpec
  <2>4. InlineFields["switchInline"] = {"query", "samePeer", "peerTypes"}
    BY DEF InlineFields
  <2>5. InlineButtonDto(b)
        = Keep(b, {"kind", "text", "query", "samePeer", "peerTypes"})
    BY <2>1, <2>4 DEF InlineButtonDto
  <2>6. InlineButtonDto(b) = b
    BY <2>1, <2>5 DEF Keep
  <2>7. "samePeer" \in DOMAIN spec => b.samePeer = spec.samePeer
    BY <2>1 DEF OrElse
  <2>8. \A f \in DOMAIN spec : f \in DOMAIN b /\ b[f] = spec[f]
    <3>1. DOMAIN b = {"kind", "text", "query", "samePeer"} BY <2>1
    <3>2. /\ b["kind"] = spec["kind"]
          /\ b["text"] = spec["text"]
          /\ b["query"] = spec["query"]
      BY <1>3, <2>1
    <3> HIDE DEF b
    <3> QED BY <2>2, <2>7, <3>1, <3>2
  <2> QED BY <2>6, <2>8, AnswersByFields
<1> QED BY <1>1, <1>2, <1>3 DEF InlineButtonSpec

\* A built keyboard button answers the specification it was built from
\* (ops/markup.rs:250, dto/markup.rs:268).
LEMMA KeyboardButtonAnswers ==
    ASSUME NEW spec \in KeyboardButtonSpec
    PROVE  Answers(KeyboardButtonDto(KeyboardButton(spec)), spec)
<1> DEFINE b == KeyboardButton(spec)
<1>1. CASE spec.kind = "requestPoll"
  <2>1. /\ DOMAIN spec = {"kind", "text", "quiz"}
        /\ spec.quiz \in BOOLEAN
    BY <1>1 DEF KeyboardButtonSpec
  <2>2. KeyboardFields["requestPoll"] = {"quiz"} BY DEF KeyboardFields
  <2>3. CASE spec.quiz
    <3>1. b = [kind |-> "requestPoll", text |-> spec.text, quiz |-> TRUE]
      BY <1>1, <2>3 DEF KeyboardButton
    <3>2. KeyboardButtonDto(b) = Keep(b, {"kind", "text", "quiz"})
      BY <2>2, <3>1 DEF KeyboardButtonDto
    <3>3. KeyboardButtonDto(b) = b BY <3>1, <3>2 DEF Keep
    <3>4. spec.quiz = TRUE BY <2>1, <2>3
    <3>5. \A f \in DOMAIN spec : f \in DOMAIN b /\ b[f] = spec[f]
      <4>1. DOMAIN b = {"kind", "text", "quiz"} BY <3>1
      <4>2. b["kind"] = spec["kind"] /\ b["text"] = spec["text"]
        BY <1>1, <3>1
      <4>3. b["quiz"] = TRUE BY <3>1
      <4> HIDE DEF b
      <4>4. b["quiz"] = spec["quiz"] BY <3>4, <4>3
      <4> QED BY <2>1, <4>1, <4>2, <4>4
    <3> QED BY <3>3, <3>5, AnswersByFields
  <2>4. CASE ~spec.quiz
    <3>1. b = [kind |-> "requestPoll", text |-> spec.text]
      BY <1>1, <2>4 DEF KeyboardButton
    <3>2. KeyboardButtonDto(b) = Keep(b, {"kind", "text", "quiz"})
      BY <2>2, <3>1 DEF KeyboardButtonDto
    <3>3. KeyboardButtonDto(b) = b BY <3>1, <3>2 DEF Keep
    <3>4. spec.quiz = FALSE BY <2>1, <2>4
    <3>5. OrElse(b, "quiz", FALSE) = FALSE BY <3>1 DEF OrElse
    <3>6. OrElse(b, "kind", FALSE) = spec.kind BY <1>1, <3>1 DEF OrElse
    <3>7. OrElse(b, "text", FALSE) = spec.text BY <3>1 DEF OrElse
    <3>8. \A f \in DOMAIN spec : OrElse(b, f, FALSE) = spec[f]
      <4> HIDE DEF b
      <4> QED BY <2>1, <3>4, <3>5, <3>6, <3>7
    <3>9. Answers(b, spec) BY <3>8 DEF Answers
    <3> QED BY <3>3, <3>9
  <2> QED BY <2>3, <2>4
<1>2. CASE spec.kind # "requestPoll"
  <2>1. spec = [kind |-> spec.kind, text |-> spec.text]
    BY <1>2 DEF KeyboardButtonSpec
  <2>2. spec.kind \in {"text", "requestPhone", "requestGeo"}
    BY <1>2 DEF KeyboardButtonSpec
  <2>3. b = spec BY <1>2, <2>1 DEF KeyboardButton
  <2>4. DOMAIN spec = {"kind", "text"} BY <2>1
  <2>5. KeyboardButtonDto(spec)
            = Keep(spec, {"kind", "text"} \cup KeyboardFields[spec.kind])
    BY DEF KeyboardButtonDto
  <2>6. Answers(KeyboardButtonDto(spec), spec)
    BY <2>4, <2>5 DEF Keep, Answers, OrElse
  <2> QED BY <2>3, <2>6
<1> QED BY <1>1, <1>2

\* A projection has the kind, the flags and the rows of its markup.
LEMMA ProjectedFields ==
    ASSUME NEW markup
    PROVE  /\ \A f \in {"kind", "rows", "fitSize", "singleUse", "selective"} :
                 /\ f \in DOMAIN ReplyMarkupDto(markup)
                 /\ ReplyMarkupDto(markup)[f] = MarkupFlags(markup)[f]
           /\ MarkupFlags(markup).kind = markup.kind
           /\ MarkupFlags(markup).rows = RowsDto(markup)
           /\ \A f \in {"fitSize", "singleUse", "selective"} :
                 f \in DOMAIN markup => MarkupFlags(markup)[f] = markup[f]
<1>1. DOMAIN MarkupFlags(markup) = {"kind", "rows", "fitSize", "singleUse",
                                    "selective", "persistent"}
  BY DEF MarkupFlags
<1>2. \A f \in {"kind", "rows", "fitSize", "singleUse", "selective"} :
          /\ f \in DOMAIN ReplyMarkupDto(markup)
          /\ ReplyMarkupDto(markup)[f] = MarkupFlags(markup)[f]
  BY <1>1 DEF ReplyMarkupDto
<1> QED BY <1>2 DEF MarkupFlags, OrElse

\* A markup the build operations make crosses back as the markup asked for:
\* the same kind, flags, rows, buttons and payloads (ops/markup.rs:149,
\* dto/markup.rs:147).
THEOREM BuiltMarkupReadsBack ==
    \A spec \in MarkupSpec : ReadsBack(spec)
<1> SUFFICES ASSUME NEW spec \in MarkupSpec PROVE ReadsBack(spec) OBVIOUS
<1> DEFINE m == ReplyMarkupFromSpec(spec)
<1>1. CASE spec \in [kind : {"inline"}, rows : Seq(Seq(InlineButtonSpec))]
  <2>1. m = [kind |-> "inline", rows |-> BuildRows(spec.rows, InlineButton)]
    BY <1>1 DEF ReplyMarkupFromSpec
  <2>2. RowsDto(m)
            = BuildRows(BuildRows(spec.rows, InlineButton), InlineButtonDto)
    BY <2>1 DEF RowsDto
  <2>3. \A i \in DOMAIN spec.rows : \A j \in DOMAIN spec.rows[i] :
            Answers(InlineButtonDto(InlineButton(spec.rows[i][j])),
                    spec.rows[i][j])
    BY <1>1, InlineButtonAnswers
  <2>4. RowsAnswer(RowsDto(m), spec.rows)
    BY <2>2, <2>3 DEF RowsAnswer, BuildRows
  <2>5. DOMAIN spec = {"kind", "rows"} /\ spec.kind = "inline" BY <1>1
  <2> HIDE DEF m
  <2>6. m.kind = "inline" BY <2>1
  <2>7. ReplyMarkupDto(m).kind = spec.kind
        /\ ReplyMarkupDto(m).rows = RowsDto(m)
    BY <2>5, <2>6, ProjectedFields
  <2> QED BY <2>4, <2>5, <2>7, ProjectedFields DEF ReadsBack, m
<1>2. CASE spec \in [kind : {"keyboard"}, rows : Seq(Seq(KeyboardButtonSpec)),
                     fitSize : BOOLEAN, singleUse : BOOLEAN,
                     selective : BOOLEAN]
  <2>1. m = ReplyKeyboardMarkup(spec) BY <1>2 DEF ReplyMarkupFromSpec
  <2>2. m.kind = "keyboard"
        /\ m.rows = BuildRows(spec.rows, KeyboardButton)
    BY <2>1 DEF ReplyKeyboardMarkup
  <2>3. \A f \in {"fitSize", "singleUse", "selective"} :
            f \in DOMAIN m /\ m[f] = spec[f]
    BY <2>1 DEF ReplyKeyboardMarkup
  <2>4. RowsDto(m) = BuildRows(BuildRows(spec.rows, KeyboardButton),
                               KeyboardButtonDto)
    BY <2>2 DEF RowsDto
  <2>5. \A i \in DOMAIN spec.rows : \A j \in DOMAIN spec.rows[i] :
            Answers(KeyboardButtonDto(KeyboardButton(spec.rows[i][j])),
                    spec.rows[i][j])
    BY <1>2, KeyboardButtonAnswers
  <2>6. RowsAnswer(RowsDto(m), spec.rows)
    BY <2>4, <2>5 DEF RowsAnswer, BuildRows
  <2>7. DOMAIN spec = {"kind", "rows", "fitSize", "singleUse", "selective"}
        /\ spec.kind = "keyboard"
    BY <1>2
  <2> HIDE DEF m
  <2>8. \A f \in {"kind", "fitSize", "singleUse", "selective"} :
            /\ f \in DOMAIN ReplyMarkupDto(m)
            /\ ReplyMarkupDto(m)[f] = spec[f]
    BY <2>2, <2>3, <2>7, ProjectedFields
  <2>9. "rows" \in DOMAIN ReplyMarkupDto(m)
        /\ ReplyMarkupDto(m).rows = RowsDto(m)
    BY ProjectedFields
  <2> QED BY <2>6, <2>7, <2>8, <2>9 DEF ReadsBack, m
<1>3. CASE spec \in [kind : {"forceReply"}, singleUse : BOOLEAN,
                     selective : BOOLEAN]
  <2>1. m = spec BY <1>3 DEF ReplyMarkupFromSpec, ForceReplyMarkup
  <2>2. DOMAIN spec = {"kind", "singleUse", "selective"} BY <1>3
  <2> QED BY <2>1, <2>2, ProjectedFields DEF ReadsBack
<1>4. CASE spec \in [kind : {"hide"}, selective : BOOLEAN]
  <2>1. m = spec BY <1>4 DEF ReplyMarkupFromSpec, HideKeyboardMarkup
  <2>2. DOMAIN spec = {"kind", "selective"} BY <1>4
  <2> QED BY <2>1, <2>2, ProjectedFields DEF ReadsBack
<1> QED BY <1>1, <1>2, <1>3, <1>4 DEF MarkupSpec

-----------------------------------------------------------------------------
(* The numbers peers go by, and the rights of members that are read,       *)
(* changed and written back.                                               *)

\* How the limits of the ranges stand to one another.
LEMMA Limits ==
    /\ Trillion \in Nat /\ Trillion > 0
    /\ MaxUser \in Nat /\ MaxChannel \in Nat /\ MinMonoforum \in Nat
    /\ 0 < MaxUser /\ MaxChannel < Trillion
    /\ Trillion < MinMonoforum /\ MinMonoforum < 3 * Trillion
    /\ Half32 \in Nat /\ Half32 > 0
BY SMT DEF Trillion, Million, MaxUser, MaxChannel, MinMonoforum, Half32

\* resolvePeer asks Telegram for the peer whose number it was given
\* (ops/chats.rs:598).
THEOREM NumbersNamePeers ==
    \A number \in Int : NumberIsOfThePeer(number)
<1> SUFFICES ASSUME NEW number \in Int, PeerIdAccepted(number)
             PROVE  DialogId(PeerIdFromBotApiId(number)) = number
  BY DEF NumberIsOfThePeer
<1>1. CASE number \in UserIds
  BY <1>1 DEF PeerIdFromBotApiId, DialogId
<1>2. CASE number \notin UserIds /\ -number \in ChatIds
  BY <1>2 DEF PeerIdFromBotApiId, DialogId
<1>3. CASE number \notin UserIds /\ -number \notin ChatIds
  BY <1>3, Limits DEF PeerIdFromBotApiId, DialogId
<1> QED BY <1>1, <1>2, <1>3

\* Every user, chat and channel can be asked for by its own number: the three
\* kinds' numbers do not meet (ops/chats.rs:598).
THEOREM PeersHaveNumbers ==
    \A peer \in [kind : {"user"}, id : UserIds]
           \cup [kind : {"chat"}, id : ChatIds]
           \cup [kind : {"channel"}, id : ChannelIds] : PeerIsOfTheNumber(peer)
<1>1. ASSUME NEW id \in UserIds
      PROVE  PeerIsOfTheNumber([kind |-> "user", id |-> id])
  <2>1. -id \notin ChatIds BY <1>1, Limits DEF ChatIds, UserIds
  <2> QED
    BY <1>1, <2>1
    DEF PeerIsOfTheNumber, PeerIdAccepted, PeerIdFromBotApiId, DialogId
<1>2. ASSUME NEW id \in ChatIds
      PROVE  PeerIsOfTheNumber([kind |-> "chat", id |-> id])
  <2>1. id \in Nat /\ -id \notin UserIds /\ -(-id) = id
    BY <1>2, Limits DEF ChatIds, UserIds
  <2> QED
    BY <1>2, <2>1
    DEF PeerIsOfTheNumber, PeerIdAccepted, PeerIdFromBotApiId, DialogId
<1>3. ASSUME NEW id \in ChannelIds
      PROVE  PeerIsOfTheNumber([kind |-> "channel", id |-> id])
  <2> DEFINE number == -Trillion - id
  <2>1. number \in Int /\ number \notin UserIds /\ -number \notin ChatIds
    BY <1>3, Limits DEF ChannelIds, ChatIds, UserIds
  <2>2. number \in ChannelNumbers /\ -number - Trillion = id
    BY <1>3, Limits DEF ChannelIds, ChannelNumbers
  <2>3. DialogId([kind |-> "channel", id |-> id]) = number BY DEF DialogId
  <2> HIDE DEF number
  <2> QED
    BY <2>1, <2>2, <2>3
    DEF PeerIsOfTheNumber, PeerIdAccepted, PeerIdFromBotApiId
<1> QED BY <1>1, <1>2, <1>3

\* A monoforum cannot be asked for by its number, although the code has a
\* range for those: written the wrong way round, it is empty
\* (ops/chats.rs:607).
THEOREM MonoforumsAreRefused ==
    \A id \in MonoforumIds :
        ~PeerIdAccepted(DialogId([kind |-> "channel", id |-> id]))
<1> SUFFICES ASSUME NEW id \in MonoforumIds
             PROVE  ~PeerIdAccepted(-Trillion - id)
  BY DEF DialogId
<1>1. MonoforumNumbers = {} BY Limits DEF MonoforumNumbers
<1>2. -Trillion - id \notin UserIds \cup ChannelNumbers
  BY Limits DEF MonoforumIds, UserIds, ChannelNumbers
<1>3. -(-Trillion - id) \notin ChatIds
  BY Limits DEF MonoforumIds, ChatIds
<1> QED BY <1>1, <1>2, <1>3 DEF PeerIdAccepted

\* What setAdminRights and setBannedRights write with the current rights
\* loaded is what was asked for, whatever the current rights are: loading
\* them changes nothing that is sent (ops/chats.rs:422 and 450).
THEOREM LoadingCurrentChangesNothing ==
    /\ \A current, requested \in AdminRights :
          MergeAdmin(current, requested) = requested
    /\ \A current, requested \in BannedRights :
          MergeBanned(current, requested) = requested
<1>1. ASSUME NEW current \in AdminRights, NEW requested \in AdminRights
      PROVE  MergeAdmin(current, requested) = requested
  BY DEF AdminRights, MergeAdmin
<1>2. ASSUME NEW current \in BannedRights, NEW requested \in BannedRights
      PROVE  MergeBanned(current, requested) = requested
  BY DEF BannedRights, MergeBanned
<1> QED BY <1>1, <1>2

\* Seconds survive their milliseconds, over the whole range of the TL field.
LEMMA SecondsSurvive ==
    ASSUME NEW seconds \in Int32 PROVE UntilDate(Millis(seconds)) = seconds
<1>1. seconds \in Int BY Limits DEF Int32
<1>2. TowardsZero(seconds * 1000, 1000) = seconds BY <1>1 DEF TowardsZero
<1>3. Wrap32(seconds) = seconds BY Limits DEF Wrap32, Int32
<1> QED BY <1>2, <1>3 DEF UntilDate, Millis

\* Rights and restrictions that are read and written back unchanged leave the
\* member as it was, the end of a restriction included
\* (dto/permissions.rs:122 and 191).
THEOREM RightsReadBack ==
    /\ \A rights \in AdminRights : AdminRightsReadBack(rights)
    /\ \A rights \in BannedRights : BannedRightsReadBack(rights)
<1>1. ASSUME NEW rights \in AdminRights PROVE AdminRightsReadBack(rights)
  BY DEF AdminRights, AdminRightsReadBack, ChatAdminRights,
         ChatPermissionsDto
<1>2. ASSUME NEW rights \in BannedRights PROVE BannedRightsReadBack(rights)
  <2>1. /\ rights.untilDate \in Int32
        /\ rights = [f \in BannedFlags \cup {"untilDate"} |-> rights[f]]
    BY DEF BannedRights
  <2>2. "untilDate" \notin BannedFlags BY DEF BannedFlags
  <2>3. UntilDate(Millis(rights.untilDate)) = rights.untilDate
    BY <2>1, SecondsSurvive
  <2>4. ChatRestrictionsDto(rights).untilDate = Millis(rights.untilDate)
    BY DEF ChatRestrictionsDto
  <2>5. \A f \in BannedFlags : ChatRestrictionsDto(rights)[f] = rights[f]
    BY <2>2 DEF ChatRestrictionsDto
  <2> QED
    BY <2>1, <2>3, <2>4, <2>5 DEF BannedRightsReadBack, ChatBannedRights
<1> QED BY <1>1, <1>2

-----------------------------------------------------------------------------
(* Requests.                                                               *)

\* A date is sent as the second it is in, which begins no later than the date and
\* ends after it, dates before the epoch included (ops/inline.rs:572,
\* ops/messages.rs:668).
THEOREM SecondsContainTheirDate ==
    \A millis \in Int :
        /\ Millis(EpochSeconds(millis)) <= millis
        /\ millis < Millis(EpochSeconds(millis) + 1)
BY SMT DEF Millis, EpochSeconds

\* Users are asked for each once, in the order in which their ids were given
\* first, however many ids there are and however often each (ops/users.rs:83).
THEOREM UsersAreAskedForOnce ==
    ASSUME NEW Id, NEW ids \in Seq(Id)
    PROVE  LET unique == UniqueIds(ids)
               IsFirst(i) == \A j \in 1 .. i - 1 : ids[j] # ids[i]
           IN  /\ unique \in Seq(Id)
               /\ \A i \in DOMAIN ids : \E k \in DOMAIN unique : unique[k] = ids[i]
               /\ \A k, l \in DOMAIN unique : k < l =>
                     \E i, j \in DOMAIN ids :
                        /\ i < j /\ IsFirst(i) /\ IsFirst(j)
                        /\ unique[k] = ids[i] /\ unique[l] = ids[j]
<1> DEFINE first == {i \in DOMAIN ids : \A j \in 1 .. i - 1 : ids[j] # ids[i]}
           unique == At(ids, first)
<1>1. DOMAIN ids = 1..Len(ids) /\ Len(ids) \in Nat OBVIOUS
<1>2. first \in SUBSET (DOMAIN ids) OBVIOUS
<1>3. UniqueIds(ids) = unique BY DEF UniqueIds
<1>4. \A i \in first : i \in DOMAIN ids /\ \A j \in 1 .. i - 1 : ids[j] # ids[i]
  OBVIOUS
<1>5. unique \in Seq(Id) /\ AreEntriesAt(unique, ids, first)
  <2> HIDE DEF first
  <2> QED BY <1>2, EntriesAtPlaces
<1>6. PICK place \in [DOMAIN unique -> first] :
            /\ \A k \in DOMAIN unique : unique[k] = ids[place[k]]
            /\ \A k, l \in DOMAIN unique : k < l => place[k] < place[l]
            /\ \A i \in first : \E k \in DOMAIN unique : place[k] = i
  BY <1>5 DEF AreEntriesAt
<1>7. ASSUME NEW i \in DOMAIN ids PROVE \E k \in DOMAIN unique : unique[k] = ids[i]
  <2> DEFINE same == {j \in DOMAIN ids : ids[j] = ids[i]}
  <2>1. same \in SUBSET Nat /\ same # {} BY <1>1
  <2>2. PICK f \in same : \A j \in same : f <= j
    <3> HIDE DEF same
    <3> QED BY <2>1, LeastNumber
  <2>3. f \in first
    <3>1. ASSUME NEW j \in 1 .. f - 1, ids[j] = ids[f] PROVE FALSE
      <4>1. j \in DOMAIN ids /\ j < f BY <1>1
      <4> QED BY <2>2, <3>1, <4>1
    <3> QED BY <3>1
  <2>4. ids[f] = ids[i] BY <2>2
  <2> HIDE DEF first, unique, same
  <2>5. PICK k \in DOMAIN unique : place[k] = f BY <1>6, <2>3
  <2> QED BY <1>6, <2>4, <2>5
<1> HIDE DEF first, unique
<1>8. \A k \in DOMAIN unique : place[k] \in first BY <1>6
<1>9. \A k, l \in DOMAIN unique : k < l =>
          \E i, j \in DOMAIN ids :
             /\ i < j
             /\ \A m \in 1 .. i - 1 : ids[m] # ids[i]
             /\ \A m \in 1 .. j - 1 : ids[m] # ids[j]
             /\ unique[k] = ids[i] /\ unique[l] = ids[j]
  BY <1>4, <1>6, <1>8
<1>10. unique \in Seq(Id) BY <1>5
<1> QED BY <1>3, <1>7, <1>9, <1>10

\* The message of a send is the first one the updates give the send's random id,
\* wherever in them it is; none is found only when none has it (ops/inline.rs:536).
THEOREM SentMessageIsFound ==
    ASSUME NEW Update, NEW list \in Seq(Update), NEW randomId
    PROVE  LET found == SentMessageId([kind |-> "updates", updates |-> list], randomId)
               Names(i) == list[i].kind = "messageId" /\ list[i].randomId = randomId
           IN  \/ found = None /\ \A i \in DOMAIN list : ~Names(i)
               \/ \E i \in DOMAIN list :
                     /\ Names(i) /\ found = Field("id", list[i].id)
                     /\ \A j \in 1 .. i - 1 : ~Names(j)
<1> DEFINE Names(i) == list[i].kind = "messageId" /\ list[i].randomId = randomId
           named == {i \in DOMAIN list : Names(i)}
           updates == [kind |-> "updates", updates |-> list]
           earliest == CHOOSE i \in named : \A j \in named : i <= j
<1>1. DOMAIN list = 1..Len(list) /\ Len(list) \in Nat OBVIOUS
<1>2. updates.kind \in {"updates", "combined"} /\ updates.updates = list OBVIOUS
<1> HIDE DEF updates
<1>3. SentMessageId(updates, randomId) =
         IF named = {} THEN None ELSE Field("id", list[earliest].id)
  BY <1>2 DEF SentMessageId
<1>4. CASE named = {}
  BY <1>3, <1>4 DEF updates
<1>5. CASE named # {}
  <2>1. named \in SUBSET Nat BY <1>1
  <2>2. earliest \in named /\ \A j \in named : earliest <= j
    <3> HIDE DEF named
    <3> QED BY <1>5, <2>1, LeastNumber
  <2>3. Names(earliest) /\ earliest \in DOMAIN list
    <3> HIDE DEF earliest
    <3> QED BY <2>2
  <2>4. ASSUME NEW j \in 1 .. earliest - 1 PROVE ~Names(j)
    <3> HIDE DEF earliest
    <3>1. j \in DOMAIN list /\ j < earliest BY <1>1, <2>3
    <3> QED BY <2>2, <3>1
  <2> HIDE DEF earliest
  <2>5. SentMessageId(updates, randomId) = Field("id", list[earliest].id)
    BY <1>3, <1>5
  <2> QED BY <2>3, <2>4, <2>5 DEF updates
<1> QED BY <1>4, <1>5

=============================================================================
