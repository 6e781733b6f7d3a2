------------------------- MODULE AuditWriterProofs -------------------------
(***************************************************************************)
(* The audit writer loses no event and writes no copy twice, and so keeps  *)
(* what the trail promises: TypeOK, NothingVanishes, RowsAreAccountedFor   *)
(* and ImplementsTrail of AuditWriter, for any events, batches and number  *)
(* of writer threads.                                                      *)
(***************************************************************************)
EXTENDS AuditWriter, SequenceTheorems, FiniteSetTheorems,
        WellFoundedInduction, TLAPS

----------------------------------------------------------------------------
(* The sequence operators of the model, as far as membership goes.         *)

\* Appending an event, as _buffer and the INSERT do, adds it and nothing else.
LEMMA AppendMembers ==
    ASSUME NEW S, NEW s \in Seq(S), NEW e \in S
    PROVE  /\ Append(s, e) \in Seq(S)
           /\ ToSet(Append(s, e)) = ToSet(s) \cup {e}
<1>1. DOMAIN Append(s, e) = DOMAIN s \cup {Len(s) + 1}
    OBVIOUS
<1>2. \A i \in DOMAIN s : Append(s, e)[i] = s[i]
    OBVIOUS
<1>3. Append(s, e)[Len(s) + 1] = e
    OBVIOUS
<1> QED
    BY <1>1, <1>2, <1>3 DEF ToSet

\* Dealing with the head of a sequence takes away no other member.
LEMMA HeadTailMembers ==
    ASSUME NEW S, NEW s \in Seq(S), s # <<>>
    PROVE  /\ Head(s) \in S
           /\ Tail(s) \in Seq(S)
           /\ ToSet(s) = {Head(s)} \cup ToSet(Tail(s))
<1>1. Len(s) \in Nat /\ Len(s) # 0 /\ DOMAIN s = 1 .. Len(s)
    OBVIOUS
<1>2. DOMAIN Tail(s) = 1 .. Len(s) - 1 /\ \A i \in 1 .. Len(s) - 1 : Tail(s)[i] = s[i + 1]
    BY <1>1
<1>3. Head(s) = s[1] /\ Head(s) \in S /\ Tail(s) \in Seq(S)
    BY <1>1
<1>4. ASSUME NEW i \in 1 .. Len(s)
      PROVE  s[i] \in {Head(s)} \cup ToSet(Tail(s))
    <2>1. CASE i = 1
        BY <1>3, <2>1
    <2>2. CASE i # 1
        <3>1. i - 1 \in 1 .. Len(s) - 1 /\ Tail(s)[i - 1] = s[i]
            BY <1>1, <1>2, <2>2
        <3> QED
            BY <1>2, <3>1 DEF ToSet
    <2> QED
        BY <2>1, <2>2
<1>5. ASSUME NEW i \in 1 .. Len(s) - 1
      PROVE  Tail(s)[i] \in ToSet(s)
    <2>1. i + 1 \in DOMAIN s /\ Tail(s)[i] = s[i + 1]
        BY <1>1, <1>2
    <2> QED
        BY <2>1 DEF ToSet
<1>6. Head(s) \in ToSet(s)
    BY <1>1, <1>3 DEF ToSet
<1> QED
    BY <1>1, <1>2, <1>3, <1>4, <1>5, <1>6 DEF ToSet

\* A nonempty set of natural numbers has a least element, the one Min chooses.
LEMMA MinOfNaturals ==
    ASSUME NEW I, I \subseteq Nat, I # {}
    PROVE  Min(I) \in I
<1> DEFINE R == {p \in Nat \X Nat : p[1] < p[2]}
<1>1. IsWellFoundedOn(R, Nat)
    BY NatLessThanWellFounded DEF OpToRel
<1>2. PICK x \in I : \A y \in I : ~(<<y, x>> \in R)
    BY <1>1, WFMin
<1>3. ASSUME NEW y \in I
      PROVE  x =< y
    <2>1. x \in Nat /\ y \in Nat
        BY <1>2
    <2>2. y < x => <<y, x>> \in R
        BY <2>1
    <2> QED
        BY <1>2, <2>1, <2>2
<1> QED
    BY <1>3 DEF Min

\* list.remove: the first copy goes, and the entries after it move up.
LEMMA RemoveFirstTakesOne ==
    ASSUME NEW S, NEW s \in Seq(S), NEW e, \E i \in 1 .. Len(s) : s[i] = e
    PROVE  \E k \in 1 .. Len(s) :
              /\ s[k] = e
              /\ RemoveFirst(s, e) \in Seq(S) /\ Len(RemoveFirst(s, e)) = Len(s) - 1
              /\ \A i \in 1 .. Len(RemoveFirst(s, e)) :
                    RemoveFirst(s, e)[i] = IF i < k THEN s[i] ELSE s[i + 1]
<1> DEFINE I == {i \in 1 .. Len(s) : s[i] = e}
           k == Min(I)
           r == SubSeq(s, 1, k - 1) \o SubSeq(s, k + 1, Len(s))
<1>1. I # {} /\ I \subseteq Nat
    OBVIOUS
<1>2. k \in 1 .. Len(s) /\ s[k] = e
    BY <1>1, MinOfNaturals
<1>3. RemoveFirst(s, e) = r
    BY <1>1 DEF RemoveFirst, RemoveAt, SelectInSeq
<1> HIDE DEF k, I
<1>4. /\ Len(r) = Len(s) - 1
      /\ r \in Seq(S)
      /\ \A i \in 1 .. k - 1 : r[i] = s[i]
      /\ \A i \in k .. Len(s) - 1 : r[i] = s[i + 1]
    <2> DEFINE a == SubSeq(s, 1, k - 1)
               b == SubSeq(s, k + 1, Len(s))
    <2>1. Len(s) \in Nat /\ k \in Nat /\ 1 <= k /\ k <= Len(s)
        BY <1>2
    <2>2. a \in Seq(S) /\ Len(a) = k - 1 /\ \A i \in 1 .. k - 1 : a[i] = s[i]
        BY <2>1
    <2>3. /\ b \in Seq(S) /\ Len(b) = Len(s) - k
          /\ \A i \in 1 .. Len(s) - k : b[i] = s[k + i]
        BY <2>1
    <2> HIDE DEF a, b
    <2>4. /\ a \o b \in Seq(S)
          /\ Len(a \o b) = Len(s) - 1
          /\ \A i \in 1 .. k - 1 : (a \o b)[i] = a[i]
          /\ \A i \in k .. Len(s) - 1 : (a \o b)[i] = b[i - (k - 1)]
        <3>1. a \o b \in Seq(S) /\ Len(a \o b) = Len(a) + Len(b)
            BY <2>2, <2>3, ConcatProperties
        <3>2. \A i \in 1 .. Len(a) + Len(b) :
                (a \o b)[i] = IF i <= Len(a) THEN a[i] ELSE b[i - Len(a)]
            BY <2>2, <2>3, ConcatProperties
        <3>3. Len(a) + Len(b) = Len(s) - 1
            BY <2>1, <2>2, <2>3
        <3>4. \A i \in 1 .. k - 1 : i \in 1 .. Len(s) - 1 /\ i <= Len(a)
            BY <2>1, <2>2
        <3>5. \A i \in k .. Len(s) - 1 : i \in 1 .. Len(s) - 1 /\ ~(i <= Len(a))
            BY <2>1, <2>2
        <3> QED
            BY <2>2, <3>1, <3>2, <3>3, <3>4, <3>5
    <2>5. \A i \in k .. Len(s) - 1 : i - (k - 1) \in 1 .. Len(s) - k /\ k + (i - (k - 1)) = i + 1
        BY <2>1
    <2> QED
        BY <2>2, <2>3, <2>4, <2>5 DEF a, b
<1>5. \A i \in 1 .. Len(r) : r[i] = IF i < k THEN s[i] ELSE s[i + 1]
    <2> HIDE DEF r
    <2>1. Len(s) \in Nat /\ k \in 1 .. Len(s)
        BY <1>2
    <2> SUFFICES ASSUME NEW i \in 1 .. Len(r)
                 PROVE  r[i] = IF i < k THEN s[i] ELSE s[i + 1]
        OBVIOUS
    <2>2. CASE i < k
        <3>1. i \in 1 .. k - 1
            BY <1>4, <2>1, <2>2
        <3> QED
            BY <1>4, <2>2, <3>1
    <2>3. CASE ~(i < k)
        <3>1. i \in k .. Len(s) - 1
            BY <1>4, <2>1, <2>3
        <3> QED
            BY <1>4, <2>3, <3>1
    <2> QED
        BY <2>2, <2>3
<1> HIDE DEF r
<1> QED
    BY <1>2, <1>3, <1>4, <1>5

\* ... so it takes away one member at most, and gives a sequence again.
LEMMA RemoveFirstMembers ==
    ASSUME NEW S, NEW s \in Seq(S), NEW e
    PROVE  /\ RemoveFirst(s, e) \in Seq(S)
           /\ ToSet(s) \subseteq ToSet(RemoveFirst(s, e)) \cup {e}
<1>1. CASE ~\E i \in 1 .. Len(s) : s[i] = e
    BY <1>1 DEF RemoveFirst
<1>2. CASE \E i \in 1 .. Len(s) : s[i] = e
    <2> DEFINE r == RemoveFirst(s, e)
    <2>1. PICK k \in 1 .. Len(s) :
              /\ s[k] = e /\ r \in Seq(S) /\ Len(r) = Len(s) - 1
              /\ \A i \in 1 .. Len(r) : r[i] = IF i < k THEN s[i] ELSE s[i + 1]
        BY <1>2, RemoveFirstTakesOne
    <2> HIDE DEF r
    <2>2. ASSUME NEW i \in 1 .. Len(s), s[i] # e
          PROVE  \E j \in 1 .. Len(r) : r[j] = s[i]
        <3>1. CASE i < k
            <4>1. i \in 1 .. Len(r)
                BY <2>1, <3>1
            <4> QED
                BY <2>1, <3>1, <4>1
        <3>2. CASE i > k
            <4>1. i - 1 \in 1 .. Len(r) /\ ~(i - 1 < k) /\ (i - 1) + 1 = i
                BY <2>1, <3>2
            <4> QED
                BY <2>1, <4>1
        <3> QED
            BY <2>1, <2>2, <3>1, <3>2
    <2> QED
        BY <2>1, <2>2 DEF r, ToSet
<1> QED
    BY <1>1, <1>2

\* ... and adds none.
LEMMA RemoveFirstShrinks ==
    ASSUME NEW S, NEW s \in Seq(S), NEW e
    PROVE  ToSet(RemoveFirst(s, e)) \subseteq ToSet(s)
<1>1. CASE ~\E i \in 1 .. Len(s) : s[i] = e
    BY <1>1 DEF RemoveFirst
<1>2. CASE \E i \in 1 .. Len(s) : s[i] = e
    <2> DEFINE r == RemoveFirst(s, e)
    <2>1. PICK k \in 1 .. Len(s) :
              /\ s[k] = e /\ r \in Seq(S) /\ Len(r) = Len(s) - 1
              /\ \A i \in 1 .. Len(r) : r[i] = IF i < k THEN s[i] ELSE s[i + 1]
        BY <1>2, RemoveFirstTakesOne
    <2> HIDE DEF r
    <2>2. ASSUME NEW i \in 1 .. Len(r)
          PROVE  \E j \in 1 .. Len(s) : s[j] = r[i]
        <3>1. i \in 1 .. Len(s) /\ i + 1 \in 1 .. Len(s)
            BY <2>1
        <3> QED
            BY <2>1, <3>1
    <2>3. ToSet(r) = {r[i] : i \in 1 .. Len(r)} /\ ToSet(s) = {s[j] : j \in 1 .. Len(s)}
        BY <2>1 DEF ToSet
    <2>4. ToSet(r) \subseteq ToSet(s)
        BY ONLY <2>2, <2>3
    <2> QED
        BY <2>4 DEF r
<1> QED
    BY <1>1, <1>2

\* Occurrences counts: it is a number, and positive exactly for a member.
LEMMA OccurrencesCounts ==
    ASSUME NEW S, NEW s \in Seq(S), NEW e
    PROVE  /\ Occurrences(s, e) \in Nat
           /\ Occurrences(s, e) > 0 <=> e \in ToSet(s)
<1> DEFINE I == {i \in DOMAIN s : s[i] = e}
<1>1. Len(s) \in Nat /\ DOMAIN s = 1 .. Len(s) /\ I \subseteq 1 .. Len(s)
    OBVIOUS
<1>2. IsFiniteSet(I)
    <2>1. IsFiniteSet(1 .. Len(s))
        BY <1>1, FS_Interval
    <2> QED
        BY <1>1, <2>1, FS_Subset
<1>3. Cardinality(I) \in Nat /\ (Cardinality(I) = 0 <=> I = {})
    BY <1>2, FS_CardinalityType, FS_EmptySet
<1>4. I = {} <=> e \notin ToSet(s)
    BY DEF ToSet
<1> QED
    BY <1>3, <1>4 DEF Occurrences

----------------------------------------------------------------------------
(* Counting the copies of an event.                                        *)

\* Renumbering keeps the number of places.
LEMMA Renumbered ==
    ASSUME NEW S, NEW T, IsFiniteSet(S), NEW f \in [S -> T],
           \A x, y \in S : f[x] = f[y] => x = y,
           \A t \in T : \E x \in S : f[x] = t
    PROVE  IsFiniteSet(T) /\ Cardinality(T) = Cardinality(S)
<1>1. f \in Bijection(S, T)
    BY DEF Bijection, Injection, Surjection, IsInjective
<1> QED
    BY <1>1, FS_Bijection DEF ExistsBijection

\* Taking the k-th entry out of a sequence takes away one copy of that entry and no
\* copy of another.
LEMMA OccurrencesWithout ==
    ASSUME NEW S, NEW s \in Seq(S), NEW r \in Seq(S), NEW e, NEW k \in 1 .. Len(s),
           Len(r) = Len(s) - 1,
           \A i \in 1 .. Len(r) : r[i] = IF i < k THEN s[i] ELSE s[i + 1]
    PROVE  Occurrences(s, e) = Occurrences(r, e) + IF s[k] = e THEN 1 ELSE 0
<1> DEFINE I == {i \in DOMAIN s : s[i] = e}
           J == {i \in DOMAIN r : r[i] = e}
           f == [i \in J |-> IF i < k THEN i ELSE i + 1]
<1>1. /\ Len(s) \in Nat /\ Len(r) \in Nat /\ k \in Nat
      /\ DOMAIN s = 1 .. Len(s) /\ DOMAIN r = 1 .. Len(r)
    OBVIOUS
<1>2. IsFiniteSet(I) /\ IsFiniteSet(J)
    <2>1. IsFiniteSet(1 .. Len(s)) /\ IsFiniteSet(1 .. Len(r))
        BY <1>1, FS_Interval
    <2> QED
        BY <1>1, <2>1, FS_Subset
<1>3. f \in [J -> I \ {k}]
    <2> SUFFICES ASSUME NEW i \in J
                 PROVE  (IF i < k THEN i ELSE i + 1) \in I \ {k}
        OBVIOUS
    <2>1. i \in 1 .. Len(r) /\ r[i] = e
        BY <1>1
    <2>2. CASE i < k
        BY <1>1, <2>1, <2>2
    <2>3. CASE ~(i < k)
        BY <1>1, <2>1, <2>3
    <2> QED
        BY <2>2, <2>3
<1>4. \A x, y \in J : f[x] = f[y] => x = y
    BY <1>1
<1>5. \A t \in I \ {k} : \E x \in J : f[x] = t
    <2> SUFFICES ASSUME NEW t \in I \ {k}
                 PROVE  \E x \in J : f[x] = t
        OBVIOUS
    <2>1. t \in 1 .. Len(s) /\ s[t] = e /\ t # k
        BY <1>1
    <2>2. CASE t < k
        <3>1. t \in J
            BY <1>1, <2>1, <2>2
        <3> QED
            BY <3>1, <2>2
    <2>3. CASE t > k
        <3>1. t - 1 \in J /\ ~(t - 1 < k) /\ (t - 1) + 1 = t
            BY <1>1, <2>1, <2>3
        <3> QED
            BY <3>1
    <2>4. t < k \/ t > k
        BY <1>1, <2>1
    <2> QED
        BY <2>2, <2>3, <2>4
<1>6. Cardinality(I \ {k}) = Cardinality(J)
    <2> HIDE DEF f, I, J
    <2> QED
        BY <1>2, <1>3, <1>4, <1>5, Renumbered
<1>7. Cardinality(I \ {k}) = IF k \in I THEN Cardinality(I) - 1 ELSE Cardinality(I)
    BY <1>2, FS_RemoveElement
<1>8. k \in I <=> s[k] = e
    BY <1>1
<1>9. Cardinality(I) \in Nat /\ Cardinality(J) \in Nat
    BY <1>2, FS_CardinalityType
<1>10. Occurrences(s, e) = Cardinality(I) /\ Occurrences(r, e) = Cardinality(J)
    BY DEF Occurrences
<1> HIDE DEF I, J, f
<1> QED
    BY <1>6, <1>7, <1>8, <1>9, <1>10

\* _buffer and the INSERT add one copy.
LEMMA OccurrencesAppend ==
    ASSUME NEW S, NEW s \in Seq(S), NEW x \in S, NEW e
    PROVE  Occurrences(Append(s, x), e) = Occurrences(s, e) + IF x = e THEN 1 ELSE 0
<1> DEFINE a == Append(s, x)
<1>1. /\ a \in Seq(S) /\ Len(s) \in Nat /\ Len(a) = Len(s) + 1 /\ a[Len(a)] = x
      /\ \A i \in 1 .. Len(s) : a[i] = s[i]
    OBVIOUS
<1>2. Len(a) \in 1 .. Len(a) /\ Len(s) = Len(a) - 1
    BY <1>1
<1>3. \A i \in 1 .. Len(s) : s[i] = IF i < Len(a) THEN a[i] ELSE a[i + 1]
    BY <1>1
<1> HIDE DEF a
<1>4. Occurrences(a, e) = Occurrences(s, e) + IF a[Len(a)] = e THEN 1 ELSE 0
    BY <1>1, <1>2, <1>3, OccurrencesWithout
<1> QED
    BY <1>1, <1>4 DEF a

\* Dealing with the head of a batch or of the snapshot takes away one copy.
LEMMA OccurrencesTail ==
    ASSUME NEW S, NEW s \in Seq(S), s # <<>>, NEW e
    PROVE  Occurrences(s, e) = Occurrences(Tail(s), e) + IF Head(s) = e THEN 1 ELSE 0
<1> DEFINE rest == Tail(s)
<1>1. /\ 1 \in 1 .. Len(s) /\ Head(s) = s[1] /\ rest \in Seq(S)
      /\ Len(rest) = Len(s) - 1 /\ Len(s) \in Nat
      /\ \A i \in 1 .. Len(rest) : rest[i] = s[i + 1]
    OBVIOUS
<1> HIDE DEF rest
<1>2. \A i \in 1 .. Len(rest) : rest[i] = IF i < 1 THEN s[i] ELSE s[i + 1]
    BY <1>1
<1>3. PICK k \in 1 .. Len(s) : k = 1
    BY <1>1
<1>4. Occurrences(s, e) = Occurrences(rest, e) + IF s[k] = e THEN 1 ELSE 0
    <2>1. s \in Seq(S) /\ rest \in Seq(S) /\ Len(rest) = Len(s) - 1
        BY <1>1
    <2>2. \A i \in 1 .. Len(rest) : rest[i] = IF i < k THEN s[i] ELSE s[i + 1]
        BY <1>2, <1>3
    <2>3. k \in 1 .. Len(s)
        BY <1>3
    <2> QED
        BY ONLY <2>1, <2>2, <2>3, OccurrencesWithout
<1> QED
    BY <1>1, <1>3, <1>4 DEF rest

\* RemoveFlushed takes one copy of its event away, if there is one.
LEMMA OccurrencesRemoveFirst ==
    ASSUME NEW S, NEW s \in Seq(S), NEW x, NEW e
    PROVE  Occurrences(RemoveFirst(s, x), e) =
               Occurrences(s, e) - IF x = e /\ Occurrences(s, e) > 0 THEN 1 ELSE 0
<1> DEFINE rest == RemoveFirst(s, x)
<1>1. Occurrences(s, e) \in Nat /\ (Occurrences(s, e) > 0 <=> e \in ToSet(s))
    BY OccurrencesCounts
<1>2. CASE ~\E i \in 1 .. Len(s) : s[i] = x
    <2>1. rest = s
        BY <1>2 DEF RemoveFirst
    <2>2. x = e => e \notin ToSet(s)
        BY <1>2 DEF ToSet
    <2> QED
        BY <1>1, <2>1, <2>2
<1>3. CASE \E i \in 1 .. Len(s) : s[i] = x
    <2>1. PICK k \in 1 .. Len(s) :
              /\ s[k] = x /\ rest \in Seq(S) /\ Len(rest) = Len(s) - 1
              /\ \A i \in 1 .. Len(rest) : rest[i] = IF i < k THEN s[i] ELSE s[i + 1]
        BY <1>3, RemoveFirstTakesOne
    <2> HIDE DEF rest
    <2>2. Occurrences(s, e) = Occurrences(rest, e) + IF s[k] = e THEN 1 ELSE 0
        <3>1. k \in 1 .. Len(s) /\ rest \in Seq(S) /\ Len(rest) = Len(s) - 1
            BY <2>1
        <3>2. \A i \in 1 .. Len(rest) : rest[i] = IF i < k THEN s[i] ELSE s[i + 1]
            BY <2>1
        <3> QED
            BY ONLY <3>1, <3>2, OccurrencesWithout, s \in Seq(S)
    <2>3. Occurrences(rest, e) \in Nat
        BY <2>1, OccurrencesCounts
    <2> QED
        BY <1>1, <2>1, <2>2, <2>3 DEF rest
<1> QED
    BY <1>2, <1>3

\* A copy is a place in the batch of a writer where the event stands.
LEMMA CopiesMember ==
    ASSUME NEW f \in [Writers -> Seq(Events)], NEW e, NEW c
    PROVE  c \in Copies(f, e) <=>
               \E w \in Writers : \E i \in DOMAIN f[w] : c = <<w, i>> /\ f[w][i] = e
<1>1. ASSUME c \in Copies(f, e)
      PROVE  \E w \in Writers : \E i \in DOMAIN f[w] : c = <<w, i>> /\ f[w][i] = e
    <2>1. PICK w \in Writers : c \in {w} \X DOMAIN f[w]
        BY <1>1 DEF Copies
    <2>2. f[c[1]][c[2]] = e
        BY <1>1 DEF Copies
    <2> QED
        BY <2>1, <2>2
<1>2. ASSUME NEW w \in Writers, NEW i \in DOMAIN f[w], c = <<w, i>>, f[w][i] = e
      PROVE  c \in Copies(f, e)
    <2>1. c \in {w} \X DOMAIN f[w]
        BY <1>2
    <2>2. c \in UNION {{v} \X DOMAIN f[v] : v \in Writers}
        BY <2>1
    <2> QED
        BY <1>2, <2>2 DEF Copies
<1> QED
    BY <1>1, <1>2

\* The writers hold finitely many copies.
LEMMA CopiesFinite ==
    ASSUME NEW f \in [Writers -> Seq(Events)], NEW e
    PROVE  IsFiniteSet(Copies(f, e)) /\ Cardinality(Copies(f, e)) \in Nat
<1> DEFINE places == [w \in Writers |-> {w} \X DOMAIN f[w]]
           P == {{w} \X DOMAIN f[w] : w \in Writers}
<1>1. IsFiniteSet(P)
    <2>1. places \in Surjection(Writers, P)
        BY DEF Surjection
    <2> QED
        BY <2>1, FS_Surjection, AuditAssumption
<1>2. \A p \in P : IsFiniteSet(p)
    <2> SUFFICES ASSUME NEW w \in Writers
                 PROVE  IsFiniteSet({w} \X DOMAIN f[w])
        OBVIOUS
    <2>1. Len(f[w]) \in Nat /\ DOMAIN f[w] = 1 .. Len(f[w])
        OBVIOUS
    <2>2. IsFiniteSet(DOMAIN f[w])
        BY <2>1, FS_Interval
    <2> QED
        BY <2>2, FS_Singleton, FS_Product
<1>3. IsFiniteSet(UNION P)
    BY <1>1, <1>2, FS_UNION
<1>4. Copies(f, e) \subseteq UNION P
    BY DEF Copies
<1> QED
    BY <1>3, <1>4, FS_Subset, FS_CardinalityType

\* The copies that a writer holds are the copies in its batch.
LEMMA CopiesSplit ==
    ASSUME NEW f \in [Writers -> Seq(Events)], NEW e, NEW w \in Writers
    PROVE  Cardinality(Copies(f, e)) =
               Cardinality({c \in Copies(f, e) : c[1] # w}) + Occurrences(f[w], e)
<1> DEFINE C == Copies(f, e)
           M == {c \in C : c[1] = w}
           R == {c \in C : c[1] # w}
           I == {i \in DOMAIN f[w] : f[w][i] = e}
           g == [i \in I |-> <<w, i>>]
<1>1. IsFiniteSet(C) /\ IsFiniteSet(M) /\ IsFiniteSet(R)
    BY CopiesFinite, FS_Subset
<1>2. IsFiniteSet(I)
    <2>1. Len(f[w]) \in Nat /\ DOMAIN f[w] = 1 .. Len(f[w])
        OBVIOUS
    <2>2. IsFiniteSet(1 .. Len(f[w])) /\ I \subseteq 1 .. Len(f[w])
        BY <2>1, FS_Interval
    <2> HIDE DEF I
    <2> QED
        BY <2>2, FS_Subset
<1>3. Cardinality(M) = Cardinality(I)
    <2>1. g \in [I -> M]
        <3> SUFFICES ASSUME NEW i \in I PROVE <<w, i>> \in M
            OBVIOUS
        <3>1. <<w, i>> \in C
            BY CopiesMember
        <3> QED
            BY <3>1
    <2>2. \A x, y \in I : g[x] = g[y] => x = y
        OBVIOUS
    <2>3. \A t \in M : \E x \in I : g[x] = t
        <3> SUFFICES ASSUME NEW t \in M PROVE \E x \in I : t = <<w, x>>
            OBVIOUS
        <3>1. \E v \in Writers : \E i \in DOMAIN f[v] : t = <<v, i>> /\ f[v][i] = e
            BY CopiesMember
        <3>2. t[1] = w
            OBVIOUS
        <3> QED
            BY <3>1, <3>2
    <2> HIDE DEF g, I, M
    <2> QED
        BY <1>2, <2>1, <2>2, <2>3, Renumbered
<1>4. C = M \cup R /\ M \cap R = {}
    OBVIOUS
<1>5. Cardinality(C) = Cardinality(M) + Cardinality(R) - Cardinality(M \cap R)
    BY <1>1, <1>4, FS_Union
<1>6. Cardinality(M) \in Nat /\ Cardinality(R) \in Nat /\ Cardinality(M \cap R) = 0
    BY <1>1, <1>4, FS_CardinalityType, FS_EmptySet
<1>7. Occurrences(f[w], e) = Cardinality(I)
    BY DEF Occurrences
<1> HIDE DEF C, M, R, I, g
<1> QED
    BY <1>3, <1>5, <1>6, <1>7 DEF C, R

\* Writers whose batches agree hold the same copies.
LEMMA CopiesElsewhere ==
    ASSUME NEW f \in [Writers -> Seq(Events)], NEW g \in [Writers -> Seq(Events)],
           NEW w, \A v \in Writers : v # w => g[v] = f[v], NEW e
    PROVE  \A c : c[1] # w => (c \in Copies(f, e) <=> c \in Copies(g, e))
<1> SUFFICES ASSUME NEW c, c[1] # w
             PROVE  c \in Copies(f, e) <=> c \in Copies(g, e)
    OBVIOUS
<1>1. c \in Copies(f, e) <=>
        \E v \in Writers : \E i \in DOMAIN f[v] : c = <<v, i>> /\ f[v][i] = e
    BY CopiesMember
<1>2. c \in Copies(g, e) <=>
        \E v \in Writers : \E i \in DOMAIN g[v] : c = <<v, i>> /\ g[v][i] = e
    BY CopiesMember
<1>3. \A v, i : c = <<v, i>> => c[1] = v
    OBVIOUS
<1> QED
    BY <1>1, <1>2, <1>3

\* Giving a writer another batch exchanges its copies and leaves those of the others.
LEMMA CopiesUpdate ==
    ASSUME NEW f \in [Writers -> Seq(Events)], NEW w \in Writers, NEW t \in Seq(Events), NEW e
    PROVE  Cardinality(Copies([f EXCEPT ![w] = t], e)) =
               Cardinality(Copies(f, e)) - Occurrences(f[w], e) + Occurrences(t, e)
<1>1. PICK g \in [Writers -> Seq(Events)] : g = [f EXCEPT ![w] = t]
    OBVIOUS
<1>2. g[w] = t /\ \A v \in Writers : v # w => g[v] = f[v]
    BY <1>1
<1> DEFINE Rf == {c \in Copies(f, e) : c[1] # w}
           Rg == {c \in Copies(g, e) : c[1] # w}
<1>3. Rf = Rg
    <2>1. \A c : c[1] # w => (c \in Copies(f, e) <=> c \in Copies(g, e))
        BY <1>2, CopiesElsewhere
    <2> QED
        BY <2>1
<1>4. Cardinality(Copies(f, e)) = Cardinality(Rf) + Occurrences(f[w], e)
    BY CopiesSplit
<1>5. Cardinality(Copies(g, e)) = Cardinality(Rg) + Occurrences(t, e)
    <2>1. Cardinality(Copies(g, e)) = Cardinality(Rg) + Occurrences(g[w], e)
        BY <1>1, CopiesSplit
    <2> QED
        BY <1>1, <2>1
<1>6. Cardinality(Rf) \in Nat /\ Occurrences(f[w], e) \in Nat /\ Occurrences(t, e) \in Nat
    <2>1. IsFiniteSet(Rf)
        BY CopiesFinite, FS_Subset
    <2>2. f[w] \in Seq(Events)
        OBVIOUS
    <2> QED
        BY <2>1, <2>2, FS_CardinalityType, OccurrencesCounts
<1> HIDE DEF Rf, Rg
<1> QED
    BY <1>1, <1>3, <1>4, <1>5, <1>6

----------------------------------------------------------------------------
(* One attempt to persist an event.                                        *)

\* An attempt that returns has settled the event; no row or discard is undone.
LEMMA PersistReturnsSettles ==
    ASSUME TypeOK, NEW e \in Events, PersistReturns(e)
    PROVE  /\ auditLog' \in Seq(Events) /\ discarded' \subseteq Events
           /\ ambiguous' \in [Events -> Nat]
           /\ ToSet(auditLog) \cup discarded \subseteq ToSet(auditLog') \cup discarded'
           /\ e \in ToSet(auditLog') \cup discarded'
<1>1. CASE Written(e)
    BY <1>1, AppendMembers DEF TypeOK, Written
<1>2. CASE GuardDiscards(e)
    BY <1>2 DEF TypeOK, GuardDiscards
<1> QED
    BY <1>1, <1>2 DEF PersistReturns

\* An attempt that raises undoes nothing either.
LEMMA PersistRaisesKeeps ==
    ASSUME TypeOK, NEW e \in Events, PersistRaises(e)
    PROVE  /\ auditLog' \in Seq(Events) /\ discarded' \subseteq Events
           /\ ambiguous' \in [Events -> Nat]
           /\ ToSet(auditLog) \cup discarded \subseteq ToSet(auditLog') \cup discarded'
<1>1. CASE CommittedButRaised(e)
    BY <1>1, AppendMembers DEF TypeOK, CommittedButRaised
<1>2. CASE RaisedOnly(e)
    BY <1>2 DEF TypeOK, RaisedOnly
<1> QED
    BY <1>1, <1>2 DEF PersistRaises

----------------------------------------------------------------------------

\* InMemory, member by member.
LEMMA InMemoryMember ==
    ASSUME NEW e
    PROVE  e \in InMemory <=> e \in ToSet(buffer) \/ \E w \in Writers : e \in ToSet(todo[w])
BY DEF InMemory

\* A fresh AuditWriter satisfies the invariant.
LEMMA InitAuditInv == Init => AuditInv
<1> SUFFICES ASSUME Init PROVE AuditInv
    OBVIOUS
<1>1. TypeOK
    <2>1. <<>> \in Seq(Events)
        OBVIOUS
    <2>2. /\ todo \in [Writers -> Seq(Events)]
          /\ wpc \in [Writers -> {"check", "persist", "buffer"}]
          /\ submitted \in [Events -> Nat] /\ ambiguous \in [Events -> Nat]
        BY <2>1 DEF Init
    <2> QED
        BY <2>1, <2>2 DEF Init, TypeOK
<1>2. Accepted = {}
    BY DEF Init, Accepted
<1> QED
    BY <1>1, <1>2 DEF AuditInv, NothingVanishes, FlushedIsSettled, Init

\* Every step keeps the invariant.
LEMMA NextAuditInv == AuditInv /\ [Next]_vars => AuditInv'
<1> SUFFICES ASSUME AuditInv, [Next]_vars PROVE AuditInv'
    OBVIOUS
<1>0. TypeOK /\ NothingVanishes /\ FlushedIsSettled
    BY DEF AuditInv
<1> USE <1>0
<1>1. ASSUME NEW w \in Writers, StartWrite(w)
      PROVE  AuditInv'
    <2>1. PICK b \in Batches :
            /\ todo' = [todo EXCEPT ![w] = b]
            /\ submitted' = [e \in Events |-> submitted[e] + Occurrences(b, e)]
        BY <1>1 DEF StartWrite
    <2>2. b \in Seq(Events)
        BY AuditAssumption
    <2>3. TypeOK'
        BY <1>1, <2>1, <2>2, OccurrencesCounts DEF TypeOK, StartWrite, flushVars
    <2>4. ASSUME NEW e \in Accepted'
          PROVE  e \in ToSet(auditLog') \cup discarded' \cup InMemory' \cup lost'
        <3>1. e \in Accepted \/ e \in ToSet(b)
            BY <2>1, <2>2, <2>4, OccurrencesCounts DEF Accepted, TypeOK
        <3>2. CASE e \in ToSet(b)
            BY <2>1, <3>2 DEF InMemory, TypeOK
        <3>3. CASE e \in Accepted
            <4>1. e \in InMemory => e \in InMemory'
                BY <1>1, <2>1 DEF InMemory, StartWrite, TypeOK, ToSet
            <4> QED
                BY <1>1, <3>3, <4>1 DEF NothingVanishes, StartWrite
        <3> QED
            BY <3>1, <3>2, <3>3
    <2>5. FlushedIsSettled'
        BY <1>1 DEF FlushedIsSettled, StartWrite, flushVars
    <2> QED
        BY <2>3, <2>4, <2>5 DEF AuditInv, NothingVanishes
<1>2. ASSUME NEW w \in Writers, CheckAvailable(w)
      PROVE  AuditInv'
    BY <1>2 DEF AuditInv, CheckAvailable, TypeOK, NothingVanishes, FlushedIsSettled,
                flushVars, Accepted, InMemory
\* A writer's attempt, returned or raised, leaves all but the head of its batch.
<1>3. ASSUME NEW w \in Writers, WriterPersists(w)
      PROVE  AuditInv'
    <2> DEFINE h == Head(todo[w])
    <2>1. /\ h \in Events /\ Tail(todo[w]) \in Seq(Events)
          /\ ToSet(todo[w]) = {h} \cup ToSet(Tail(todo[w]))
        BY <1>3, HeadTailMembers DEF TypeOK, WriterPersists
    <2> HIDE DEF h
    <2>2. PersistReturns(h)
        BY <1>3 DEF WriterPersists, h
    <2>3. /\ auditLog' \in Seq(Events) /\ discarded' \subseteq Events
          /\ ambiguous' \in [Events -> Nat]
          /\ ToSet(auditLog) \cup discarded \subseteq ToSet(auditLog') \cup discarded'
          /\ h \in ToSet(auditLog') \cup discarded'
        BY <2>1, <2>2, PersistReturnsSettles
    <2>4. TypeOK'
        BY <1>3, <2>1, <2>3 DEF TypeOK, WriterPersists, flushVars
    <2>5. ASSUME NEW e \in InMemory
          PROVE  e \in InMemory' \/ e = h
        <3>1. \A v \in Writers : todo'[v] = IF v = w THEN Tail(todo[w]) ELSE todo[v]
            BY <1>3 DEF WriterPersists, TypeOK
        <3> QED
            BY <1>3, <2>1, <2>5, <3>1, InMemoryMember DEF WriterPersists, InMemory
    <2>6. Accepted' = Accepted /\ lost' = lost
        BY <1>3 DEF WriterPersists, Accepted
    <2>7. NothingVanishes'
        BY <2>3, <2>5, <2>6 DEF NothingVanishes
    <2>8. FlushedIsSettled'
        BY <1>3, <2>3 DEF FlushedIsSettled, WriterPersists, flushVars
    <2> QED
        BY <2>4, <2>7, <2>8 DEF AuditInv
<1>4. ASSUME NEW w \in Writers, WriterPersistFails(w)
      PROVE  AuditInv'
    <2>1. Head(todo[w]) \in Events
        BY <1>4, HeadTailMembers DEF TypeOK, WriterPersistFails
    <2>2. PersistRaises(Head(todo[w]))
        BY <1>4 DEF WriterPersistFails
    <2>3. /\ auditLog' \in Seq(Events) /\ discarded' \subseteq Events
          /\ ambiguous' \in [Events -> Nat]
          /\ ToSet(auditLog) \cup discarded \subseteq ToSet(auditLog') \cup discarded'
        BY <2>1, <2>2, PersistRaisesKeeps
    <2>4. TypeOK'
        BY <1>4, <2>3 DEF TypeOK, WriterPersistFails, flushVars
    <2>5. InMemory' = InMemory /\ Accepted' = Accepted /\ lost' = lost
        BY <1>4 DEF WriterPersistFails, InMemory, Accepted
    <2>6. NothingVanishes'
        BY <2>3, <2>5 DEF NothingVanishes
    <2>7. FlushedIsSettled'
        BY <1>4, <2>3 DEF FlushedIsSettled, WriterPersistFails, flushVars
    <2> QED
        BY <2>4, <2>6, <2>7 DEF AuditInv
<1>5. ASSUME NEW w \in Writers, BufferEvent(w)
      PROVE  AuditInv'
    <2> DEFINE h == Head(todo[w])
    <2>1. /\ h \in Events /\ Tail(todo[w]) \in Seq(Events)
          /\ ToSet(todo[w]) = {h} \cup ToSet(Tail(todo[w]))
        BY <1>5, HeadTailMembers DEF TypeOK, BufferEvent
    <2>2. buffer' = Append(buffer, h)
        BY <1>5 DEF BufferEvent
    <2> HIDE DEF h
    <2>3. buffer' \in Seq(Events) /\ ToSet(buffer') = ToSet(buffer) \cup {h}
        BY <2>1, <2>2, AppendMembers DEF TypeOK
    <2>4. TypeOK'
        BY <1>5, <2>1, <2>3 DEF TypeOK, BufferEvent, flushVars
    <2>5. ASSUME NEW e \in InMemory
          PROVE  e \in InMemory'
        <3>1. \A v \in Writers : todo'[v] = IF v = w THEN Tail(todo[w]) ELSE todo[v]
            BY <1>5 DEF BufferEvent, TypeOK
        <3> QED
            BY <2>1, <2>3, <2>5, <3>1 DEF InMemory
    <2>6. Accepted' = Accepted /\ lost' = lost /\ auditLog' = auditLog /\ discarded' = discarded
        BY <1>5 DEF BufferEvent, Accepted
    <2>7. NothingVanishes'
        BY <2>5, <2>6 DEF NothingVanishes
    <2>8. FlushedIsSettled'
        BY <1>5 DEF FlushedIsSettled, BufferEvent, flushVars
    <2> QED
        BY <2>4, <2>7, <2>8 DEF AuditInv
<1>6. CASE Snapshot
    BY <1>6 DEF AuditInv, Snapshot, TypeOK, NothingVanishes, FlushedIsSettled,
                writerVars, Accepted, InMemory
<1>7. CASE FlushPersists
    <2>1. Head(pending) \in Events
        BY <1>7, HeadTailMembers DEF TypeOK, FlushPersists
    <2>2. PersistReturns(Head(pending))
        BY <1>7 DEF FlushPersists
    <2>3. /\ auditLog' \in Seq(Events) /\ discarded' \subseteq Events
          /\ ambiguous' \in [Events -> Nat]
          /\ ToSet(auditLog) \cup discarded \subseteq ToSet(auditLog') \cup discarded'
          /\ Head(pending) \in ToSet(auditLog') \cup discarded'
        BY <2>1, <2>2, PersistReturnsSettles
    <2>4. TypeOK'
        BY <1>7, <2>3 DEF TypeOK, FlushPersists, writerVars
    <2>5. InMemory' = InMemory /\ Accepted' = Accepted /\ lost' = lost
        BY <1>7 DEF FlushPersists, InMemory, Accepted, writerVars
    <2>6. NothingVanishes'
        BY <2>3, <2>5 DEF NothingVanishes
    <2>7. FlushedIsSettled'
        BY <1>7, <2>3 DEF FlushedIsSettled, FlushPersists
    <2> QED
        BY <2>4, <2>6, <2>7 DEF AuditInv
\* The only step that takes an event out of the buffer: FlushedIsSettled is for it.
<1>8. CASE RemoveFlushed
    <2> DEFINE h == Head(pending)
    <2>1. pending # <<>> /\ h \in ToSet(auditLog) \cup discarded
        BY <1>8 DEF FlushedIsSettled, RemoveFlushed
    <2>2. Tail(pending) \in Seq(Events)
        BY <2>1, HeadTailMembers DEF TypeOK
    <2>3. buffer' = RemoveFirst(buffer, h)
        BY <1>8 DEF RemoveFlushed
    <2> HIDE DEF h
    <2>4. buffer' \in Seq(Events) /\ ToSet(buffer) \subseteq ToSet(buffer') \cup {h}
        BY <2>3, RemoveFirstMembers DEF TypeOK
    <2>5. TypeOK'
        BY <1>8, <2>2, <2>4 DEF TypeOK, RemoveFlushed, writerVars
    <2>6. InMemory \subseteq InMemory' \cup {h}
        BY <1>8, <2>4 DEF InMemory, RemoveFlushed, writerVars
    <2>7. /\ Accepted' = Accepted /\ lost' = lost
          /\ auditLog' = auditLog /\ discarded' = discarded
        BY <1>8 DEF RemoveFlushed, Accepted
    <2>8. NothingVanishes'
        BY <2>1, <2>6, <2>7 DEF NothingVanishes
    <2>9. FlushedIsSettled'
        BY <1>8 DEF FlushedIsSettled, RemoveFlushed
    <2> QED
        BY <2>5, <2>8, <2>9 DEF AuditInv
<1>9. CASE FlushFails
    <2>1. Head(pending) \in Events /\ Tail(pending) \in Seq(Events)
        BY <1>9, HeadTailMembers DEF TypeOK, FlushFails
    <2>2. PersistRaises(Head(pending))
        BY <1>9 DEF FlushFails
    <2>3. /\ auditLog' \in Seq(Events) /\ discarded' \subseteq Events
          /\ ambiguous' \in [Events -> Nat]
          /\ ToSet(auditLog) \cup discarded \subseteq ToSet(auditLog') \cup discarded'
        BY <2>1, <2>2, PersistRaisesKeeps
    <2>4. TypeOK'
        BY <1>9, <2>1, <2>3 DEF TypeOK, FlushFails, writerVars
    <2>5. InMemory' = InMemory /\ Accepted' = Accepted /\ lost' = lost
        BY <1>9 DEF FlushFails, InMemory, Accepted, writerVars
    <2>6. NothingVanishes'
        BY <2>3, <2>5 DEF NothingVanishes
    <2>7. FlushedIsSettled'
        BY <1>9 DEF FlushedIsSettled, FlushFails
    <2> QED
        BY <2>4, <2>6, <2>7 DEF AuditInv
<1>10. CASE EndFlush
    BY <1>10 DEF AuditInv, EndFlush, TypeOK, NothingVanishes, FlushedIsSettled,
                 writerVars, Accepted, InMemory
<1>11. CASE DbFails \/ DbRecovers
    BY <1>11 DEF AuditInv, DbFails, DbRecovers, TypeOK, NothingVanishes,
                 FlushedIsSettled, writerVars, flushVars, Accepted, InMemory
<1>12. CASE Crash
    <2>1. <<>> \in Seq(Events)
        OBVIOUS
    <2>2. InMemory \subseteq Events
        BY DEF InMemory, TypeOK, ToSet
    <2>3. /\ todo' \in [Writers -> Seq(Events)]
          /\ wpc' \in [Writers -> {"check", "persist", "buffer"}]
        BY <1>12, <2>1 DEF Crash
    <2>4. TypeOK'
        <3>1. lost' \subseteq Events
            BY <1>12, <2>2 DEF TypeOK, Crash
        <3>2. crashes' \in Nat
            BY <1>12 DEF TypeOK, Crash
        <3>3. /\ buffer' \in Seq(Events) /\ pending' \in Seq(Events)
              /\ auditLog' \in Seq(Events) /\ discarded' \subseteq Events
            BY <1>12, <2>1 DEF TypeOK, Crash
        <3>4. /\ dbUp' \in BOOLEAN /\ dbAvailable' \in BOOLEAN /\ flushed' \in BOOLEAN
              /\ fpc' \in {"sleep", "persist", "remove"}
              /\ submitted' \in [Events -> Nat] /\ ambiguous' \in [Events -> Nat]
            BY <1>12 DEF TypeOK, Crash
        <3> QED
            BY <2>3, <3>1, <3>2, <3>3, <3>4 DEF TypeOK
    <2>5. NothingVanishes'
        BY <1>12 DEF NothingVanishes, Crash, Accepted
    <2>6. FlushedIsSettled'
        BY <1>12 DEF FlushedIsSettled, Crash
    <2> QED
        BY <2>4, <2>5, <2>6 DEF AuditInv
<1>13. CASE UNCHANGED vars
    BY <1>13 DEF AuditInv, vars, TypeOK, NothingVanishes, FlushedIsSettled,
                 Accepted, InMemory
<1> QED
    BY <1>1, <1>2, <1>3, <1>4, <1>5, <1>6, <1>7, <1>8, <1>9, <1>10, <1>11, <1>12, <1>13
       DEF Next, WriterStep, FlushStep

\* The strengthened invariant holds in every reachable state.
LEMMA AuditInvariant == Spec => []AuditInv
BY InitAuditInv, NextAuditInv, PTL DEF Spec

\* The state of the audit writer is well formed, whatever batches it is given.
THEOREM AuditTyping == Spec => []TypeOK
<1>1. AuditInv => TypeOK
    BY DEF AuditInv
<1> QED
    BY <1>1, AuditInvariant, PTL

\* No audit event vanishes between the writer threads, the buffer and the flush
\* thread: it is recorded, discarded as an orphan, still held, or was lost in a crash.
THEOREM AuditNothingVanishes == Spec => []NothingVanishes
<1>1. AuditInv => NothingVanishes
    BY DEF AuditInv
<1> QED
    BY <1>1, AuditInvariant, PTL

----------------------------------------------------------------------------
(* Rows and copies: how often an event is written.                         *)

\* What the flush thread has yet to try is in the buffer: only the flush thread takes
\* entries out of it, and it does so in step with its snapshot.
SnapshotIsBuffered ==
    \A e \in Events : Occurrences(pending, e) <= Occurrences(buffer, e)

RowsInv == AuditInv /\ SnapshotIsBuffered /\ RowsAreAccountedFor

\* An attempt that returns writes at most one row, for the event it was given.
LEMMA PersistReturnsCounts ==
    ASSUME TypeOK, NEW h \in Events, PersistReturns(h), NEW e \in Events
    PROVE  /\ Occurrences(auditLog', e) <= Occurrences(auditLog, e) + IF h = e THEN 1 ELSE 0
           /\ ambiguous' = ambiguous
<1>1. auditLog \in Seq(Events)
    BY DEF TypeOK
<1>2. Occurrences(auditLog, e) \in Nat
    BY <1>1, OccurrencesCounts
<1>3. CASE Written(h)
    <2>1. Occurrences(Append(auditLog, h), e) = Occurrences(auditLog, e) + IF h = e THEN 1 ELSE 0
        BY <1>1, OccurrencesAppend
    <2> QED
        BY <1>2, <1>3, <2>1 DEF Written
<1>4. CASE GuardDiscards(h)
    BY <1>2, <1>4 DEF GuardDiscards
<1> QED
    BY <1>3, <1>4 DEF PersistReturns

\* An attempt that raises writes a row only together with the ambiguity it leaves.
LEMMA PersistRaisesCounts ==
    ASSUME TypeOK, NEW h \in Events, PersistRaises(h), NEW e \in Events
    PROVE  /\ Occurrences(auditLog', e) - ambiguous'[e] <= Occurrences(auditLog, e) - ambiguous[e]
           /\ Occurrences(auditLog', e) \in Nat /\ ambiguous'[e] \in Nat
<1>1. auditLog \in Seq(Events) /\ ambiguous \in [Events -> Nat]
    BY DEF TypeOK
<1>2. Occurrences(auditLog, e) \in Nat /\ ambiguous[e] \in Nat
    BY <1>1, OccurrencesCounts
<1>3. CASE CommittedButRaised(h)
    <2>1. Occurrences(Append(auditLog, h), e) = Occurrences(auditLog, e) + IF h = e THEN 1 ELSE 0
        BY <1>1, OccurrencesAppend
    <2>2. ambiguous'[e] = ambiguous[e] + IF h = e THEN 1 ELSE 0
        BY <1>1, <1>2, <1>3 DEF CommittedButRaised
    <2>3. auditLog' = Append(auditLog, h)
        BY <1>3 DEF CommittedButRaised
    <2> QED
        BY <1>2, <2>1, <2>2, <2>3
<1>4. CASE RaisedOnly(h)
    BY <1>2, <1>4 DEF RaisedOnly
<1> QED
    BY <1>3, <1>4 DEF PersistRaises

\* The numbers that RowsAreAccountedFor compares.
LEMMA CountsAreNaturals ==
    ASSUME TypeOK, NEW e \in Events
    PROVE  /\ Occurrences(auditLog, e) \in Nat /\ Occurrences(buffer, e) \in Nat
           /\ Occurrences(pending, e) \in Nat /\ Cardinality(Copies(todo, e)) \in Nat
           /\ submitted[e] \in Nat /\ ambiguous[e] \in Nat
<1>1. /\ auditLog \in Seq(Events) /\ buffer \in Seq(Events) /\ pending \in Seq(Events)
      /\ todo \in [Writers -> Seq(Events)]
      /\ submitted \in [Events -> Nat] /\ ambiguous \in [Events -> Nat]
    BY DEF TypeOK
<1> QED
    BY <1>1, OccurrencesCounts, CopiesFinite

\* Before anything is handed over, nothing is counted.
LEMMA InitRowsInv == Init => RowsInv
<1> SUFFICES ASSUME Init PROVE RowsInv
    OBVIOUS
<1>1. AuditInv
    BY InitAuditInv
<1>2. \A e : Occurrences(<<>>, e) = 0
    <2> SUFFICES ASSUME NEW e PROVE Occurrences(<<>>, e) = 0
        OBVIOUS
    <2>1. {i \in DOMAIN <<>> : <<>>[i] = e} = {}
        OBVIOUS
    <2> QED
        BY <2>1, FS_EmptySet DEF Occurrences
<1>3. ASSUME NEW e \in Events
      PROVE  Cardinality(Copies(todo, e)) = 0
    <2>1. Copies(todo, e) = {}
        BY DEF Init, Copies
    <2> QED
        BY <2>1, FS_EmptySet
<1>4. SnapshotIsBuffered
    BY <1>2 DEF SnapshotIsBuffered, Init
<1>5. RowsAreAccountedFor
    BY <1>2, <1>3 DEF RowsAreAccountedFor, Outstanding, Init
<1> QED
    BY <1>1, <1>4, <1>5 DEF RowsInv

\* A step of a writer exchanges copies of its batch for rows or for buffer entries.
LEMMA WriterRowsInv ==
    ASSUME RowsInv, NEW w \in Writers, StartWrite(w) \/ WriterStep(w)
    PROVE  SnapshotIsBuffered' /\ RowsAreAccountedFor'
<1>0. TypeOK /\ TypeOK' /\ SnapshotIsBuffered /\ RowsAreAccountedFor
    <2>1. [Next]_vars
        BY DEF Next
    <2> QED
        BY <2>1, NextAuditInv DEF RowsInv, AuditInv
<1> SUFFICES ASSUME NEW e \in Events
             PROVE  /\ Occurrences(pending', e) <= Occurrences(buffer', e)
                    /\ Occurrences(auditLog', e) + Outstanding(e)' <= submitted'[e] + ambiguous'[e]
    BY DEF SnapshotIsBuffered, RowsAreAccountedFor
<1> DEFINE settled == IF fpc = "remove" /\ Head(pending) = e THEN 1 ELSE 0
<1>1. /\ Occurrences(pending, e) <= Occurrences(buffer, e)
      /\ Occurrences(auditLog, e) + (Occurrences(buffer, e) + Cardinality(Copies(todo, e)) - settled)
            <= submitted[e] + ambiguous[e]
    BY <1>0 DEF SnapshotIsBuffered, RowsAreAccountedFor, Outstanding
<1>2. /\ Occurrences(auditLog, e) \in Nat /\ Occurrences(buffer, e) \in Nat
      /\ Occurrences(pending, e) \in Nat /\ Cardinality(Copies(todo, e)) \in Nat
      /\ submitted[e] \in Nat /\ ambiguous[e] \in Nat
    BY <1>0, CountsAreNaturals
<1>3. todo \in [Writers -> Seq(Events)] /\ buffer \in Seq(Events) /\ submitted \in [Events -> Nat]
    BY <1>0 DEF TypeOK
<1>4. pending' = pending /\ fpc' = fpc
    BY DEF StartWrite, WriterStep, CheckAvailable, WriterPersists, WriterPersistFails,
           BufferEvent, flushVars
<1>5. Outstanding(e)' = Occurrences(buffer', e) + Cardinality(Copies(todo', e)) - settled
    BY <1>4 DEF Outstanding, Copies
<1>6. settled \in {0, 1}
    OBVIOUS
<1>7. ASSUME todo[w] # <<>>
      PROVE  /\ Head(todo[w]) \in Events
             /\ Cardinality(Copies([todo EXCEPT ![w] = Tail(@)], e)) =
                    Cardinality(Copies(todo, e)) - IF Head(todo[w]) = e THEN 1 ELSE 0
    <2>1. todo[w] \in Seq(Events) /\ Tail(todo[w]) \in Seq(Events) /\ Head(todo[w]) \in Events
        BY <1>3, <1>7, HeadTailMembers
    <2>2. Cardinality(Copies([todo EXCEPT ![w] = Tail(todo[w])], e)) =
            Cardinality(Copies(todo, e)) - Occurrences(todo[w], e) + Occurrences(Tail(todo[w]), e)
        BY <1>3, <2>1, CopiesUpdate
    <2>3. Occurrences(todo[w], e) =
            Occurrences(Tail(todo[w]), e) + IF Head(todo[w]) = e THEN 1 ELSE 0
        BY <1>7, <2>1, OccurrencesTail
    <2>4. Occurrences(Tail(todo[w]), e) \in Nat
        BY <2>1, OccurrencesCounts
    <2> QED
        BY <1>2, <2>1, <2>2, <2>3, <2>4
<1> HIDE DEF settled
<1>8. CASE StartWrite(w)
    <2>1. PICK b \in Batches :
            /\ todo' = [todo EXCEPT ![w] = b]
            /\ submitted' = [d \in Events |-> submitted[d] + Occurrences(b, d)]
        BY <1>8 DEF StartWrite
    <2>2. b \in Seq(Events)
        BY AuditAssumption
    <2>3. Occurrences(b, e) \in Nat /\ submitted'[e] = submitted[e] + Occurrences(b, e)
        BY <2>1, <2>2, OccurrencesCounts
    <2>4. Cardinality(Copies([todo EXCEPT ![w] = b], e)) =
            Cardinality(Copies(todo, e)) - Occurrences(todo[w], e) + Occurrences(b, e)
        BY <1>3, <2>2, CopiesUpdate
    <2>5. Occurrences(todo[w], e) = 0
        <3>1. todo[w] = <<>> /\ <<>> \in Seq(Events) /\ e \notin ToSet(<<>>)
            BY <1>8 DEF StartWrite, ToSet
        <3>2. Occurrences(<<>>, e) \in Nat /\ ~(Occurrences(<<>>, e) > 0)
            BY <3>1, OccurrencesCounts
        <3> QED
            BY <3>1, <3>2
    <2>6. buffer' = buffer /\ auditLog' = auditLog /\ ambiguous' = ambiguous
        BY <1>8 DEF StartWrite
    <2> QED
        BY <1>1, <1>2, <1>4, <1>5, <1>6, <2>1, <2>3, <2>4, <2>5, <2>6
<1>9. CASE CheckAvailable(w)
    BY <1>1, <1>2, <1>4, <1>5, <1>9 DEF CheckAvailable
<1>10. CASE WriterPersists(w)
    <2>1. todo[w] # <<>> /\ PersistReturns(Head(todo[w])) /\ buffer' = buffer
          /\ todo' = [todo EXCEPT ![w] = Tail(@)] /\ submitted' = submitted
        BY <1>10 DEF WriterPersists
    <2>2. /\ Occurrences(auditLog', e)
                <= Occurrences(auditLog, e) + IF Head(todo[w]) = e THEN 1 ELSE 0
          /\ ambiguous' = ambiguous
        BY <1>0, <1>7, <2>1, PersistReturnsCounts
    <2>3. Occurrences(auditLog', e) \in Nat
        BY <1>0, OccurrencesCounts DEF TypeOK
    <2>4. Cardinality(Copies(todo', e)) =
            Cardinality(Copies(todo, e)) - IF Head(todo[w]) = e THEN 1 ELSE 0
        BY <1>7, <2>1
    <2>5. Occurrences(auditLog', e) + Outstanding(e)' <= submitted'[e] + ambiguous'[e]
        <3>1. Outstanding(e)' = Occurrences(buffer, e) + Cardinality(Copies(todo', e)) - settled
            BY <1>5, <2>1
        <3>2. /\ submitted'[e] = submitted[e] /\ ambiguous'[e] = ambiguous[e] /\ settled \in Int
            BY <1>6, <2>1, <2>2
        <3> QED
            BY ONLY <1>1, <1>2, <2>2, <2>3, <2>4, <3>1, <3>2
    <2> QED
        BY <1>1, <1>4, <2>1, <2>5
<1>11. CASE WriterPersistFails(w)
    <2>1. todo[w] # <<>> /\ PersistRaises(Head(todo[w])) /\ buffer' = buffer
          /\ todo' = todo /\ submitted' = submitted
        BY <1>11 DEF WriterPersistFails
    <2>2. /\ Occurrences(auditLog', e) - ambiguous'[e] <= Occurrences(auditLog, e) - ambiguous[e]
          /\ Occurrences(auditLog', e) \in Nat /\ ambiguous'[e] \in Nat
        BY <1>0, <1>7, <2>1, PersistRaisesCounts
    <2>3. Occurrences(auditLog', e) + Outstanding(e)' <= submitted'[e] + ambiguous'[e]
        <3>1. Outstanding(e)' = Occurrences(buffer, e) + Cardinality(Copies(todo, e)) - settled
            BY <1>5, <2>1
        <3>2. submitted'[e] = submitted[e] /\ settled \in Int
            BY <1>6, <2>1
        <3> QED
            BY ONLY <1>1, <1>2, <2>2, <3>1, <3>2
    <2> QED
        BY <1>1, <1>4, <2>1, <2>3
<1>12. CASE BufferEvent(w)
    <2>1. todo[w] # <<>> /\ buffer' = Append(buffer, Head(todo[w]))
          /\ todo' = [todo EXCEPT ![w] = Tail(@)]
          /\ auditLog' = auditLog /\ submitted' = submitted /\ ambiguous' = ambiguous
        BY <1>12 DEF BufferEvent
    <2>2. Occurrences(Append(buffer, Head(todo[w])), e) =
            Occurrences(buffer, e) + IF Head(todo[w]) = e THEN 1 ELSE 0
        BY <1>3, <1>7, <2>1, OccurrencesAppend
    <2> QED
        BY <1>1, <1>2, <1>4, <1>5, <1>6, <1>7, <2>1, <2>2
<1> QED
    BY <1>8, <1>9, <1>10, <1>11, <1>12 DEF WriterStep

\* A step of the flush thread exchanges a buffer entry for a row; until it takes that
\* entry out, "settled" stands for it.
LEMMA FlushRowsInv ==
    ASSUME RowsInv, FlushStep
    PROVE  SnapshotIsBuffered' /\ RowsAreAccountedFor'
<1>0. TypeOK /\ TypeOK' /\ SnapshotIsBuffered /\ RowsAreAccountedFor /\ FlushedIsSettled
    <2>1. [Next]_vars
        BY DEF Next
    <2> QED
        BY <2>1, NextAuditInv DEF RowsInv, AuditInv
<1> SUFFICES ASSUME NEW e \in Events
             PROVE  /\ Occurrences(pending', e) <= Occurrences(buffer', e)
                    /\ Occurrences(auditLog', e) + Outstanding(e)' <= submitted'[e] + ambiguous'[e]
    BY DEF SnapshotIsBuffered, RowsAreAccountedFor
<1> DEFINE copies == Cardinality(Copies(todo, e))
           one == IF Head(pending) = e THEN 1 ELSE 0
<1>1. /\ Occurrences(pending, e) <= Occurrences(buffer, e)
      /\ fpc # "remove" =>
            Occurrences(auditLog, e) + (Occurrences(buffer, e) + copies)
                <= submitted[e] + ambiguous[e]
      /\ fpc = "remove" =>
            Occurrences(auditLog, e) + (Occurrences(buffer, e) + copies - one)
                <= submitted[e] + ambiguous[e]
    <2>1. copies \in Nat /\ Occurrences(buffer, e) \in Nat
        BY <1>0, CountsAreNaturals
    <2>2. Occurrences(auditLog, e) + Outstanding(e) <= submitted[e] + ambiguous[e]
        BY <1>0 DEF RowsAreAccountedFor
    <2> HIDE DEF copies
    <2>3. fpc # "remove" => Outstanding(e) = Occurrences(buffer, e) + copies
        BY <2>1 DEF Outstanding, copies
    <2>4. fpc = "remove" => Outstanding(e) = Occurrences(buffer, e) + copies - one
        BY <2>1 DEF Outstanding, copies
    <2> QED
        BY <1>0, <2>2, <2>3, <2>4 DEF SnapshotIsBuffered
<1>2. /\ Occurrences(auditLog, e) \in Nat /\ Occurrences(buffer, e) \in Nat
      /\ Occurrences(pending, e) \in Nat /\ copies \in Nat
      /\ submitted[e] \in Nat /\ ambiguous[e] \in Nat
    BY <1>0, CountsAreNaturals
<1>3. pending \in Seq(Events) /\ buffer \in Seq(Events) /\ one \in {0, 1}
    BY <1>0 DEF TypeOK
<1>4. todo' = todo /\ submitted' = submitted
    BY DEF FlushStep, Snapshot, FlushPersists, RemoveFlushed, FlushFails, EndFlush, writerVars
<1>5. /\ fpc' # "remove" => Outstanding(e)' = Occurrences(buffer', e) + copies
      /\ fpc' = "remove" /\ pending' = pending =>
            Outstanding(e)' = Occurrences(buffer', e) + copies - one
    <2>1. Occurrences(buffer', e) \in Nat
        BY <1>0, OccurrencesCounts DEF TypeOK
    <2>2. Cardinality(Copies(todo', e)) = copies
        BY <1>4
    <2>3. Outstanding(e)' = Occurrences(buffer', e) + Cardinality(Copies(todo', e))
                                - IF fpc' = "remove" /\ Head(pending') = e THEN 1 ELSE 0
        BY DEF Outstanding, Copies
    <2> HIDE DEF copies
    <2> QED
        BY <1>2, <2>1, <2>2, <2>3
<1> HIDE DEF copies
<1>6. ASSUME pending # <<>>
      PROVE  /\ Head(pending) \in Events
             /\ Occurrences(pending, e) = Occurrences(Tail(pending), e) + one
             /\ Occurrences(Tail(pending), e) \in Nat
    BY <1>3, <1>6, HeadTailMembers, OccurrencesTail, OccurrencesCounts
<1> HIDE DEF one
<1>7. CASE Snapshot
    <2>1. pending' = buffer /\ buffer' = buffer /\ auditLog' = auditLog /\ ambiguous' = ambiguous
          /\ fpc # "remove" /\ fpc' # "remove"
        BY <1>7 DEF Snapshot
    <2> QED
        BY <1>1, <1>2, <1>4, <1>5, <2>1
<1>8. CASE FlushPersists
    <2>1. /\ pending # <<>> /\ pending' = pending /\ buffer' = buffer
          /\ fpc # "remove" /\ fpc' = "remove" /\ PersistReturns(Head(pending))
        BY <1>8 DEF FlushPersists
    <2>2. /\ Occurrences(auditLog', e) <= Occurrences(auditLog, e) + one
          /\ ambiguous' = ambiguous
        BY <1>0, <1>6, <2>1, PersistReturnsCounts DEF one
    <2>3. Occurrences(auditLog', e) \in Nat
        BY <1>0, OccurrencesCounts DEF TypeOK
    <2>4. Outstanding(e)' = Occurrences(buffer, e) + copies - one
        BY <1>5, <2>1
    <2>5. Occurrences(auditLog, e) + (Occurrences(buffer, e) + copies) <= submitted[e] + ambiguous[e]
        BY <1>1, <2>1
    <2>6. submitted'[e] = submitted[e] /\ ambiguous'[e] = ambiguous[e] /\ one \in Int
        BY <1>3, <1>4, <2>2
    <2>7. Occurrences(auditLog', e) + Outstanding(e)' <= submitted'[e] + ambiguous'[e]
        BY ONLY <1>2, <2>2, <2>3, <2>4, <2>5, <2>6
    <2> QED
        BY <1>1, <2>1, <2>7
\* The removed entry was the one "settled" stood for, and there is one to remove.
<1>9. CASE RemoveFlushed
    <2>1. /\ pending # <<>> /\ pending' = Tail(pending)
          /\ buffer' = RemoveFirst(buffer, Head(pending))
          /\ fpc = "remove" /\ fpc' # "remove" /\ auditLog' = auditLog /\ ambiguous' = ambiguous
        BY <1>0, <1>9 DEF RemoveFlushed, FlushedIsSettled
    <2>2. Occurrences(RemoveFirst(buffer, Head(pending)), e) =
            Occurrences(buffer, e) -
                IF Head(pending) = e /\ Occurrences(buffer, e) > 0 THEN 1 ELSE 0
        BY <1>3, OccurrencesRemoveFirst
    <2>3. Occurrences(buffer', e) = Occurrences(buffer, e) - one
        <3>1. CASE Head(pending) = e
            <4>1. one = 1
                BY <3>1 DEF one
            <4>2. Occurrences(buffer, e) > 0
                BY ONLY <1>1, <1>2, <1>6, <2>1, <4>1
            <4> QED
                BY <2>1, <2>2, <3>1, <4>1, <4>2
        <3>2. CASE Head(pending) # e
            BY <2>1, <2>2, <3>2 DEF one
        <3> QED
            BY <3>1, <3>2
    <2>4. Outstanding(e)' = Occurrences(buffer', e) + copies
        BY <1>5, <2>1
    <2>5. /\ Occurrences(auditLog, e) + (Occurrences(buffer, e) + copies - one)
                <= submitted[e] + ambiguous[e]
          /\ submitted'[e] = submitted[e] /\ ambiguous'[e] = ambiguous[e] /\ one \in Int
          /\ Occurrences(auditLog', e) = Occurrences(auditLog, e)
        BY <1>1, <1>3, <1>4, <2>1
    <2>6. Occurrences(auditLog', e) + Outstanding(e)' <= submitted'[e] + ambiguous'[e]
        BY ONLY <1>2, <2>3, <2>4, <2>5
    <2>7. Occurrences(pending', e) <= Occurrences(buffer', e)
        <3>1. Occurrences(pending', e) = Occurrences(Tail(pending), e)
            BY <2>1
        <3> QED
            BY ONLY <1>1, <1>2, <1>6, <2>1, <2>3, <2>5, <3>1
    <2> QED
        BY <2>6, <2>7
<1>10. CASE FlushFails
    <2>1. /\ pending # <<>> /\ pending' = Tail(pending) /\ buffer' = buffer
          /\ fpc # "remove" /\ fpc' # "remove" /\ PersistRaises(Head(pending))
        BY <1>10 DEF FlushFails
    <2>2. /\ Occurrences(auditLog', e) - ambiguous'[e] <= Occurrences(auditLog, e) - ambiguous[e]
          /\ Occurrences(auditLog', e) \in Nat /\ ambiguous'[e] \in Nat
        BY <1>0, <1>6, <2>1, PersistRaisesCounts
    <2>3. /\ Outstanding(e)' = Occurrences(buffer, e) + copies
          /\ Occurrences(auditLog, e) + (Occurrences(buffer, e) + copies)
                <= submitted[e] + ambiguous[e]
          /\ submitted'[e] = submitted[e]
        BY <1>1, <1>4, <1>5, <2>1
    <2>4. Occurrences(auditLog', e) + Outstanding(e)' <= submitted'[e] + ambiguous'[e]
        BY ONLY <1>2, <2>2, <2>3
    <2>5. Occurrences(pending', e) <= Occurrences(buffer', e)
        <3>1. /\ Occurrences(pending', e) = Occurrences(Tail(pending), e)
              /\ Occurrences(buffer', e) = Occurrences(buffer, e) /\ one \in {0, 1}
            BY <1>3, <2>1
        <3> QED
            BY ONLY <1>1, <1>2, <1>6, <2>1, <3>1
    <2> QED
        BY <2>4, <2>5
<1>11. CASE EndFlush
    <2>1. /\ pending' = pending /\ buffer' = buffer /\ auditLog' = auditLog
          /\ ambiguous' = ambiguous /\ fpc # "remove" /\ fpc' # "remove"
        BY <1>11 DEF EndFlush
    <2> QED
        BY <1>1, <1>2, <1>4, <1>5, <2>1
<1> QED
    BY <1>7, <1>8, <1>9, <1>10, <1>11 DEF FlushStep

\* A crash forgets copies and writes no row.
LEMMA CrashRowsInv ==
    ASSUME RowsInv, Crash
    PROVE  SnapshotIsBuffered' /\ RowsAreAccountedFor'
<1>0. TypeOK /\ SnapshotIsBuffered /\ RowsAreAccountedFor /\ FlushedIsSettled
    BY DEF RowsInv, AuditInv
<1>1. /\ buffer' = <<>> /\ pending' = <<>> /\ todo' = [w \in Writers |-> <<>>]
      /\ fpc' = "sleep" /\ auditLog' = auditLog
      /\ submitted' = submitted /\ ambiguous' = ambiguous
    BY DEF Crash
<1> SUFFICES ASSUME NEW e \in Events
             PROVE  /\ Occurrences(pending', e) <= Occurrences(buffer', e)
                    /\ Occurrences(auditLog', e) + Outstanding(e)' <= submitted'[e] + ambiguous'[e]
    BY DEF SnapshotIsBuffered, RowsAreAccountedFor
<1>2. Occurrences(<<>>, e) = 0
    <2>1. {i \in DOMAIN <<>> : <<>>[i] = e} = {}
        OBVIOUS
    <2> QED
        BY <2>1, FS_EmptySet DEF Occurrences
<1>3. Cardinality(Copies(todo', e)) = 0
    <2>1. Copies(todo', e) = {}
        BY <1>1 DEF Copies
    <2> QED
        BY <2>1, FS_EmptySet
<1>4. Outstanding(e)' = 0
    <2>1. Outstanding(e)' = Occurrences(buffer', e) + Cardinality(Copies(todo', e))
                                - IF fpc' = "remove" /\ Head(pending') = e THEN 1 ELSE 0
        BY DEF Outstanding, Copies
    <2> QED
        BY <1>1, <1>2, <1>3, <2>1
<1>5. /\ Occurrences(auditLog, e) \in Nat /\ Occurrences(buffer, e) \in Nat
      /\ Occurrences(pending, e) \in Nat /\ Cardinality(Copies(todo, e)) \in Nat
      /\ submitted[e] \in Nat /\ ambiguous[e] \in Nat
    BY <1>0, CountsAreNaturals
\* The entry that waits for its removal is in the buffer.
<1>6. Outstanding(e) \in Nat
    <2>1. CASE fpc = "remove" /\ Head(pending) = e
        <3>1. pending \in Seq(Events) /\ pending # <<>>
            BY <1>0, <2>1 DEF FlushedIsSettled, TypeOK
        <3>2. Occurrences(pending, e) > 0
            BY <2>1, <3>1, HeadTailMembers, OccurrencesCounts
        <3>3. Occurrences(pending, e) <= Occurrences(buffer, e)
            BY <1>0 DEF SnapshotIsBuffered
        <3>4. Outstanding(e) = Occurrences(buffer, e) + Cardinality(Copies(todo, e)) - 1
            BY <2>1 DEF Outstanding
        <3> QED
            BY ONLY <1>5, <3>2, <3>3, <3>4
    <2>2. CASE ~(fpc = "remove" /\ Head(pending) = e)
        <3>1. Outstanding(e) = Occurrences(buffer, e) + Cardinality(Copies(todo, e)) - 0
            BY <2>2 DEF Outstanding
        <3> QED
            BY ONLY <1>5, <3>1
    <2> QED
        BY <2>1, <2>2
<1>7. Occurrences(auditLog, e) + Outstanding(e) <= submitted[e] + ambiguous[e]
    BY <1>0 DEF RowsAreAccountedFor
<1>8. /\ Occurrences(auditLog', e) = Occurrences(auditLog, e)
      /\ submitted'[e] = submitted[e] /\ ambiguous'[e] = ambiguous[e]
    BY <1>1
<1>9. Occurrences(auditLog', e) + Outstanding(e)' <= submitted'[e] + ambiguous'[e]
    BY ONLY <1>4, <1>5, <1>6, <1>7, <1>8
<1> QED
    BY <1>1, <1>2, <1>9

\* The strengthened invariant is kept by every step.
LEMMA NextRowsInv == RowsInv /\ [Next]_vars => RowsInv'
<1> SUFFICES ASSUME RowsInv, [Next]_vars PROVE RowsInv'
    OBVIOUS
<1>1. AuditInv'
    BY NextAuditInv DEF RowsInv
<1>2. ASSUME NEW w \in Writers, StartWrite(w) \/ WriterStep(w)
      PROVE  SnapshotIsBuffered' /\ RowsAreAccountedFor'
    BY <1>2, WriterRowsInv
<1>3. ASSUME FlushStep
      PROVE  SnapshotIsBuffered' /\ RowsAreAccountedFor'
    BY <1>3, FlushRowsInv
<1>4. ASSUME Crash
      PROVE  SnapshotIsBuffered' /\ RowsAreAccountedFor'
    BY <1>4, CrashRowsInv
<1>5. ASSUME DbFails \/ DbRecovers \/ UNCHANGED vars
      PROVE  SnapshotIsBuffered' /\ RowsAreAccountedFor'
    <2>1. /\ pending' = pending /\ buffer' = buffer /\ todo' = todo /\ fpc' = fpc
          /\ auditLog' = auditLog /\ submitted' = submitted /\ ambiguous' = ambiguous
        BY <1>5 DEF DbFails, DbRecovers, vars, writerVars, flushVars
    <2>2. \A e \in Events : Outstanding(e)' = Outstanding(e)
        BY <2>1 DEF Outstanding, Copies
    <2> QED
        BY <2>1, <2>2 DEF RowsInv, SnapshotIsBuffered, RowsAreAccountedFor
<1>6. SnapshotIsBuffered' /\ RowsAreAccountedFor'
    BY <1>2, <1>3, <1>4, <1>5 DEF Next
<1> QED
    BY <1>1, <1>6 DEF RowsInv

\* The invariant of the row count holds in every reachable state.
LEMMA RowsInvariant == Spec => []RowsInv
BY InitRowsInv, NextRowsInv, PTL DEF Spec

\* No copy of an event is written twice: an event has at most one row per time it was
\* handed over, and one more per commit that was reported as a failure.
THEOREM AuditRowsAccounted == Spec => []RowsAreAccountedFor
<1>1. RowsInv => RowsAreAccountedFor
    BY DEF RowsInv
<1> QED
    BY <1>1, RowsInvariant, PTL
----------------------------------------------------------------------------
(* The two threads implement AuditTrail.                                   *)

\* A nonempty batch, snapshot or buffer holds its head.
LEMMA HeadInMemory ==
    ASSUME TypeOK
    PROVE  /\ \A w \in Writers : todo[w] # <<>> => Head(todo[w]) \in Events \cap InMemory
           /\ SnapshotIsBuffered /\ pending # <<>> => Head(pending) \in Events \cap InMemory
<1>1. ASSUME NEW w \in Writers, todo[w] # <<>>
      PROVE  Head(todo[w]) \in Events \cap InMemory
    <2>1. todo[w] \in Seq(Events)
        BY DEF TypeOK
    <2>2. Head(todo[w]) \in Events /\ Head(todo[w]) \in ToSet(todo[w])
        BY <1>1, <2>1, HeadTailMembers
    <2> QED
        BY <2>2, InMemoryMember
<1>2. ASSUME SnapshotIsBuffered, pending # <<>>
      PROVE  Head(pending) \in Events \cap InMemory
    <2> DEFINE h == Head(pending)
    <2>1. pending \in Seq(Events) /\ buffer \in Seq(Events)
        BY DEF TypeOK
    <2>2. h \in Events /\ h \in ToSet(pending)
        BY <1>2, <2>1, HeadTailMembers
    <2> HIDE DEF h
    <2>3. /\ Occurrences(pending, h) \in Nat /\ Occurrences(pending, h) > 0
          /\ Occurrences(buffer, h) \in Nat
          /\ Occurrences(buffer, h) > 0 <=> h \in ToSet(buffer)
        BY <2>1, <2>2, OccurrencesCounts
    <2>4. Occurrences(pending, h) <= Occurrences(buffer, h)
        BY <1>2, <2>2 DEF SnapshotIsBuffered
    <2>5. h \in ToSet(buffer)
        BY <2>3, <2>4
    <2> QED
        BY <2>2, <2>5, InMemoryMember DEF h
<1> QED
    BY <1>1, <1>2

\* To the abstract specification an attempt that returns is Record or Discard.
LEMMA PersistReturnsRefines ==
    ASSUME TypeOK, NEW h \in Events, h \in InMemory, PersistReturns(h), lost' = lost,
           InMemory' \in {InMemory, InMemory \ {h}}
    PROVE  Trail!Record(h) \/ Trail!Discard(h)
<1>1. CASE Written(h)
    <2>1. ToSet(auditLog') = ToSet(auditLog) \cup {h}
        BY <1>1, AppendMembers DEF Written, TypeOK
    <2>2. discarded' = discarded
        BY <1>1 DEF Written
    <2> QED
        BY <2>1, <2>2 DEF Trail!Record
<1>2. CASE GuardDiscards(h)
    <2>1. h \in Orphans /\ discarded' = discarded \cup {h} /\ auditLog' = auditLog
        BY <1>2 DEF GuardDiscards
    <2> QED
        BY <2>1 DEF Trail!Discard
<1> QED
    BY <1>1, <1>2 DEF PersistReturns

\* An attempt that raises is Record, if its row was committed, or nothing.
LEMMA PersistRaisesRefines ==
    ASSUME TypeOK, NEW h \in Events, h \in InMemory, PersistRaises(h), lost' = lost,
           InMemory' = InMemory
    PROVE  Trail!Record(h) \/ UNCHANGED Trail!trailVars
<1>1. CASE CommittedButRaised(h)
    <2>1. ToSet(auditLog') = ToSet(auditLog) \cup {h}
        BY <1>1, AppendMembers DEF CommittedButRaised, TypeOK
    <2>2. discarded' = discarded
        BY <1>1 DEF CommittedButRaised
    <2> QED
        BY <2>1, <2>2 DEF Trail!Record
<1>2. CASE RaisedOnly(h)
    BY <1>2 DEF RaisedOnly, Trail!trailVars
<1> QED
    BY <1>1, <1>2 DEF PersistRaises

\* Both start with nothing handed over.
LEMMA InitRefines == Init => Trail!TrailInit
<1> SUFFICES ASSUME Init PROVE Trail!TrailInit
    OBVIOUS
<1>1. InMemory = {} /\ ToSet(auditLog) = {}
    BY DEF Init, InMemory, ToSet
<1> QED
    BY <1>1 DEF Init, Trail!TrailInit

\* Every step of the threads is a step of AuditTrail or leaves its variables alone.
LEMMA NextRefines == RowsInv /\ [Next]_vars => [Trail!TrailNext]_(Trail!trailVars)
<1> SUFFICES ASSUME RowsInv, [Next]_vars
             PROVE  Trail!TrailNext \/ UNCHANGED Trail!trailVars
    OBVIOUS
<1>0. TypeOK /\ SnapshotIsBuffered /\ FlushedIsSettled
    BY DEF RowsInv, AuditInv
<1>1. ASSUME NEW w \in Writers, StartWrite(w)
      PROVE  Trail!TrailNext
    <2>1. PICK b \in Batches : todo' = [todo EXCEPT ![w] = b]
        BY <1>1 DEF StartWrite
    <2>2. ToSet(b) \in SUBSET Events
        BY AuditAssumption DEF ToSet
    <2>3. InMemory' = InMemory \cup ToSet(b)
        <3>1. \A v \in Writers : todo'[v] = IF v = w THEN b ELSE todo[v]
            BY <1>0, <2>1 DEF TypeOK
        <3>2. buffer' = buffer /\ ToSet(todo[w]) = {}
            BY <1>1 DEF StartWrite, ToSet
        <3> QED
            BY <3>1, <3>2 DEF InMemory
    <2>4. auditLog' = auditLog /\ discarded' = discarded /\ lost' = lost
        BY <1>1 DEF StartWrite
    <2>5. Trail!Submit(ToSet(b))
        BY <2>3, <2>4 DEF Trail!Submit
    <2> QED
        BY <2>2, <2>5 DEF Trail!TrailNext
<1>2. ASSUME NEW w \in Writers, CheckAvailable(w)
      PROVE  UNCHANGED Trail!trailVars
    BY <1>2 DEF CheckAvailable, InMemory, Trail!trailVars
<1>3. ASSUME NEW w \in Writers, WriterPersists(w)
      PROVE  Trail!TrailNext
    <2> DEFINE h == Head(todo[w])
    <2>1. todo[w] # <<>> /\ PersistReturns(h) /\ lost' = lost
        BY <1>3 DEF WriterPersists
    <2>2. h \in Events /\ h \in InMemory
        BY <1>0, <2>1, HeadInMemory
    <2>3. ToSet(todo[w]) = {h} \cup ToSet(Tail(todo[w]))
        BY <1>0, <2>1, HeadTailMembers DEF TypeOK
    <2> HIDE DEF h
    <2>4. InMemory' \in {InMemory, InMemory \ {h}}
        <3>1. \A v \in Writers : todo'[v] = IF v = w THEN Tail(todo[w]) ELSE todo[v]
            BY <1>0, <1>3 DEF WriterPersists, TypeOK
        <3>2. buffer' = buffer
            BY <1>3 DEF WriterPersists
        <3>3. InMemory \subseteq InMemory' \cup {h} /\ InMemory' \subseteq InMemory
            BY <2>3, <3>1, <3>2 DEF InMemory
        <3> QED
            BY <3>3
    <2> QED
        BY <1>0, <2>1, <2>2, <2>4, PersistReturnsRefines DEF Trail!TrailNext
<1>4. ASSUME NEW w \in Writers, WriterPersistFails(w)
      PROVE  Trail!TrailNext \/ UNCHANGED Trail!trailVars
    <2>1. /\ todo[w] # <<>> /\ PersistRaises(Head(todo[w])) /\ lost' = lost
          /\ InMemory' = InMemory
        BY <1>4 DEF WriterPersistFails, InMemory
    <2>2. Head(todo[w]) \in Events /\ Head(todo[w]) \in InMemory
        BY <1>0, <2>1, HeadInMemory
    <2> QED
        BY <1>0, <2>1, <2>2, PersistRaisesRefines DEF Trail!TrailNext
<1>5. ASSUME NEW w \in Writers, BufferEvent(w)
      PROVE  UNCHANGED Trail!trailVars
    <2> DEFINE h == Head(todo[w])
    <2>1. /\ h \in Events /\ ToSet(todo[w]) = {h} \cup ToSet(Tail(todo[w]))
          /\ buffer \in Seq(Events) /\ buffer' = Append(buffer, h)
        BY <1>0, <1>5, HeadTailMembers DEF BufferEvent, TypeOK
    <2> HIDE DEF h
    <2>2. ToSet(buffer') = ToSet(buffer) \cup {h}
        BY <2>1, AppendMembers
    <2>3. \A v \in Writers : todo'[v] = IF v = w THEN Tail(todo[w]) ELSE todo[v]
        BY <1>0, <1>5 DEF BufferEvent, TypeOK
    <2>4. InMemory' = InMemory
        BY <2>1, <2>2, <2>3 DEF InMemory
    <2> QED
        BY <1>5, <2>4 DEF BufferEvent, Trail!trailVars
<1>6. CASE Snapshot \/ EndFlush \/ DbFails \/ DbRecovers \/ UNCHANGED vars
    BY <1>6 DEF Snapshot, EndFlush, DbFails, DbRecovers, vars, writerVars, InMemory,
                Trail!trailVars
<1>7. CASE FlushPersists
    <2>1. /\ pending # <<>> /\ PersistReturns(Head(pending)) /\ lost' = lost
          /\ InMemory' = InMemory
        BY <1>7 DEF FlushPersists, writerVars, InMemory
    <2>2. Head(pending) \in Events /\ Head(pending) \in InMemory
        BY <1>0, <2>1, HeadInMemory
    <2> QED
        BY <1>0, <2>1, <2>2, PersistReturnsRefines DEF Trail!TrailNext
\* If the removed copy was the last one, the event settles.
<1>8. CASE RemoveFlushed
    <2> DEFINE h == Head(pending)
    <2>1. /\ pending # <<>> /\ h \in ToSet(auditLog) \cup discarded
          /\ buffer' = RemoveFirst(buffer, h) /\ todo' = todo
          /\ auditLog' = auditLog /\ discarded' = discarded /\ lost' = lost
        BY <1>0, <1>8 DEF RemoveFlushed, FlushedIsSettled, writerVars
    <2>2. h \in Events /\ h \in InMemory
        BY <1>0, <2>1, HeadInMemory
    <2> HIDE DEF h
    <2>3. buffer \in Seq(Events)
        BY <1>0 DEF TypeOK
    <2>4. ToSet(buffer) \subseteq ToSet(buffer') \cup {h}
        BY <2>1, <2>3, RemoveFirstMembers
    <2>5. ToSet(buffer') \subseteq ToSet(buffer)
        BY <2>1, <2>3, RemoveFirstShrinks
    <2>6. InMemory' \in {InMemory, InMemory \ {h}}
        BY <2>1, <2>4, <2>5 DEF InMemory
    <2>7. Trail!Settle(h) \/ UNCHANGED Trail!trailVars
        BY <2>1, <2>2, <2>6 DEF Trail!Settle, Trail!trailVars
    <2> QED
        BY <2>2, <2>7 DEF Trail!TrailNext
<1>9. CASE FlushFails
    <2>1. /\ pending # <<>> /\ PersistRaises(Head(pending)) /\ lost' = lost
          /\ InMemory' = InMemory
        BY <1>9 DEF FlushFails, writerVars, InMemory
    <2>2. Head(pending) \in Events /\ Head(pending) \in InMemory
        BY <1>0, <2>1, HeadInMemory
    <2> QED
        BY <1>0, <2>1, <2>2, PersistRaisesRefines DEF Trail!TrailNext
<1>10. CASE Crash
    <2>1. InMemory' = {}
        BY <1>10 DEF Crash, InMemory, ToSet
    <2>2. Trail!LosePending
        BY <1>10, <2>1 DEF Crash, Trail!LosePending
    <2> QED
        BY <2>2 DEF Trail!TrailNext
<1> QED
    BY <1>1, <1>2, <1>3, <1>4, <1>5, <1>6, <1>7, <1>8, <1>9, <1>10
       DEF Next, WriterStep, FlushStep

\* The writer threads and the flush thread keep the promise of AuditTrail: an event
\* leaves memory only when it is recorded, discarded as an orphan, or lost in a crash,
\* and a row is never taken back.
THEOREM AuditImplementsTrail == Spec => ImplementsTrail
BY InitRefines, NextRefines, RowsInvariant, PTL
   DEF Spec, ImplementsTrail, Trail!TrailSpec

=============================================================================
