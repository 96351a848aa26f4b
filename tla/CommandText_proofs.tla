------------------------- MODULE CommandText_proofs -------------------------
(* Proofs about paging, decoding, clipping and marking, for any files, caps,  *)
(* limits and budgets.  Most of what they need is about recursive functions   *)
(* over texts of any length; induction is stated with sets of numbers.        *)
EXTENDS CommandText, FiniteSetTheorems, SequenceTheorems, WellFoundedInduction, TLAPS

-----------------------------------------------------------------------------
(* Numbers and recursive functions.                                           *)

(* A set of numbers has a least one.                                          *)
LEMMA LeastIsThere ==
  ASSUME NEW S, S \subseteq Nat, S # {}
  PROVE  \E m \in S : \A n \in S : m <= n
<1> DEFINE Less == {ss \in Nat \X Nat : ss[1] < ss[2]}
<1>1. IsWellFoundedOn(Less, Nat)
  BY NatLessThanWellFounded DEF OpToRel
<1> HIDE DEF Less
<1>2. PICK m \in S : \A n \in S : ~(<<n, m>> \in Less)
  BY <1>1, WFMin
<1>3. ASSUME NEW n \in S PROVE m <= n
  <2>1. n \in Nat /\ m \in Nat /\ <<n, m>> \in Nat \X Nat
    OBVIOUS
  <2>2. n < m => <<n, m>> \in Less
    BY <2>1 DEF Less
  <2> QED
    BY <1>2, <2>1, <2>2
<1> QED
  BY <1>3

(* Induction: a set has all numbers if it has 0 and each of which it has the  *)
(* one before.                                                                *)
LEMMA Induction ==
  ASSUME NEW S, 0 \in S, \A n \in Nat \ {0} : n - 1 \in S => n \in S
  PROVE  \A n \in Nat : n \in S
<1> SUFFICES ASSUME Nat \ S # {} PROVE FALSE
  OBVIOUS
<1>1. PICK m \in Nat \ S : \A n \in Nat \ S : m <= n
  BY LeastIsThere
<1>2. m \in Nat \ {0} /\ m - 1 \in Nat /\ ~(m <= m - 1)
  BY <1>1
<1>3. m - 1 \in S
  BY <1>1, <1>2
<1> QED
  BY <1>2, <1>3

(* A recursive function is there if each value is given (stop) or made of one *)
(* at a place of lower rank (jump), and the ranks are bounded.                *)
Descends(D, X, stop, val, jump, step, rank, bound) ==
    \A d \in D :
        /\ d \in stop => val[d] \in X
        /\ d \notin stop => /\ jump[d] \in D
                            /\ rank[jump[d]] < rank[d]
                            /\ \A x \in X : step[d][x] \in X
        /\ rank[d] \in 0 .. bound

Computed(g, D, stop, val, jump, step) ==
    \A d \in D : g[d] = IF d \in stop THEN val[d] ELSE step[d][g[jump[d]]]

LEMMA Recursion ==
  ASSUME NEW D, NEW X, X # {}, NEW stop, NEW val, NEW jump, NEW step, NEW rank, NEW bound \in Nat,
         Descends(D, X, stop, val, jump, step, rank, bound)
  PROVE  \E g \in [D -> X] : Computed(g, D, stop, val, jump, step)
<1> USE DEF Descends, Computed
<1> DEFINE Made(g) == [d \in D |-> IF d \in stop THEN val[d] ELSE step[d][g[jump[d]]]]
           Upto(n, g) == \A d \in D : rank[d] < n => g[d] = Made(g)[d]
           S == {n \in Nat : \E g \in [D -> X] : Upto(n, g)}
<1>1. 0 \in S
  <2>1. PICK x \in X : TRUE
    OBVIOUS
  <2>2. [d \in D |-> x] \in [D -> X]
    OBVIOUS
  <2>3. Upto(0, [d \in D |-> x])
    OBVIOUS
  <2> HIDE DEF Upto
  <2> QED
    BY <2>2, <2>3
<1>2. ASSUME NEW n \in Nat \ {0}, n - 1 \in S PROVE n \in S
  <2>1. PICK g \in [D -> X] : Upto(n - 1, g)
    BY <1>2
  <2>2. Made(g) \in [D -> X]
    OBVIOUS
  <2>3. ASSUME NEW d \in D, rank[d] < n PROVE Made(g)[d] = Made(Made(g))[d]
    <3>1. CASE d \in stop
      BY <3>1
    <3>2. CASE d \notin stop
      <4>1. jump[d] \in D /\ rank[jump[d]] < n - 1
        BY <3>2, <2>3
      <4>2. g[jump[d]] = Made(g)[jump[d]]
        BY <4>1, <2>1
      <4> QED
        BY <3>2, <4>2
    <3> QED
      BY <3>1, <3>2
  <2> HIDE DEF Made
  <2> QED
    BY <2>2, <2>3
<1> HIDE DEF S
<1>3. bound + 1 \in S
  BY <1>1, <1>2, Induction
<1>4. PICK g \in [D -> X] : Upto(bound + 1, g)
  BY <1>3 DEF S
<1> QED
  BY <1>4
-----------------------------------------------------------------------------
(* Beginnings of texts.                                                       *)

LEMMA Beginning ==
  ASSUME NEW C, NEW t \in Seq(C), NEW k \in 0 .. Len(t)
  PROVE  LET b == SubSeq(t, 1, k) IN
         /\ b \in Seq(C) /\ Len(b) = k /\ DOMAIN b = 1 .. k
         /\ \A i \in 1 .. k : b[i] = t[i]
<1>1. \A i \in 1 .. k : t[i] \in C
  BY ElementOfSeq
<1>2. SubSeq(t, 1, k) \in Seq(C) /\ Len(SubSeq(t, 1, k)) = k
  BY <1>1, SubSeqProperties
<1>3. \A i \in 1 .. k : SubSeq(t, 1, k)[i] = t[i]
  BY <1>1, SubSeqProperties
<1> QED
  BY <1>2, <1>3, LenProperties

LEMMA StartOfConcat ==
  ASSUME NEW C, NEW s \in Seq(C), NEW t \in Seq(C)
  PROVE  /\ s \o t \in Seq(C) /\ Len(s \o t) = Len(s) + Len(t)
         /\ SubSeq(s \o t, 1, Len(s)) = s
<1> DEFINE u == s \o t
<1>1. Len(s) \in Nat /\ Len(t) \in Nat
  BY LenProperties
<1>2. /\ u \in Seq(C) /\ Len(u) = Len(s) + Len(t)
      /\ \A i \in 1 .. Len(s) + Len(t) : u[i] = IF i <= Len(s) THEN s[i] ELSE t[i - Len(s)]
  BY ConcatProperties
<1> HIDE DEF u
<1>3. Len(s) \in 0 .. Len(u)
  BY <1>1, <1>2
<1>4. /\ SubSeq(u, 1, Len(s)) \in Seq(C) /\ Len(SubSeq(u, 1, Len(s))) = Len(s)
      /\ \A i \in 1 .. Len(s) : SubSeq(u, 1, Len(s))[i] = u[i]
  BY <1>2, <1>3, Beginning
<1>5. \A i \in 1 .. Len(s) : u[i] = s[i]
  BY <1>1, <1>2
<1>6. SubSeq(u, 1, Len(s)) = s
  BY <1>4, <1>5, SeqEqual
<1> QED
  BY <1>2, <1>6 DEF u

LEMMA BeginningOfBeginning ==
  ASSUME NEW C, NEW t \in Seq(C), NEW k \in 0 .. Len(t), NEW i \in 0 .. k
  PROVE  SubSeq(SubSeq(t, 1, k), 1, i) = SubSeq(t, 1, i)
<1> DEFINE b == SubSeq(t, 1, k)
<1>1. b \in Seq(C) /\ Len(b) = k /\ \A j \in 1 .. k : b[j] = t[j]
  BY Beginning
<1> HIDE DEF b
<1>2. i \in 0 .. Len(t) /\ i \in 0 .. Len(b)
  BY <1>1
<1>3. /\ SubSeq(b, 1, i) \in Seq(C) /\ Len(SubSeq(b, 1, i)) = i
      /\ \A j \in 1 .. i : SubSeq(b, 1, i)[j] = b[j]
  BY <1>1, <1>2, Beginning
<1>4. /\ SubSeq(t, 1, i) \in Seq(C) /\ Len(SubSeq(t, 1, i)) = i
      /\ \A j \in 1 .. i : SubSeq(t, 1, i)[j] = t[j]
  BY <1>2, Beginning
<1>5. SubSeq(b, 1, i) = SubSeq(t, 1, i)
  BY <1>1, <1>3, <1>4, SeqEqual
<1> QED
  BY <1>5 DEF b

(* A text without the marker, cut after its first k bytes.                    *)
ShownTo(t, k) == IF k < Len(t) THEN SubSeq(t, 1, k) \o Mark ELSE t

(* What marking and splitting off the mark do to texts without the marker.    *)
LEMMA MarkOnce ==
  ASSUME NEW C, "mark" \notin C, NEW t \in Seq(C)
  PROVE  /\ ~Marked(t) /\ Unmarked(t) = t /\ AddMark(t) = t \o Mark
         /\ Marked(t \o Mark) /\ Unmarked(t \o Mark) = t /\ AddMark(t \o Mark) = t \o Mark
<1>1. ~Marked(t)
  BY ElementOfSeq, EmptySeq, LenProperties DEF Marked, EndsWith
<1> DEFINE m == t \o Mark
           D == C \cup {"mark"}
<1>2. t \in Seq(D) /\ Mark \in Seq(D) /\ Len(Mark) = 1 /\ Mark[1] = "mark"
  BY SeqMonotonic DEF Mark
<1>3. /\ m \in Seq(D) /\ Len(m) = Len(t) + 1 /\ m[Len(t) + 1] = "mark"
      /\ \A i \in 1 .. Len(t) : m[i] = t[i]
  BY <1>2, ConcatProperties, LenProperties
<1>4. Len(t) \in Nat
  BY LenProperties
<1> HIDE DEF m
<1>5. Marked(m)
  <2>1. m # <<>>
    BY <1>3, <1>4
  <2> QED
    BY <1>3, <1>4, <2>1 DEF Marked, EndsWith
<1>6. SubSeq(m, 1, Len(m) - 1) = t
  <2>1. Len(m) - 1 = Len(t) /\ Len(t) \in 0 .. Len(m)
    BY <1>3, <1>4
  <2>2. /\ SubSeq(m, 1, Len(t)) \in Seq(D) /\ Len(SubSeq(m, 1, Len(t))) = Len(t)
        /\ \A i \in 1 .. Len(t) : SubSeq(m, 1, Len(t))[i] = m[i]
    BY <1>3, <2>1, Beginning
  <2> QED
    BY <1>2, <1>3, <2>1, <2>2, SeqEqual
<1> QED
  BY <1>1, <1>5, <1>6 DEF Unmarked, AddMark, m

(* Bytes that make no character at the end are one at most.                   *)
LEMMA WholeIs ==
  ASSUME NEW C, NEW t \in Seq(C)
  PROVE  \E k \in 0 .. Len(t) :
            /\ Whole(t) = SubSeq(t, 1, k) /\ k >= Len(t) - 1
            /\ k < Len(t) => t[Len(t)] = "lead"
            /\ k = Len(t) => t = <<>> \/ t[Len(t)] # "lead"
<1>1. Len(t) \in Nat /\ (t # <<>> => Len(t) # 0)
  BY LenProperties, EmptySeq
<1>2. CASE EndsWith(t, "lead")
  BY <1>1, <1>2 DEF Whole, EndsWith
<1>3. CASE ~EndsWith(t, "lead")
  BY <1>1, <1>3, SubSeqFull DEF Whole, EndsWith
<1> QED
  BY <1>2, <1>3

LEMMA CutIs ==
  ASSUME NEW C, NEW t \in Seq(C), NEW keep \in Nat
  PROVE  \E k \in 0 .. Len(t) :
            /\ Cut(t, keep) = ShownTo(t, k)
            /\ k <= keep /\ (keep >= Len(t) <=> k = Len(t))
<1>1. Len(t) \in Nat
  BY LenProperties
<1>2. CASE keep >= Len(t)
  BY <1>1, <1>2 DEF Cut, ShownTo
<1>3. CASE ~(keep >= Len(t))
  <2> DEFINE b == SubSeq(t, 1, keep)
  <2>1. b \in Seq(C) /\ Len(b) = keep /\ keep \in 0 .. Len(t)
    BY <1>1, <1>3, Beginning
  <2> HIDE DEF b
  <2>2. PICK k \in 0 .. keep : Whole(b) = SubSeq(b, 1, k)
    BY <2>1, WholeIs
  <2>3. SubSeq(b, 1, k) = SubSeq(t, 1, k)
    BY <2>1, BeginningOfBeginning DEF b
  <2>4. Cut(t, keep) = SubSeq(t, 1, k) \o Mark
    BY <1>3, <2>2, <2>3 DEF Cut, b
  <2>5. k \in 0 .. Len(t) /\ k < Len(t) /\ k <= keep
    BY <1>1, <1>3, <2>2
  <2> QED
    BY <1>3, <2>4, <2>5 DEF ShownTo
<1> QED
  BY <1>2, <1>3

LEMMA Share ==
  ASSUME NEW max \in Nat
  PROVE  max \div Divisor \in 0 .. max
  BY ClipAssumption

(* What clip_output keeps: no more than the budget, all of a short stderr,    *)
(* and it says whether anything is gone.                                      *)
ClipsTo(out, err, max, i, j) ==
    LET clip == ClipOutput(out, err, max) IN
    /\ clip.out = ShownTo(out, i) /\ clip.err = ShownTo(err, j)
    /\ clip.clipped <=> i < Len(out) \/ j < Len(err)
    /\ i + j <= max
    /\ Len(err) <= max \div Divisor => j = Len(err)

LEMMA ClipIs ==
  ASSUME NEW C, NEW out \in Seq(C), NEW err \in Seq(C), NEW max \in Nat
  PROVE  \E i \in 0 .. Len(out), j \in 0 .. Len(err) : ClipsTo(out, err, max, i, j)
<1> DEFINE reserve == Least(Len(err), max \div Divisor)
           outKeep == Least(Len(out), max - reserve)
           errKeep == Least(Len(err), max - outKeep)
<1>1. Len(out) \in Nat /\ Len(err) \in Nat
  BY LenProperties
<1>2. reserve \in 0 .. max /\ reserve <= Len(err) /\ (Len(err) <= max \div Divisor => reserve = Len(err))
  BY <1>1, Share DEF Least
<1> HIDE DEF reserve
<1>3. outKeep \in Nat /\ outKeep <= Len(out) /\ outKeep + reserve <= max
  BY <1>1, <1>2 DEF Least
<1> HIDE DEF outKeep
<1>4. /\ errKeep \in Nat /\ errKeep <= Len(err) /\ outKeep + errKeep <= max
      /\ Len(err) <= max \div Divisor => errKeep = Len(err)
  BY <1>1, <1>2, <1>3 DEF Least
<1> HIDE DEF errKeep
<1>5. CASE Len(out) + Len(err) <= max
  <2>1. ClipOutput(out, err, max) = [out |-> out, err |-> err, clipped |-> FALSE]
    BY <1>5 DEF ClipOutput
  <2>2. ShownTo(out, Len(out)) = out /\ ShownTo(err, Len(err)) = err
    BY <1>1 DEF ShownTo
  <2>3. Len(out) \in 0 .. Len(out) /\ Len(err) \in 0 .. Len(err)
    BY <1>1
  <2>4. ClipsTo(out, err, max, Len(out), Len(err))
    BY <1>1, <1>5, <2>1, <2>2 DEF ClipsTo
  <2> QED
    BY <2>3, <2>4
<1>6. CASE ~(Len(out) + Len(err) <= max)
  <2>1. PICK i \in 0 .. Len(out) :
           /\ Cut(out, outKeep) = ShownTo(out, i)
           /\ i <= outKeep /\ (outKeep >= Len(out) <=> i = Len(out))
    BY <1>3, CutIs
  <2>2. PICK j \in 0 .. Len(err) :
           /\ Cut(err, errKeep) = ShownTo(err, j)
           /\ j <= errKeep /\ (errKeep >= Len(err) <=> j = Len(err))
    BY <1>4, CutIs
  <2>3. ClipOutput(out, err, max) = [out |-> ShownTo(out, i), err |-> ShownTo(err, j), clipped |-> TRUE]
    BY <1>6, <2>1, <2>2 DEF ClipOutput, outKeep, errKeep, reserve
  <2>4. i < Len(out) \/ j < Len(err)
    BY <1>1, <1>3, <1>4, <1>6, <2>1, <2>2
  <2>5. i + j <= max /\ (Len(err) <= max \div Divisor => j = Len(err))
    BY <1>1, <1>3, <1>4, <2>1, <2>2
  <2>6. ClipsTo(out, err, max, i, j)
    BY <2>3, <2>4, <2>5 DEF ClipsTo
  <2> QED
    BY <2>6
<1> QED
  BY <1>5, <1>6
-----------------------------------------------------------------------------
(* Decoding.                                                                  *)

(* Parts joined one after the other.                                          *)
Joined(C, parts, g) ==
    /\ g \in [0 .. Len(parts) -> Seq(C)]
    /\ g[0] = <<>>
    /\ \A i \in 1 .. Len(parts) : g[i] = g[i - 1] \o parts[i]

LEMMA FlattenIs ==
  ASSUME NEW C, NEW parts \in Seq(Seq(C))
  PROVE  \E g : Joined(C, parts, g) /\ FlattenSeq(parts) = g[Len(parts)]
<1>1. Len(parts) \in Nat /\ \A i \in 1 .. Len(parts) : parts[i] \in Seq(C)
  BY LenProperties, ElementOfSeq
<1>2. <<>> \in Seq(C)
  BY EmptySeq
<1>3. CASE Len(parts) = 0
  <2> DEFINE g == [i \in 0 .. 0 |-> <<>>]
  <2>1. Joined(C, parts, g)
    BY <1>2, <1>3 DEF Joined
  <2>2. FlattenSeq(parts) = <<>>
    BY <1>3, EmptySeq DEF FlattenSeq
  <2> QED
    BY <1>3, <2>1, <2>2
<1>4. CASE Len(parts) # 0
  <2> DEFINE D == 1 .. Len(parts)
             stop == {1}
             jump == [i \in D |-> i - 1]
             step == [i \in D |-> [x \in Seq(C) |-> x \o parts[i]]]
             rank == [i \in D |-> i]
             Flat(h) == h = [i \in D |-> IF i = 1 THEN parts[i] ELSE h[i - 1] \o parts[i]]
             flatten == CHOOSE h : Flat(h)
  <2>1. Descends(D, Seq(C), stop, parts, jump, step, rank, Len(parts))
    <3> SUFFICES ASSUME NEW i \in D
                 PROVE  /\ i \in stop => parts[i] \in Seq(C)
                        /\ i \notin stop => /\ jump[i] \in D
                                            /\ rank[jump[i]] < rank[i]
                                            /\ \A x \in Seq(C) : step[i][x] \in Seq(C)
                        /\ rank[i] \in 0 .. Len(parts)
      BY DEF Descends
    <3>1. parts[i] \in Seq(C) /\ rank[i] \in 0 .. Len(parts)
      BY <1>1
    <3>2. i # 1 => jump[i] \in D /\ rank[jump[i]] < rank[i]
      BY <1>1
    <3>3. \A x \in Seq(C) : x \o parts[i] \in Seq(C)
      BY <3>1, ConcatProperties
    <3> QED
      BY <3>1, <3>2, <3>3
  <2>2. PICK h \in [D -> Seq(C)] : Computed(h, D, stop, parts, jump, step)
    <3>1. Seq(C) # {}
      BY <1>2
    <3> HIDE DEF D, stop, jump, step, rank
    <3> QED
      BY <1>1, <2>1, <3>1, Recursion
  <2>3. Flat(h)
    <3>1. ASSUME NEW i \in D
          PROVE  h[i] = IF i = 1 THEN parts[i] ELSE h[i - 1] \o parts[i]
      <4>1. h[i] = IF i \in stop THEN parts[i] ELSE step[i][h[jump[i]]]
        BY <2>2 DEF Computed
      <4>2. CASE i = 1
        BY <4>1, <4>2
      <4>3. CASE i # 1
        <5>1. jump[i] = i - 1 /\ i - 1 \in D
          BY <1>1, <4>3
        <5>2. h[i - 1] \in Seq(C)
          BY <5>1
        <5>3. step[i][h[i - 1]] = h[i - 1] \o parts[i]
          BY <5>2
        <5> HIDE DEF step, jump
        <5> QED
          BY <4>1, <4>3, <5>1, <5>3
      <4> QED
        BY <4>2, <4>3
    <3> QED
      BY <3>1
  <2>4. Flat(flatten)
    <3> HIDE DEF Flat
    <3> QED
      BY <2>3
  <2>5. FlattenSeq(parts) = flatten[Len(parts)]
    BY <1>4 DEF FlattenSeq
  <2>6. \A i \in D : flatten[i] = IF i = 1 THEN parts[i] ELSE flatten[i - 1] \o parts[i]
    BY <2>4
  <2> HIDE DEF flatten
  <2> DEFINE S == {n \in Nat : n \in D => flatten[n] \in Seq(C)}
  <2>7. \A n \in Nat : n \in S
    <3>1. 0 \in S
      OBVIOUS
    <3>2. ASSUME NEW n \in Nat \ {0}, n - 1 \in S PROVE n \in S
      <4> SUFFICES ASSUME n \in D PROVE flatten[n] \in Seq(C)
        OBVIOUS
      <4>1. CASE n = 1
        BY <1>1, <2>6, <4>1
      <4>2. CASE n # 1
        <5>1. n - 1 \in D /\ flatten[n - 1] \in Seq(C) /\ parts[n] \in Seq(C)
          BY <1>1, <3>2, <4>2
        <5>2. flatten[n] = flatten[n - 1] \o parts[n]
          BY <1>1, <2>6, <4>2
        <5> QED
          BY <5>1, <5>2, ConcatProperties
      <4> QED
        BY <4>1, <4>2
    <3> HIDE DEF S
    <3> QED
      BY <3>1, <3>2, Induction
  <2> DEFINE g == [i \in 0 .. Len(parts) |-> IF i = 0 THEN <<>> ELSE flatten[i]]
  <2>8. g[0] = <<>> /\ \A i \in D : g[i] = flatten[i]
    BY <1>1
  <2>9. g \in [0 .. Len(parts) -> Seq(C)]
    BY <1>1, <1>2, <2>7
  <2> HIDE DEF g
  <2>10. ASSUME NEW i \in 1 .. Len(parts) PROVE g[i] = g[i - 1] \o parts[i]
    <3>1. CASE i = 1
      <4>1. <<>> \o parts[1] = parts[1] /\ i - 1 = 0
        BY <1>1, <3>1, ConcatEmptySeq
      <4> QED
        BY <2>6, <2>8, <3>1, <4>1
    <3>2. CASE i # 1
      <4>1. i - 1 \in D
        BY <1>1, <3>2
      <4> QED
        BY <2>6, <2>8, <3>2, <4>1
    <3> QED
      BY <3>1, <3>2
  <2>11. Joined(C, parts, g)
    BY <2>8, <2>9, <2>10 DEF Joined
  <2>12. FlattenSeq(parts) = g[Len(parts)]
    BY <1>1, <1>4, <2>5, <2>8
  <2> QED
    BY <2>11, <2>12
<1> QED
  BY <1>3, <1>4

(* Joining more parts goes on where joining fewer of them ends.               *)
LEMMA FlattenGrows ==
  ASSUME NEW C, NEW parts \in Seq(Seq(C)), NEW k \in 0 .. Len(parts),
         \A i \in 1 .. Len(parts) : parts[i] # <<>>
  PROVE  LET whole == FlattenSeq(parts)
             some == FlattenSeq(SubSeq(parts, 1, k))
         IN  /\ whole \in Seq(C) /\ Len(whole) >= Len(parts)
             /\ \E n \in 0 .. Len(whole) :
                   /\ some = SubSeq(whole, 1, n)
                   /\ n < Len(whole) <=> k < Len(parts)
<1> DEFINE b == SubSeq(parts, 1, k)
<1>1. Len(parts) \in Nat /\ \A i \in 1 .. Len(parts) : parts[i] \in Seq(C) /\ Len(parts[i]) \in Nat \ {0}
  BY LenProperties, ElementOfSeq, EmptySeq
<1>2. b \in Seq(Seq(C)) /\ Len(b) = k /\ \A i \in 1 .. k : b[i] = parts[i]
  BY Beginning
<1> HIDE DEF b
<1>3. PICK g : Joined(C, parts, g) /\ FlattenSeq(parts) = g[Len(parts)]
  BY FlattenIs
<1>4. PICK h : Joined(C, b, h) /\ FlattenSeq(b) = h[Len(b)]
  BY <1>2, FlattenIs
<1>5. \A i \in 0 .. Len(parts) : g[i] \in Seq(C) /\ Len(g[i]) \in Nat
  BY <1>3, LenProperties DEF Joined
<1> DEFINE Same == {n \in Nat : n <= k => g[n] = h[n]}
<1>6. \A n \in Nat : n \in Same
  <2>1. 0 \in Same
    BY <1>3, <1>4 DEF Joined
  <2>2. ASSUME NEW n \in Nat \ {0}, n - 1 \in Same PROVE n \in Same
    <3> SUFFICES ASSUME n <= k PROVE g[n] = h[n]
      OBVIOUS
    <3>1. n \in 1 .. Len(parts) /\ n \in 1 .. k /\ g[n - 1] = h[n - 1]
      BY <1>1, <2>2
    <3>2. g[n] = g[n - 1] \o parts[n] /\ h[n] = h[n - 1] \o b[n]
      BY <1>2, <1>3, <1>4, <3>1 DEF Joined
    <3> QED
      BY <1>2, <3>1, <3>2
  <2> HIDE DEF Same
  <2> QED
    BY <2>1, <2>2, Induction
<1>7. FlattenSeq(b) = g[k]
  BY <1>2, <1>4, <1>6
<1> DEFINE Grown ==
       {n \in Nat : n <= Len(parts) =>
           /\ Len(g[n]) >= n
           /\ n > k => Len(g[n]) > Len(g[k])
           /\ n >= k => SubSeq(g[n], 1, Len(g[k])) = g[k]}
<1>8. \A n \in Nat : n \in Grown
  <2>1. 0 \in Grown
    <3>1. g[0] = <<>> /\ Len(g[0]) = 0
      BY <1>3, EmptySeq DEF Joined
    <3>2. 0 >= k => k = 0
      BY <1>1
    <3>3. 0 >= k => SubSeq(g[0], 1, Len(g[k])) = g[k]
      BY <1>1, <1>5, <3>2, SubSeqFull
    <3>4. Len(g[0]) >= 0 /\ ~(0 > k)
      BY <1>1, <3>1
    <3> QED
      BY <3>3, <3>4
  <2>2. ASSUME NEW n \in Nat \ {0}, n - 1 \in Grown PROVE n \in Grown
    <3> SUFFICES ASSUME n <= Len(parts)
                 PROVE  /\ Len(g[n]) >= n
                        /\ n > k => Len(g[n]) > Len(g[k])
                        /\ n >= k => SubSeq(g[n], 1, Len(g[k])) = g[k]
      OBVIOUS
    <3> DEFINE u == g[n]
               v == g[n - 1]
    <3>1. /\ n \in 1 .. Len(parts) /\ n - 1 \in 0 .. Len(parts)
          /\ v \in Seq(C) /\ g[k] \in Seq(C) /\ parts[n] \in Seq(C)
          /\ Len(v) \in Nat /\ Len(g[k]) \in Nat /\ Len(parts[n]) \in Nat \ {0}
      BY <1>1, <1>5
    <3>2. u = v \o parts[n]
      BY <1>3, <3>1 DEF Joined
    <3>3. /\ n - 1 <= Len(parts) => Len(v) >= n - 1
          /\ n - 1 > k => Len(v) > Len(g[k])
          /\ n - 1 >= k => SubSeq(v, 1, Len(g[k])) = g[k]
      BY <2>2, <3>1
    <3>4. n = k => u = g[k]
      OBVIOUS
    <3> HIDE DEF u, v
    <3>5. u \in Seq(C) /\ Len(u) = Len(v) + Len(parts[n]) /\ SubSeq(u, 1, Len(v)) = v
      BY <3>1, <3>2, StartOfConcat
    <3>6. CASE n <= k
      <4>1. n = k => SubSeq(u, 1, Len(g[k])) = g[k]
        BY <3>1, <3>4, SubSeqFull
      <4> QED
        BY <3>1, <3>3, <3>5, <3>6, <4>1 DEF u
    <3>7. CASE ~(n <= k)
      <4>1. n - 1 >= k
        BY <3>7
      <4>2. Len(v) >= Len(g[k]) /\ SubSeq(v, 1, Len(g[k])) = g[k]
        <5>1. n - 1 = k => v = g[k]
          BY DEF v
        <5> QED
          BY <3>1, <3>3, <4>1, <5>1
      <4>3. SubSeq(u, 1, Len(g[k])) = g[k]
        <5>1. Len(g[k]) \in 0 .. Len(v) /\ Len(v) \in 0 .. Len(u)
          BY <3>1, <3>5, <4>2
        <5> QED
          BY <3>5, <4>2, <5>1, BeginningOfBeginning
      <4> QED
        BY <3>1, <3>3, <3>5, <3>7, <4>2, <4>3 DEF u
    <3> QED
      BY <3>6, <3>7
  <2> HIDE DEF Grown
  <2> QED
    BY <2>1, <2>2, Induction
<1>9. Len(parts) \in Grown
  BY <1>1, <1>8
<1> DEFINE n == Len(g[k])
<1>10. g[Len(parts)] \in Seq(C) /\ n \in Nat /\ Len(g[Len(parts)]) \in Nat
  BY <1>1, <1>5
<1>11. k = Len(parts) => n = Len(g[Len(parts)])
  OBVIOUS
<1>12. n \in 0 .. Len(g[Len(parts)])
  BY <1>1, <1>9, <1>10, <1>11
<1>13. /\ FlattenSeq(b) = SubSeq(FlattenSeq(parts), 1, n)
       /\ n < Len(g[Len(parts)]) <=> k < Len(parts)
  BY <1>1, <1>3, <1>7, <1>9, <1>10, <1>11
<1> HIDE DEF n
<1> QED
  BY <1>1, <1>3, <1>9, <1>10, <1>12, <1>13 DEF b
(* The texts that a command's output is made of.                              *)
Chars == Bytes \cup {"lead", "cont", "note"}

(* What each byte is decoded to.                                              *)
Letters(data) ==
    [i \in DOMAIN data |-> IF i \in Undecodable(data, TRUE) THEN <<"lead", "cont">> ELSE <<data[i]>>]

LEMMA LettersType ==
  ASSUME NEW data \in Seq(Bytes)
  PROVE  /\ Letters(data) \in Seq(Seq(Chars)) /\ Len(Letters(data)) = Len(data)
         /\ \A i \in 1 .. Len(data) : Letters(data)[i] # <<>>
<1>1. Len(data) \in Nat /\ DOMAIN data = 1 .. Len(data) /\ \A i \in 1 .. Len(data) : data[i] \in Chars
  BY LenProperties, ElementOfSeq DEF Chars
<1>2. \A c \in Chars : <<c>> \in Seq(Chars) /\ <<c>> # <<>>
  OBVIOUS
<1>3. <<"lead", "cont">> \in Seq(Chars) /\ <<"lead", "cont">> # <<>>
  BY DEF Chars
<1>4. \A i \in 1 .. Len(data) : Letters(data)[i] \in Seq(Chars) /\ Letters(data)[i] # <<>>
  BY <1>1, <1>2, <1>3 DEF Letters
<1>5. Letters(data) \in [1 .. Len(data) -> Seq(Chars)]
  BY <1>1, <1>4 DEF Letters
<1> QED
  BY <1>1, <1>4, <1>5

(* The bytes before a place where no character is cut are decoded in the same *)
(* way whatever follows.                                                      *)
LEMMA LettersOfBeginning ==
  ASSUME NEW raw \in Seq(Bytes), NEW k \in 0 .. Len(raw),
         0 < k /\ k < Len(raw) => raw[k] # "lead" \/ raw[k + 1] # "cont"
  PROVE  Letters(SubSeq(raw, 1, k)) = SubSeq(Letters(raw), 1, k)
<1> DEFINE b == SubSeq(raw, 1, k)
           s == SubSeq(Letters(raw), 1, k)
<1>1. Len(raw) \in Nat /\ DOMAIN raw = 1 .. Len(raw)
  BY LenProperties
<1>2. b \in Seq(Bytes) /\ Len(b) = k /\ DOMAIN b = 1 .. k /\ \A i \in 1 .. k : b[i] = raw[i]
  BY Beginning
<1>3. /\ s \in Seq(Seq(Chars)) /\ Len(s) = k /\ \A i \in 1 .. k : s[i] = Letters(raw)[i]
  BY LettersType, Beginning
<1>4. Letters(b) \in Seq(Seq(Chars)) /\ Len(Letters(b)) = k
  BY <1>2, LettersType
<1> HIDE DEF b, s
<1>5. ASSUME NEW i \in 1 .. k PROVE Letters(b)[i] = s[i]
  <2>1. i \in 1 .. Len(raw) /\ b[i] = raw[i] /\ k \in Nat
    BY <1>1, <1>2
  <2>2. i > 1 => b[i - 1] = raw[i - 1]
    BY <1>2, <2>1
  <2>3. i < k => b[i + 1] = raw[i + 1]
    BY <1>2, <2>1
  <2>4. i \in Undecodable(b, TRUE) <=> i \in Undecodable(raw, TRUE)
    <3> DEFINE Begun(data) == i # 1 /\ data[i - 1] = "lead"
               Ended(data) == i # Len(data) /\ data[i + 1] = "cont"
    <3>1. /\ i \in Undecodable(b, TRUE) <=>
                (b[i] = "cont" /\ ~Begun(b)) \/ (b[i] = "lead" /\ ~Ended(b))
          /\ i \in Undecodable(raw, TRUE) <=>
                (raw[i] = "cont" /\ ~Begun(raw)) \/ (raw[i] = "lead" /\ ~Ended(raw))
      BY <1>1, <1>2, <2>1 DEF Undecodable
    <3>2. Begun(b) <=> Begun(raw)
      BY <2>1, <2>2
    <3>3. i \in Nat /\ k \in Nat /\ Len(raw) \in Nat /\ Len(b) = k /\ 0 < i /\ i <= k /\ k <= Len(raw)
      BY <1>1, <1>2
    <3>4. raw[i] = "lead" => (Ended(b) <=> Ended(raw))
      <4>1. CASE i < k
        <5>1. i # Len(b) /\ i # Len(raw)
          BY <3>3, <4>1
        <5> QED
          BY <2>3, <4>1, <5>1
      <4>2. CASE i = k
        <5>1. i = Len(b) /\ 0 < i /\ (i # Len(raw) => i < Len(raw))
          BY <3>3, <4>2
        <5>2. 0 < i /\ i < Len(raw) => raw[i] # "lead" \/ raw[i + 1] # "cont"
          BY <4>2
        <5> QED
          BY <5>1, <5>2
      <4> QED
        BY <3>3, <4>1, <4>2
    <3> HIDE DEF Begun, Ended
    <3> QED
      BY <2>1, <3>1, <3>2, <3>4
  <2>5. /\ Letters(b)[i] = IF i \in Undecodable(b, TRUE) THEN <<"lead", "cont">> ELSE <<b[i]>>
        /\ Letters(raw)[i] = IF i \in Undecodable(raw, TRUE) THEN <<"lead", "cont">> ELSE <<raw[i]>>
    BY <1>1, <1>2, <2>1 DEF Letters
  <2> QED
    BY <1>3, <2>1, <2>4, <2>5
<1>6. Letters(b) = s
  BY <1>3, <1>4, <1>5, SeqEqual
<1> QED
  BY <1>6 DEF b, s

(* What is decoded of a stream is how it would begin in full, and all of it   *)
(* unless bytes were dropped.                                                 *)
LEMMA DecodedIs ==
  ASSUME NEW raw \in Seq(Bytes)
  PROVE  /\ InFull(raw) \in Seq(Chars) /\ Len(InFull(raw)) >= Len(raw)
         /\ \E n \in 0 .. Len(InFull(raw)) :
               /\ Decoded(raw) = SubSeq(InFull(raw), 1, n)
               /\ n < Len(InFull(raw)) <=> Dropped(raw)
<1> DEFINE c == SubSeq(raw, 1, Least(BodyMax, Len(raw)))
           data == IF Dropped(raw) THEN Whole(c) ELSE c
<1>1. Len(raw) \in Nat /\ BodyMax \in Nat
  BY LenProperties, ReadFileAssumption
<1>2. Decoded(raw) = FlattenSeq(Letters(data)) /\ InFull(raw) = FlattenSeq(Letters(raw))
  BY DEF Decoded, InFull, Letters, Captured
<1>3. \E k \in 0 .. Len(raw) :
         /\ data = SubSeq(raw, 1, k)
         /\ k < Len(raw) <=> Dropped(raw)
         /\ 0 < k /\ k < Len(raw) => raw[k] # "lead" \/ raw[k + 1] # "cont"
  <2>1. CASE Dropped(raw)
    <3>1. c = SubSeq(raw, 1, BodyMax) /\ BodyMax < Len(raw) /\ BodyMax \in 0 .. Len(raw)
      BY <1>1, <2>1 DEF Dropped, Least
    <3>2. c \in Seq(Bytes) /\ Len(c) = BodyMax /\ \A i \in 1 .. BodyMax : c[i] = raw[i]
      BY <3>1, Beginning
    <3> HIDE DEF c
    <3>3. PICK k \in 0 .. BodyMax :
             /\ Whole(c) = SubSeq(c, 1, k) /\ k >= BodyMax - 1
             /\ k < BodyMax => c[BodyMax] = "lead"
             /\ k = BodyMax => c = <<>> \/ c[BodyMax] # "lead"
      BY <3>2, WholeIs
    <3>4. SubSeq(c, 1, k) = SubSeq(raw, 1, k)
      BY <3>1, <3>3, BeginningOfBeginning
    <3>5. k \in 0 .. Len(raw) /\ k < Len(raw)
      BY <1>1, <3>1, <3>3
    <3>6. 0 < k => raw[k] # "lead" \/ raw[k + 1] # "cont"
      <4>1. CASE k < BodyMax
        <5>1. BodyMax = k + 1 /\ BodyMax \in 1 .. BodyMax
          BY <1>1, <3>3, <4>1
        <5>2. raw[k + 1] = "lead"
          BY <3>2, <3>3, <4>1, <5>1
        <5> QED
          BY <5>2
      <4>2. CASE k = BodyMax /\ 0 < k
        <5>1. c # <<>> /\ k \in 1 .. BodyMax
          BY <1>1, <3>2, <4>2, EmptySeq
        <5> QED
          BY <3>2, <3>3, <4>2, <5>1
      <4> QED
        BY <1>1, <3>3, <4>1, <4>2
    <3> QED
      BY <2>1, <3>3, <3>4, <3>5, <3>6
  <2>2. CASE ~Dropped(raw)
    <3>1. data = SubSeq(raw, 1, Len(raw)) /\ Len(raw) \in 0 .. Len(raw)
      BY <1>1, <2>2 DEF Dropped, Least
    <3> HIDE DEF data
    <3> QED
      BY <1>1, <2>2, <3>1
  <2> QED
    BY <2>1, <2>2
<1> HIDE DEF data
<1>4. PICK k \in 0 .. Len(raw) :
         /\ data = SubSeq(raw, 1, k)
         /\ k < Len(raw) <=> Dropped(raw)
         /\ Letters(data) = SubSeq(Letters(raw), 1, k)
  BY <1>3, LettersOfBeginning
<1>5. /\ Letters(raw) \in Seq(Seq(Chars)) /\ Len(Letters(raw)) = Len(raw)
      /\ \A i \in 1 .. Len(Letters(raw)) : Letters(raw)[i] # <<>>
  BY LettersType
<1> DEFINE parts == Letters(raw)
<1> HIDE DEF parts
<1>6. /\ FlattenSeq(parts) \in Seq(Chars) /\ Len(FlattenSeq(parts)) >= Len(parts)
      /\ \E n \in 0 .. Len(FlattenSeq(parts)) :
            /\ FlattenSeq(SubSeq(parts, 1, k)) = SubSeq(FlattenSeq(parts), 1, n)
            /\ n < Len(FlattenSeq(parts)) <=> k < Len(parts)
  BY <1>5, FlattenGrows DEF parts
<1> QED
  BY <1>2, <1>4, <1>5, <1>6 DEF parts
-----------------------------------------------------------------------------
(* What a command's caller is told.                                           *)

(* A text cut after k bytes, as it is or marked at any rate.                  *)
LEMMA ToldIs ==
  ASSUME NEW C, "mark" \notin C, NEW t \in Seq(C), NEW k \in 0 .. Len(t)
  PROVE  LET shown == ShownTo(t, k)
             kept == SubSeq(t, 1, k)
         IN  /\ kept \in Seq(C) /\ Len(kept) = k
             /\ Unmarked(shown) = kept /\ Unmarked(AddMark(shown)) = kept
             /\ Marked(AddMark(shown)) /\ (Marked(shown) <=> k < Len(t))
             /\ AddMark(shown) = AddMark(kept)
             /\ shown = IF k < Len(t) THEN AddMark(kept) ELSE kept
<1> DEFINE kept == SubSeq(t, 1, k)
<1>1. kept \in Seq(C) /\ Len(kept) = k /\ k \in Nat /\ Len(t) \in Nat
  BY Beginning, LenProperties
<1>2. ~(k < Len(t)) => kept = t
  BY <1>1, SubSeqFull
<1>3. ShownTo(t, k) = IF k < Len(t) THEN kept \o Mark ELSE kept
  BY <1>2 DEF ShownTo
<1> HIDE DEF kept
<1>4. /\ ~Marked(kept) /\ Unmarked(kept) = kept /\ AddMark(kept) = kept \o Mark
      /\ Marked(kept \o Mark) /\ Unmarked(kept \o Mark) = kept /\ AddMark(kept \o Mark) = kept \o Mark
  BY <1>1, MarkOnce
<1> QED
  BY <1>1, <1>3, <1>4 DEF kept

LEMMA DecodedType ==
  ASSUME NEW raw \in Seq(Bytes)
  PROVE  Decoded(raw) \in Seq(Chars)
<1>1. PICK n \in 0 .. Len(InFull(raw)) : Decoded(raw) = SubSeq(InFull(raw), 1, n)
  BY DecodedIs
<1>2. InFull(raw) \in Seq(Chars)
  BY DecodedIs
<1> QED
  BY <1>1, <1>2, Beginning

LEMMA CharsUnmarked == "mark" \notin Chars
  BY ReadFileAssumption DEF Chars

LEMMA NotesType ==
  ASSUME NEW n \in Nat
  PROVE  Notes(n) \in Seq(Chars) /\ Len(Notes(n)) = n /\ \A i \in 1 .. n : Notes(n)[i] = "note"
<1>1. Notes(n) \in [1 .. n -> Chars]
  BY DEF Notes, Chars
<1> QED
  BY <1>1 DEF Notes

(* The answer is a beginning of each stream, marked if it is not all; it is   *)
(* within the budget, has all of a short stderr, and is what the row keeps.   *)
Answers(p, i, j) ==
    LET a == Output(p)
        body == Bodies(a.out, a.err, BodyMax)
        out == Decoded(p.out)
        err == Decoded(p.err) \o Notes(p.notes)
    IN  /\ Unmarked(a.out) = SubSeq(out, 1, i) /\ Unmarked(a.err) = SubSeq(err, 1, j)
        /\ Marked(a.out) <=> Dropped(p.out) \/ i < Len(out)
        /\ Marked(a.err) <=> Dropped(p.err) \/ j < Len(err)
        /\ ~Marked(a.err) => a.err = SubSeq(err, 1, j)
        /\ a.truncated <=> Marked(a.out) \/ Marked(a.err)
        /\ Len(Unmarked(a.out)) + Len(Unmarked(a.err)) <= BodyMax
        /\ Len(err) <= BodyMax \div Divisor => j = Len(err)
        /\ body.out = a.out /\ body.err = a.err /\ (body.truncated <=> a.truncated)

LEMMA OutputIs ==
  ASSUME NEW p, p.out \in Seq(Bytes), p.err \in Seq(Bytes), p.notes \in Nat
  PROVE  \E i \in 0 .. Len(Decoded(p.out)), j \in 0 .. Len(Decoded(p.err) \o Notes(p.notes)) :
            Answers(p, i, j)
<1> DEFINE a == Output(p)
           body == Bodies(a.out, a.err, BodyMax)
           out == Decoded(p.out)
           notes == Notes(p.notes)
           err == Decoded(p.err) \o notes
           clip == ClipOutput(out, err, BodyMax)
<1>1. out \in Seq(Chars) /\ err \in Seq(Chars) /\ BodyMax \in Nat
  <2>1. out \in Seq(Chars)
    BY DecodedType
  <2> DEFINE text == Decoded(p.err)
  <2>2. text \in Seq(Chars) /\ notes \in Seq(Chars)
    BY DecodedType, NotesType
  <2> HIDE DEF text, notes
  <2>3. text \o notes \in Seq(Chars)
    BY <2>2, ConcatProperties
  <2> QED
    BY <2>1, <2>3, ReadFileAssumption DEF text
<1>2. /\ a.out = IF Dropped(p.out) THEN AddMark(clip.out) ELSE clip.out
      /\ a.err = IF Dropped(p.err) THEN AddMark(clip.err) ELSE clip.err
      /\ a.truncated <=> clip.clipped \/ Dropped(p.out) \/ Dropped(p.err)
  BY DEF Output
<1>3. /\ body.out = IF Marked(a.out) THEN AddMark(ClipOutput(Unmarked(a.out), Unmarked(a.err), BodyMax).out)
                    ELSE ClipOutput(Unmarked(a.out), Unmarked(a.err), BodyMax).out
      /\ body.err = IF Marked(a.err) THEN AddMark(ClipOutput(Unmarked(a.out), Unmarked(a.err), BodyMax).err)
                    ELSE ClipOutput(Unmarked(a.out), Unmarked(a.err), BodyMax).err
      /\ body.truncated <=> \/ ClipOutput(Unmarked(a.out), Unmarked(a.err), BodyMax).clipped
                            \/ Marked(a.out) \/ Marked(a.err)
  <2> HIDE DEF a
  <2> QED
    BY DEF Bodies
<1> HIDE DEF a, body, out, err, notes
<1>4. PICK i \in 0 .. Len(out), j \in 0 .. Len(err) : ClipsTo(out, err, BodyMax, i, j)
  BY <1>1, ClipIs
<1>5. /\ clip.out = ShownTo(out, i) /\ clip.err = ShownTo(err, j)
      /\ clip.clipped <=> i < Len(out) \/ j < Len(err)
      /\ i + j <= BodyMax
      /\ Len(err) <= BodyMax \div Divisor => j = Len(err)
  BY <1>4 DEF ClipsTo
<1> HIDE DEF clip
<1> DEFINE left == SubSeq(out, 1, i)
           right == SubSeq(err, 1, j)
           shownOut == ShownTo(out, i)
           shownErr == ShownTo(err, j)
<1>6. /\ left \in Seq(Chars) /\ Len(left) = i
      /\ Unmarked(shownOut) = left /\ Unmarked(AddMark(shownOut)) = left
      /\ Marked(AddMark(shownOut)) /\ (Marked(shownOut) <=> i < Len(out))
      /\ AddMark(shownOut) = AddMark(left)
      /\ shownOut = IF i < Len(out) THEN AddMark(left) ELSE left
  BY <1>1, ToldIs, CharsUnmarked
<1>7. /\ right \in Seq(Chars) /\ Len(right) = j
      /\ Unmarked(shownErr) = right /\ Unmarked(AddMark(shownErr)) = right
      /\ Marked(AddMark(shownErr)) /\ (Marked(shownErr) <=> j < Len(err))
      /\ AddMark(shownErr) = AddMark(right)
      /\ shownErr = IF j < Len(err) THEN AddMark(right) ELSE right
  BY <1>1, ToldIs, CharsUnmarked
<1>8. clip.out = shownOut /\ clip.err = shownErr
  BY <1>5
<1> HIDE DEF left, right, shownOut, shownErr
<1>9. /\ Unmarked(a.out) = left /\ (Marked(a.out) <=> Dropped(p.out) \/ i < Len(out))
      /\ a.out = IF Marked(a.out) THEN AddMark(left) ELSE left
  BY <1>2, <1>6, <1>8
<1>10. /\ Unmarked(a.err) = right /\ (Marked(a.err) <=> Dropped(p.err) \/ j < Len(err))
       /\ a.err = IF Marked(a.err) THEN AddMark(right) ELSE right
  BY <1>2, <1>7, <1>8
<1>11. ClipOutput(left, right, BodyMax) = [out |-> left, err |-> right, clipped |-> FALSE]
  BY <1>5, <1>6, <1>7 DEF ClipOutput
<1>12. /\ ClipOutput(left, right, BodyMax).out = left /\ ClipOutput(left, right, BodyMax).err = right
       /\ ~ClipOutput(left, right, BodyMax).clipped
  BY <1>11
<1>13. a.truncated <=> Marked(a.out) \/ Marked(a.err)
  BY <1>2, <1>5, <1>9, <1>10
<1>14. Len(Unmarked(a.out)) + Len(Unmarked(a.err)) <= BodyMax
  BY <1>5, <1>6, <1>7, <1>9, <1>10
<1>15. body.out = a.out /\ body.err = a.err /\ (body.truncated <=> a.truncated)
  BY <1>3, <1>9, <1>10, <1>12, <1>13
<1>16. Answers(p, i, j)
  BY <1>5, <1>9, <1>10, <1>13, <1>14, <1>15 DEF Answers, a, body, out, err, notes, left, right
<1> QED
  BY <1>16 DEF out, err, notes

(* A stream with notes after it, cut at j.                                    *)
LEMMA FaithfulIs ==
  ASSUME NEW text, NEW full \in Seq(Chars), NEW d \in 0 .. Len(full), NEW notes \in Nat,
         NEW j \in 0 .. d + notes,
         Unmarked(text) = SubSeq(SubSeq(full, 1, d) \o Notes(notes), 1, j),
         Marked(text) <=> d < Len(full) \/ j < d + notes
  PROVE  Faithful(text, full, notes)
<1> DEFINE b == SubSeq(full, 1, d)
           after == Notes(notes)
           all == b \o after
<1>1. b \in Seq(Chars) /\ Len(b) = d /\ d \in Nat /\ Len(full) \in Nat /\ d <= Len(full)
  BY Beginning, LenProperties
<1>2. after \in Seq(Chars) /\ Len(after) = notes /\ \A i \in 1 .. notes : after[i] = "note"
  BY NotesType
<1>10. Unmarked(text) = SubSeq(all, 1, j)
  OBVIOUS
<1> HIDE DEF b, after
<1>3. /\ all \in Seq(Chars) /\ Len(all) = d + notes
      /\ \A i \in 1 .. d + notes : all[i] = IF i <= d THEN b[i] ELSE after[i - d]
  BY <1>1, <1>2, ConcatProperties
<1>4. SubSeq(all, 1, d) = b
  BY <1>1, <1>2, StartOfConcat
<1> HIDE DEF all
<1>5. CASE j <= d
  <2>1. SubSeq(all, 1, j) = SubSeq(full, 1, j)
    <3>1. d \in 0 .. Len(all) /\ j \in 0 .. d
      BY <1>1, <1>3, <1>5
    <3>2. SubSeq(SubSeq(all, 1, d), 1, j) = SubSeq(all, 1, j)
      BY <1>3, <3>1, BeginningOfBeginning
    <3>3. SubSeq(SubSeq(full, 1, d), 1, j) = SubSeq(full, 1, j)
      BY <3>1, BeginningOfBeginning
    <3> QED
      BY <1>4, <3>2, <3>3 DEF b
  <2>2. SubSeq(full, 1, j) \in Seq(Chars) /\ j \in 0 .. Len(full)
    BY <1>1, <1>5, Beginning
  <2>3. SubSeq(full, 1, j) = SubSeq(full, 1, j) \o Notes(0)
    <3>1. Notes(0) = <<>>
      BY NotesType, EmptySeq
    <3> QED
      BY <2>2, <3>1, ConcatEmptySeq
  <2>4. Marked(text) <=> j < Len(full) \/ 0 < notes
    BY <1>1, <1>5
  <2>5. 0 \in 0 .. notes
    OBVIOUS
  <2> QED
    BY <1>10, <2>1, <2>2, <2>3, <2>4, <2>5 DEF Faithful
<1>6. CASE ~(j <= d)
  <2> DEFINE n == j - d
             s == SubSeq(all, 1, j)
             fewer == Notes(n)
             r == b \o fewer
  <2>1. n \in 0 .. notes /\ n \in Nat /\ j = d + n /\ j \in 0 .. Len(all)
    BY <1>1, <1>3, <1>6
  <2> HIDE DEF n
  <2>2. s \in Seq(Chars) /\ Len(s) = d + n /\ \A i \in 1 .. d + n : s[i] = all[i]
    BY <1>3, <2>1, Beginning
  <2>3. fewer \in Seq(Chars) /\ Len(fewer) = n /\ \A i \in 1 .. n : fewer[i] = "note"
    BY <2>1, NotesType
  <2> HIDE DEF fewer
  <2>4. /\ r \in Seq(Chars) /\ Len(r) = d + n
        /\ \A i \in 1 .. d + n : r[i] = IF i <= d THEN b[i] ELSE fewer[i - d]
    BY <1>1, <2>3, ConcatProperties
  <2> HIDE DEF s, r
  <2>5. ASSUME NEW i \in 1 .. d + n PROVE s[i] = r[i]
    <3>1. i \in 1 .. d + notes /\ (~(i <= d) => i - d \in 1 .. n /\ i - d \in 1 .. notes)
      BY <1>1, <2>1
    <3>2. ~(i <= d) => fewer[i - d] = "note" /\ after[i - d] = "note"
      BY <1>2, <2>3, <3>1
    <3> QED
      BY <1>3, <2>2, <2>4, <3>1, <3>2
  <2>6. s = r
    BY <2>2, <2>4, <2>5, SeqEqual
  <2>7. Marked(text) <=> d < Len(full) \/ n < notes
    BY <1>1, <2>1
  <2>8. d \in 0 .. Len(full)
    OBVIOUS
  <2> QED
    BY <1>10, <2>1, <2>6, <2>7, <2>8 DEF Faithful, s, r, b, fewer
<1> QED
  BY <1>5, <1>6
(* A file is bytes.                                                           *)
FileOK == file \in Seq(Bytes)

TextsOK == LossMarked /\ StderrKept /\ RowAgrees

CommandInv == FileOK /\ TextsOK

LEMMA FileInit == Init => FileOK
<1> SUFFICES ASSUME Init PROVE file \in Seq(Bytes)
  BY DEF FileOK
<1>1. PICK n \in 0 .. MaxBytes : file \in [1 .. n -> Bytes]
  BY DEF Init
<1> QED
  BY <1>1, ReadFileAssumption

(* Only the command's end is told; nothing changes after it.                  *)
LEMMA NotTold ==
  ASSUME FileOK, TextsOK, Next, UNCHANGED <<printed, said>>
  PROVE  FileOK' /\ TextsOK'
<1>1. phase' # "printed"
  BY DEF Next, tool_read_file, Missing, NotAFile, NotText, Open, Skip, Take, Skipped, Returns,
         NotUtf8, Read, Failed, AppendByte, Unlink, client
<1>2. FileOK'
  <2>1. CASE tool_read_file \/ Unlink
    BY <2>1 DEF tool_read_file, Unlink, FileOK
  <2>2. CASE AppendByte
    BY <2>2, AppendProperties DEF AppendByte, FileOK
  <2> QED
    BY <2>1, <2>2 DEF Next
<1> QED
  BY <1>1, <1>2 DEF TextsOK, LossMarked, StderrKept, RowAgrees

LEMMA ToldRight ==
  ASSUME FileOK, tool_shell
  PROVE  FileOK' /\ TextsOK'
<1>1. PICK k \in 0 .. Len(file), n \in 0 .. 2 :
         LET p == [out |-> SubSeq(file, 1, k), err |-> SubSeq(file, k + 1, Len(file)), notes |-> n]
             a == Output(p)
             body == Bodies(a.out, a.err, BodyMax)
         IN  /\ printed' = p
             /\ said' = a
             /\ row' = [status |-> "TOLD", out |-> body.out, err |-> body.err, truncated |-> body.truncated]
  BY DEF tool_shell
<1> DEFINE p == [out |-> SubSeq(file, 1, k), err |-> SubSeq(file, k + 1, Len(file)), notes |-> n]
           a == Output(p)
           body == Bodies(a.out, a.err, BodyMax)
<1>2. FileOK'
  BY DEF tool_shell, FileOK
<1>3. file \in Seq(Bytes) /\ Len(file) \in Nat
  BY LenProperties DEF tool_shell, FileOK
<1>4. p.out \in Seq(Bytes) /\ p.err \in Seq(Bytes) /\ p.notes = n /\ n \in Nat
  <2>1. SubSeq(file, 1, k) \in Seq(Bytes)
    BY <1>3, Beginning
  <2>2. SubSeq(file, k + 1, Len(file)) \in Seq(Bytes)
    <3>1. \A i \in k + 1 .. Len(file) : file[i] \in Bytes
      BY <1>3, ElementOfSeq
    <3> QED
      BY <1>3, <3>1, SubSeqProperties
  <2> QED
    BY <2>1, <2>2
<1>5. printed' = p /\ said' = a
  BY <1>1
<1>6. row' = [status |-> "TOLD", out |-> body.out, err |-> body.err, truncated |-> body.truncated]
  BY <1>1
<1> HIDE DEF p
<1> DEFINE out == Decoded(p.out)
           text == Decoded(p.err)
           notes == Notes(n)
           err == text \o notes
           fullOut == InFull(p.out)
           fullErr == InFull(p.err)
<1>7. PICK i \in 0 .. Len(out), j \in 0 .. Len(err) : Answers(p, i, j)
  BY <1>4, OutputIs
<1>8. /\ Unmarked(a.out) = SubSeq(out, 1, i) /\ Unmarked(a.err) = SubSeq(err, 1, j)
      /\ Marked(a.out) <=> Dropped(p.out) \/ i < Len(out)
      /\ Marked(a.err) <=> Dropped(p.err) \/ j < Len(err)
      /\ ~Marked(a.err) => a.err = SubSeq(err, 1, j)
      /\ a.truncated <=> Marked(a.out) \/ Marked(a.err)
      /\ Len(Unmarked(a.out)) + Len(Unmarked(a.err)) <= BodyMax
      /\ Len(err) <= BodyMax \div Divisor => j = Len(err)
      /\ body.out = a.out /\ body.err = a.err /\ (body.truncated <=> a.truncated)
  BY <1>4, <1>7 DEF Answers
<1>9. /\ fullOut \in Seq(Chars) /\ fullErr \in Seq(Chars)
      /\ Len(fullOut) \in Nat /\ Len(fullErr) \in Nat
      /\ Len(fullErr) >= Len(p.err) /\ Len(p.err) \in Nat /\ BodyMax \in Nat
  BY <1>4, DecodedIs, LenProperties, ReadFileAssumption
<1>10. PICK d \in 0 .. Len(fullOut) : out = SubSeq(fullOut, 1, d) /\ (d < Len(fullOut) <=> Dropped(p.out))
  BY <1>4, DecodedIs
<1>11. PICK e \in 0 .. Len(fullErr) : text = SubSeq(fullErr, 1, e) /\ (e < Len(fullErr) <=> Dropped(p.err))
  BY <1>4, DecodedIs
<1>12. Len(out) = d /\ text \in Seq(Chars) /\ Len(text) = e
  BY <1>9, <1>10, <1>11, Beginning
<1>13. notes \in Seq(Chars) /\ Len(notes) = n
  BY <1>4, NotesType
<1> HIDE DEF a, body, out, text, notes, fullOut, fullErr
<1>14. Len(err) = e + n /\ err \in Seq(Chars)
  BY <1>12, <1>13, ConcatProperties
<1>15. Faithful(a.out, fullOut, 0)
  <2>1. Notes(0) = <<>> /\ out \in Seq(Chars)
    BY <1>9, <1>10, Beginning, NotesType, EmptySeq
  <2>2. SubSeq(fullOut, 1, d) \o Notes(0) = out
    BY <1>10, <2>1, ConcatEmptySeq
  <2>3. i \in 0 .. d + 0 /\ Unmarked(a.out) = SubSeq(SubSeq(fullOut, 1, d) \o Notes(0), 1, i)
    BY <1>8, <1>9, <1>12, <2>2
  <2>4. Marked(a.out) <=> d < Len(fullOut) \/ i < d + 0
    BY <1>8, <1>9, <1>10, <1>12
  <2> QED
    BY <1>9, <2>3, <2>4, FaithfulIs
<1>16. Faithful(a.err, fullErr, n)
  <2>1. j \in 0 .. e + n /\ Unmarked(a.err) = SubSeq(SubSeq(fullErr, 1, e) \o Notes(n), 1, j)
    BY <1>8, <1>11, <1>14 DEF notes
  <2>2. Marked(a.err) <=> e < Len(fullErr) \/ j < e + n
    BY <1>8, <1>11, <1>14
  <2> QED
    BY <1>4, <1>9, <2>1, <2>2, FaithfulIs
<1>17. LossMarked'
  BY <1>4, <1>5, <1>8, <1>15, <1>16 DEF LossMarked, fullOut, fullErr
<1>18. StderrKept'
  <2> DEFINE full == fullErr \o notes
  <2>1. Len(full) = Len(fullErr) + n /\ full \in Seq(Chars)
    BY <1>9, <1>13, ConcatProperties
  <2>2. ASSUME Len(full) <= BodyMax \div Divisor PROVE a.err = full
    <3>1. BodyMax \div Divisor \in 0 .. BodyMax
      BY <1>9, Share
    <3>2. ~Dropped(p.err)
      <4> HIDE DEF full
      <4> QED
        BY <1>4, <1>9, <2>1, <2>2, <3>1 DEF Dropped
    <3>3. text = fullErr
      BY <1>9, <1>11, <3>2, SubSeqFull
    <3>4. err = full
      BY <3>3
    <3>5. j = Len(err) /\ ~Marked(a.err)
      <4> HIDE DEF full, err
      <4>1. Len(err) <= BodyMax \div Divisor
        BY <2>2, <3>4
      <4>2. j = Len(err)
        BY <1>8, <4>1
      <4>3. ~(j < Len(err))
        BY <1>9, <1>11, <1>14, <4>2
      <4> QED
        BY <1>8, <3>2, <4>2, <4>3
    <3>6. a.err = SubSeq(err, 1, Len(err))
      BY <1>8, <3>5
    <3> HIDE DEF full, err
    <3> QED
      BY <1>14, <3>4, <3>6, SubSeqFull
  <2> QED
    BY <1>4, <1>5, <2>2 DEF StderrKept, fullErr, notes
<1>19. RowAgrees'
  <2>1. row'.truncated = a.truncated
    BY <1>6, <1>8 DEF body, a, Output, Bodies
  <2>2. row' = [status |-> "TOLD", out |-> a.out, err |-> a.err, truncated |-> a.truncated]
    BY <1>6, <1>8, <2>1
  <2> QED
    BY <1>5, <1>8, <2>2 DEF RowAgrees
<1> QED
  BY <1>2, <1>17, <1>18, <1>19 DEF TextsOK

LEMMA CommandInvariance == CommandSpec => []CommandInv
<1>1. CommandInit => CommandInv
  BY FileInit DEF CommandInit, Init, CommandInv, TextsOK, LossMarked, StderrKept, RowAgrees
<1>2. CommandInv /\ [CommandNext]_<<vars, printed, said>> => CommandInv'
  <2> SUFFICES ASSUME CommandInv, [CommandNext]_<<vars, printed, said>> PROVE CommandInv'
    OBVIOUS
  <2>1. CASE Next /\ UNCHANGED <<printed, said>>
    BY <2>1, NotTold DEF CommandInv
  <2>2. CASE tool_shell
    BY <2>2, ToldRight DEF CommandInv
  <2>3. CASE UNCHANGED <<vars, printed, said>>
    <3>1. UNCHANGED <<file, phase, row, printed, said>>
      BY <2>3 DEF vars, client
    <3> QED
      BY <3>1 DEF CommandInv, FileOK, TextsOK, LossMarked, StderrKept, RowAgrees
  <2> QED
    BY <2>1, <2>2, <2>3 DEF CommandNext
<1> QED
  BY <1>1, <1>2, PTL DEF CommandSpec

(* A stream that lost anything says so, once, at its end, and is otherwise    *)
(* how the stream began, wherever it was lost: in the pipe, in decoding or in *)
(* the clip.                                                                  *)
THEOREM LossesMarked == CommandSpec => []LossMarked
BY CommandInvariance, PTL DEF CommandInv, TextsOK

(* However much a command writes to stdout, a short stderr is told whole, the *)
(* notes about a timeout included.                                            *)
THEOREM ShortStderrKept == CommandSpec => []StderrKept
BY CommandInvariance, PTL DEF CommandInv, TextsOK

(* The audit row of a command holds what its caller was told: to clip what    *)
(* was clipped before changes nothing.                                        *)
THEOREM RowsAgree == CommandSpec => []RowAgrees
BY CommandInvariance, PTL DEF CommandInv, TextsOK
-----------------------------------------------------------------------------
(* Lines.                                                                     *)

LEMMA MinIs ==
  ASSUME NEW S, S \subseteq Nat, S # {}
  PROVE  Min(S) \in S /\ \A n \in S : Min(S) <= n
BY LeastIsThere DEF Min

LEMMA MaxIs ==
  ASSUME NEW S, NEW bound \in Nat, S \subseteq 0 .. bound, S # {}
  PROVE  Max(S) \in S /\ \A n \in S : n <= Max(S)
<1> DEFINE T == {bound - n : n \in S}
<1>1. T \subseteq Nat /\ T # {}
  <2>1. \A n \in S : n \in 0 .. bound
    OBVIOUS
  <2>2. \A n \in S : bound - n \in Nat
    BY <2>1
  <2> QED
    BY <2>2
<1>2. PICK m \in T : \A n \in T : m <= n
  BY <1>1, LeastIsThere
<1>3. PICK x \in S : m = bound - x
  BY <1>2
<1>4. ASSUME NEW n \in S PROVE n <= x
  <2>1. bound - n \in T /\ m <= bound - n /\ n \in Nat /\ x \in Nat
    BY <1>2
  <2> QED
    BY <1>3, <2>1
<1>5. \E y \in S : \A n \in S : y >= n
  BY <1>4
<1>6. Max(S) \in S /\ \A n \in S : Max(S) >= n
  BY <1>5 DEF Max
<1> QED
  BY <1>6

(* From a place in a file to e there is no newline before e.                  *)
OneLine(f, pos, e) ==
    /\ e \in pos .. Len(f) /\ (pos < Len(f) => pos < e)
    /\ \A q \in pos + 1 .. e - 1 : f[q] # "newline"

(* e is the end of the line that goes on after a place.                       *)
Ends(f, pos, e) == OneLine(f, pos, e) /\ (e = Len(f) \/ f[e] = "newline")

(* readline(k).                                                               *)
LineRead(f, pos, k, e) ==
    LET line == ReadLine(f, pos, k) IN
    /\ line = SubSeq(f, pos + 1, e) /\ Len(line) = e - pos /\ e <= pos + k
    /\ OneLine(f, pos, e) /\ (e = Len(f) \/ f[e] = "newline" \/ e = pos + k)
    /\ line = <<>> <=> e = pos
    /\ EndsWith(line, "newline") <=> pos < e /\ f[e] = "newline"

LEMMA ReadLineIs ==
  ASSUME NEW f \in Seq(Bytes), NEW pos \in 0 .. Len(f), NEW k \in Nat \ {0}
  PROVE  \E e \in pos .. Len(f) : LineRead(f, pos, k, e)
<1> DEFINE S == {q \in pos + 1 .. Len(f) : f[q] = "newline" \/ q = pos + k} \cup {Len(f)}
           e == Min(S)
           line == ReadLine(f, pos, k)
<1>1. Len(f) \in Nat /\ pos \in Nat /\ pos <= Len(f) /\ \A i \in 1 .. Len(f) : f[i] \in Bytes
  BY LenProperties, ElementOfSeq
<1>2. e \in S /\ \A n \in S : e <= n
  <2>1. S \subseteq Nat /\ S # {}
    BY <1>1
  <2> HIDE DEF S
  <2> QED
    BY <2>1, MinIs
<1>3. line = SubSeq(f, pos + 1, e)
  BY DEF ReadLine
<1> HIDE DEF e
<1>4. e \in pos .. Len(f) /\ (pos < Len(f) => pos < e)
  BY <1>1, <1>2
<1>5. ASSUME NEW q \in pos + 1 .. e - 1 PROVE f[q] # "newline" /\ q # pos + k
  <2>1. q \in pos + 1 .. Len(f) /\ ~(e <= q)
    BY <1>1, <1>4
  <2>2. q \notin S
    BY <1>2, <2>1
  <2> QED
    BY <2>1, <2>2
<1>6. e <= pos + k
  <2> SUFFICES ASSUME pos + k < e PROVE FALSE
    BY <1>1, <1>4
  <2>1. pos + k \in pos + 1 .. e - 1
    BY <1>1, <1>4
  <2> QED
    BY <1>5, <2>1
<1>7. e = Len(f) \/ f[e] = "newline" \/ e = pos + k
  BY <1>2
<1>8. line \in Seq(Bytes) /\ Len(line) = e - pos /\ \A i \in 1 .. e - pos : line[i] = f[pos + i]
  <2>1. pos + 1 \in Int /\ e \in Int /\ \A i \in pos + 1 .. e : f[i] \in Bytes
    BY <1>1, <1>4
  <2>2. /\ SubSeq(f, pos + 1, e) \in Seq(Bytes)
        /\ Len(SubSeq(f, pos + 1, e)) = IF pos + 1 <= e THEN e - (pos + 1) + 1 ELSE 0
        /\ \A i \in 1 .. e - (pos + 1) + 1 : SubSeq(f, pos + 1, e)[i] = f[(pos + 1) + i - 1]
    BY <2>1, SubSeqProperties
  <2>3. Len(line) = e - pos
    BY <1>1, <1>3, <1>4, <2>2
  <2>4. \A i \in 1 .. e - pos : i \in 1 .. e - (pos + 1) + 1 /\ (pos + 1) + i - 1 = pos + i
    BY <1>1, <1>4
  <2> QED
    BY <1>3, <2>2, <2>3, <2>4
<1> HIDE DEF line, S
<1>9. line = <<>> <=> e = pos
  BY <1>1, <1>4, <1>8, EmptySeq
<1>10. EndsWith(line, "newline") <=> pos < e /\ f[e] = "newline"
  <2>1. pos < e => e - pos \in 1 .. e - pos /\ pos + (e - pos) = e
    BY <1>1, <1>4
  <2>2. pos < e => line[Len(line)] = f[e]
    BY <1>8, <2>1
  <2> QED
    BY <1>1, <1>4, <1>9, <2>2 DEF EndsWith
<1>11. LineRead(f, pos, k, e)
  BY <1>3, <1>4, <1>5, <1>6, <1>7, <1>8, <1>9, <1>10 DEF LineRead, OneLine, line
<1> QED
  BY <1>4, <1>11

(* Each line has an end.                                                      *)
LEMMA LineEnds ==
  ASSUME NEW f \in Seq(Bytes), NEW pos \in 0 .. Len(f)
  PROVE  \E e \in pos .. Len(f) : Ends(f, pos, e)
<1>1. Len(f) \in Nat /\ Len(f) + 1 \in Nat \ {0}
  BY LenProperties
<1>2. PICK e \in pos .. Len(f) : LineRead(f, pos, Len(f) + 1, e)
  BY <1>1, ReadLineIs
<1>3. e # pos + (Len(f) + 1)
  BY <1>1
<1>4. Ends(f, pos, e)
  BY <1>2, <1>3 DEF LineRead, Ends
<1> QED
  BY <1>4

(* The numbers of lines.                                                      *)
LEMMA NewlinesFinite ==
  ASSUME NEW f, NEW q \in Nat
  PROVE  /\ IsFiniteSet(NewlinesBefore(f, q)) /\ Cardinality(NewlinesBefore(f, q)) \in Nat
         /\ NewlinesBefore(f, q) \subseteq 1 .. q - 1
         /\ LineOf(f, q) \in Nat \ {0} /\ (q # 0 => LineOf(f, q) <= q)
<1>1. /\ IsFiniteSet(1 .. q - 1) /\ Cardinality(1 .. q - 1) = IF 1 > q - 1 THEN 0 ELSE (q - 1) - 1 + 1
  BY FS_Interval
<1>2. NewlinesBefore(f, q) \subseteq 1 .. q - 1
  BY DEF NewlinesBefore
<1>3. /\ IsFiniteSet(NewlinesBefore(f, q)) /\ Cardinality(NewlinesBefore(f, q)) \in Nat
      /\ Cardinality(NewlinesBefore(f, q)) <= Cardinality(1 .. q - 1)
  BY <1>1, <1>2, FS_Subset, FS_CardinalityType
<1> QED
  BY <1>1, <1>2, <1>3 DEF LineOf

LEMMA LinesGrow ==
  ASSUME NEW f, NEW a \in Nat \ {0}, NEW b \in Nat, a <= b
  PROVE  /\ LineOf(f, a) <= LineOf(f, b)
         /\ (\E p \in a .. b - 1 : f[p] = "newline") => LineOf(f, a) < LineOf(f, b)
         /\ (\A p \in a .. b - 1 : f[p] # "newline") =>
               NewlinesBefore(f, a) = NewlinesBefore(f, b) /\ LineOf(f, a) = LineOf(f, b)
<1> DEFINE A == NewlinesBefore(f, a)
           B == NewlinesBefore(f, b)
<1>1. A \subseteq B
  BY DEF NewlinesBefore
<1>2. /\ IsFiniteSet(B) /\ Cardinality(B) \in Nat /\ Cardinality(A) \in Nat
      /\ LineOf(f, a) = 1 + Cardinality(A) /\ LineOf(f, b) = 1 + Cardinality(B)
  BY NewlinesFinite DEF LineOf
<1>3. Cardinality(A) <= Cardinality(B) /\ (Cardinality(A) = Cardinality(B) => A = B)
  <2> HIDE DEF A, B
  <2> QED
    BY <1>1, <1>2, FS_Subset
<1>4. \A p \in a .. b - 1 : f[p] = "newline" => A # B
  BY DEF NewlinesBefore
<1>5. (\A p \in a .. b - 1 : f[p] # "newline") => A = B
  BY DEF NewlinesBefore
<1> HIDE DEF A, B
<1>6. LineOf(f, a) <= LineOf(f, b) /\ (A # B => LineOf(f, a) < LineOf(f, b))
  BY <1>2, <1>3
<1> QED
  BY <1>2, <1>4, <1>5, <1>6 DEF A, B

LEMMA NextLine ==
  ASSUME NEW f, NEW q \in Nat \ {0}
  PROVE  LineOf(f, q + 1) <= LineOf(f, q) + 1
<1>1. NewlinesBefore(f, q + 1) \subseteq NewlinesBefore(f, q) \cup {q}
  BY DEF NewlinesBefore
<1> DEFINE A == NewlinesBefore(f, q)
           B == NewlinesBefore(f, q + 1)
<1>2. IsFiniteSet(A) /\ Cardinality(A) \in Nat /\ Cardinality(B) \in Nat
  BY NewlinesFinite
<1> HIDE DEF A, B
<1>3. IsFiniteSet(A \cup {q}) /\ Cardinality(A \cup {q}) <= Cardinality(A) + 1
  BY <1>2, FS_AddElement
<1>4. Cardinality(A \cup {q}) \in Nat /\ Cardinality(B) <= Cardinality(A \cup {q})
  BY <1>1, <1>3, FS_Subset, FS_CardinalityType DEF A, B
<1> QED
  BY <1>2, <1>3, <1>4 DEF LineOf, A, B

(* The first n lines of a file are its first s bytes.                         *)
Boundary(f, s, n) == s \in 0 .. Len(f) /\ \A q \in 1 .. Len(f) : q <= s <=> LineOf(f, q) <= n

LEMMA FirstBoundary ==
  ASSUME NEW f \in Seq(Bytes)
  PROVE  Boundary(f, 0, 0)
<1>1. Len(f) \in Nat
  BY LenProperties
<1>2. \A q \in 1 .. Len(f) : LineOf(f, q) \in Nat \ {0}
  BY <1>1, NewlinesFinite
<1> QED
  BY <1>1, <1>2 DEF Boundary

(* The line after the first n.                                                *)
LEMMA LineIs ==
  ASSUME NEW f \in Seq(Bytes), NEW n \in Nat, NEW s, NEW e, Boundary(f, s, n), OneLine(f, s, e), s < e
  PROVE  \A q \in s + 1 .. e :
            /\ LineOf(f, q) = n + 1 /\ NewlinesBefore(f, q) = NewlinesBefore(f, s + 1)
            /\ Column(f, q) = q - s
<1>1. /\ Len(f) \in Nat /\ s \in 0 .. Len(f) /\ s \in Nat /\ e \in s .. Len(f) /\ e \in Nat
      /\ s + 1 \in 1 .. Len(f) /\ s + 1 \in Nat
  BY LenProperties DEF Boundary, OneLine
<1>2. LineOf(f, s + 1) = n + 1 /\ (s = 0 \/ f[s] = "newline")
  <2>1. LineOf(f, s + 1) \in Nat /\ ~(LineOf(f, s + 1) <= n)
    BY <1>1, NewlinesFinite DEF Boundary
  <2>2. CASE s = 0
    <3>1. LineOf(f, s + 1) <= s + 1
      BY <1>1, NewlinesFinite
    <3> QED
      BY <2>1, <2>2, <3>1
  <2>3. CASE s # 0
    <3>1. s \in 1 .. Len(f) /\ s \in Nat \ {0} /\ LineOf(f, s) \in Nat
      BY <1>1, <2>3, NewlinesFinite
    <3>2. LineOf(f, s) <= n /\ LineOf(f, s + 1) <= LineOf(f, s) + 1
      BY <3>1, NextLine DEF Boundary
    <3>3. f[s] = "newline"
      <4> SUFFICES ASSUME f[s] # "newline" PROVE FALSE
        OBVIOUS
      <4>1. \A p \in s .. (s + 1) - 1 : f[p] # "newline"
        BY <1>1
      <4>2. LineOf(f, s) = LineOf(f, s + 1)
        BY <1>1, <3>1, <4>1, LinesGrow
      <4> QED
        BY <2>1, <3>1, <3>2, <4>2
    <3> QED
      BY <2>1, <3>1, <3>2, <3>3
  <2> QED
    BY <2>2, <2>3
<1>3. ASSUME NEW q \in s + 1 .. e
      PROVE  /\ LineOf(f, q) = n + 1 /\ NewlinesBefore(f, q) = NewlinesBefore(f, s + 1)
             /\ Column(f, q) = q - s
  <2>1. q \in Nat /\ s + 1 \in Nat \ {0} /\ s + 1 <= q /\ \A p \in s + 1 .. q - 1 : f[p] # "newline"
    BY <1>1 DEF OneLine
  <2>2. NewlinesBefore(f, s + 1) = NewlinesBefore(f, q) /\ LineOf(f, s + 1) = LineOf(f, q)
    BY <2>1, LinesGrow
  <2> DEFINE S == NewlinesBefore(f, q) \cup {0}
  <2>3. S \subseteq 0 .. s /\ s \in S
    BY <1>1, <1>2, <2>2 DEF NewlinesBefore
  <2> HIDE DEF S
  <2>4. Max(S) \in S /\ s <= Max(S) /\ Max(S) \in 0 .. s
    BY <1>1, <2>3, MaxIs
  <2>5. Max(S) = s
    BY <1>1, <2>4
  <2> QED
    BY <1>2, <2>2, <2>5 DEF Column, S
<1> QED
  BY <1>3

LEMMA LineLengthIs ==
  ASSUME NEW f \in Seq(Bytes), NEW n \in Nat, NEW s, NEW e, Boundary(f, s, n), Ends(f, s, e), s < e,
         NEW q \in s + 1 .. e
  PROVE  LineLength(f, q) = e - s
<1>1. Len(f) \in Nat /\ s \in 0 .. Len(f) /\ e \in s .. Len(f) /\ DOMAIN f = 1 .. Len(f)
  BY LenProperties DEF Boundary, Ends, OneLine
<1>2. \A i \in s + 1 .. e : LineOf(f, i) = n + 1 /\ NewlinesBefore(f, i) = NewlinesBefore(f, s + 1)
  BY LineIs DEF Ends
<1>3. ASSUME NEW i \in 1 .. s PROVE NewlinesBefore(f, i) # NewlinesBefore(f, q)
  <2>1. LineOf(f, i) <= n
    BY <1>1 DEF Boundary
  <2>2. LineOf(f, i) \in Nat
    BY <1>1, NewlinesFinite
  <2>3. LineOf(f, i) # LineOf(f, q)
    BY <1>2, <2>1, <2>2
  <2> QED
    BY <2>3 DEF LineOf
<1>4. ASSUME NEW i \in e + 1 .. Len(f) PROVE NewlinesBefore(f, i) # NewlinesBefore(f, q)
  <2>0. e \in Nat /\ e # 0 /\ i \in Nat /\ q \in Nat /\ e < i /\ q <= e /\ e < Len(f)
    BY <1>1
  <2>1. e \in 1 .. i - 1 /\ e \notin 1 .. q - 1 /\ e # Len(f)
    BY <2>0
  <2>2. f[e] = "newline"
    BY <2>1 DEF Ends
  <2> QED
    BY <2>1, <2>2 DEF NewlinesBefore
<1>5. {i \in DOMAIN f : NewlinesBefore(f, i) = NewlinesBefore(f, q)} = s + 1 .. e
  <2>1. \A i \in 1 .. Len(f) : i \in 1 .. s \/ i \in s + 1 .. e \/ i \in e + 1 .. Len(f)
    BY <1>1
  <2>2. s + 1 .. e \subseteq 1 .. Len(f)
    BY <1>1
  <2> QED
    BY <1>1, <1>2, <1>3, <1>4, <2>1, <2>2
<1>6. Cardinality(s + 1 .. e) = e - s
  BY <1>1, FS_Interval
<1> QED
  BY <1>5, <1>6 DEF LineLength

(* A line more.                                                               *)
LEMMA BoundaryNext ==
  ASSUME NEW f \in Seq(Bytes), NEW n \in Nat, NEW s, NEW e, Boundary(f, s, n), Ends(f, s, e)
  PROVE  Boundary(f, e, n + 1)
<1>1. Len(f) \in Nat /\ s \in 0 .. Len(f) /\ e \in s .. Len(f)
  BY LenProperties DEF Boundary, Ends, OneLine
<1>2. ASSUME NEW q \in 1 .. Len(f) PROVE q <= e <=> LineOf(f, q) <= n + 1
  <2>0. LineOf(f, q) \in Nat
    BY <1>1, NewlinesFinite
  <2>1. CASE q <= s
    <3>1. LineOf(f, q) <= n
      BY <2>1 DEF Boundary
    <3> QED
      BY <1>1, <2>0, <2>1, <3>1
  <2>2. CASE ~(q <= s) /\ q <= e
    <3>1. s < e /\ q \in s + 1 .. e
      BY <1>1, <2>2
    <3>2. LineOf(f, q) = n + 1
      BY <3>1, LineIs DEF Ends
    <3> QED
      BY <2>2, <3>2
  <2>3. CASE ~(q <= e)
    <3>1. s < Len(f) /\ e # Len(f) /\ s < e /\ f[e] = "newline"
      BY <1>1, <2>3 DEF Ends, OneLine
    <3>2. LineOf(f, e) = n + 1
      BY <1>1, <3>1, LineIs DEF Ends
    <3>3. e \in Nat \ {0} /\ q \in Nat /\ e <= q /\ e \in e .. q - 1
      BY <1>1, <2>3, <3>1
    <3>4. LineOf(f, e) < LineOf(f, q)
      BY <3>1, <3>3, LinesGrow
    <3> QED
      BY <2>0, <2>3, <3>2, <3>4
  <2> QED
    BY <2>1, <2>2, <2>3
<1>3. e \in 0 .. Len(f)
  BY <1>1
<1> QED
  BY <1>2, <1>3 DEF Boundary
-----------------------------------------------------------------------------
(* Pages.                                                                     *)

(* A number of whole lines from a place, of so many bytes, none too long.     *)
Taken(f, start, from, max, full, size) ==
    /\ full \in Nat /\ size \in 0 .. max /\ from + size <= Len(f)
    /\ Boundary(f, from + size, start + full)
    /\ \A q \in from + 1 .. from + size : LineLength(f, q) <= max
    /\ full = 0 <=> size = 0
    /\ size # 0 => LineOf(f, from + size) = start + full

(* What a page has: whole lines, up to the limit or the end of the file (none)*)
(* or a line that does not fit (line), or the beginning of one that never     *)
(* will (partial).                                                            *)
PageIs(f, start, maxLines, max, from, page) ==
    \E n \in 0 .. max :
        /\ from + n <= Len(f) /\ page.data = SubSeq(f, from + 1, from + n)
        /\ \/ /\ page.cut = "none" /\ Taken(f, start, from, max, page.full, n)
              /\ page.full = maxLines \/ from + n = Len(f)
           \/ /\ page.cut = "line" /\ Taken(f, start, from, max, page.full, n)
              /\ page.full # 0 /\ from + n < Len(f)
           \/ /\ page.cut = "partial" /\ page.full = 0 /\ n = max /\ from + n < Len(f)
              /\ \A q \in from + 1 .. from + n : f[q] # "newline"

(* A line that fits is taken.                                                 *)
LEMMA TakenNext ==
  ASSUME NEW f \in Seq(Bytes), NEW start \in Nat, NEW from \in Nat, NEW max \in Nat,
         NEW full, NEW size, Taken(f, start, from, max, full, size),
         NEW e, Ends(f, from + size, e), from + size < e, e - from <= max
  PROVE  Taken(f, start, from, max, full + 1, e - from)
<1> DEFINE s == from + size
           n == start + full
<1>1. /\ Len(f) \in Nat /\ s \in 0 .. Len(f) /\ s \in Nat /\ e \in s .. Len(f) /\ e \in Nat /\ s < e
      /\ n \in Nat /\ size \in Nat /\ full \in Nat
  BY LenProperties DEF Taken, Ends, OneLine
<1>2. Boundary(f, s, n) /\ Ends(f, s, e)
  BY DEF Taken
<1> DEFINE more == e - from
<1>3. more \in 0 .. max /\ more # 0 /\ from + more = e /\ start + (full + 1) = n + 1 /\ full + 1 \in Nat /\ full + 1 # 0
  BY <1>1
<1>4. ASSUME NEW q \in from + 1 .. e PROVE LineLength(f, q) <= max
  <2>1. CASE q \in s + 1 .. e
    <3>1. LineLength(f, q) = e - s
      BY <1>1, <1>2, <2>1, LineLengthIs
    <3> QED
      BY <1>1, <3>1
  <2>2. CASE q \in from + 1 .. s
    BY <2>2 DEF Taken
  <2> QED
    BY <1>1, <2>1, <2>2
<1>5. Boundary(f, e, n + 1)
  BY <1>1, <1>2, BoundaryNext
<1>6. LineOf(f, e) = n + 1
  <2>1. e \in s + 1 .. e
    BY <1>1
  <2> QED
    BY <1>1, <1>2, <2>1, LineIs DEF Ends
<1>7. e <= Len(f)
  BY <1>1
<1> HIDE DEF more, n, s
<1> QED
  BY <1>3, <1>4, <1>5, <1>6, <1>7 DEF Taken, more
-----------------------------------------------------------------------------
(* The bytes at some places.                                                  *)

Chosen(g, f, places) ==
    /\ g \in [0 .. Len(f) -> Seq(Bytes)]
    /\ \A q \in 0 .. Len(f) :
          g[q] = IF q = 0 THEN <<>>
                 ELSE IF q \in places THEN Append(g[q - 1], f[q]) ELSE g[q - 1]

LEMMA BytesAtIs ==
  ASSUME NEW f \in Seq(Bytes), NEW places
  PROVE  \E g : Chosen(g, f, places) /\ BytesAt(f, places) = g[Len(f)]
<1> DEFINE D == 0 .. Len(f)
           X == Seq(Bytes)
           stop == {0}
           start == [q \in D |-> <<>>]
           jump == [q \in D |-> q - 1]
           more(q, x) == IF q \in places THEN Append(x, f[q]) ELSE x
           step == [q \in D |-> [x \in X |-> more(q, x)]]
           rank == [q \in D |-> q]
           Chooses(g) == g = [q \in D |-> IF q = 0 THEN <<>>
                                          ELSE IF q \in places THEN Append(g[q - 1], f[q]) ELSE g[q - 1]]
           chosen == CHOOSE g : Chooses(g)
<1>1. Len(f) \in Nat /\ \A q \in 1 .. Len(f) : f[q] \in Bytes
  BY LenProperties, ElementOfSeq
<1>2. <<>> \in X
  BY EmptySeq
<1>3. \A q \in D \ {0}, x \in X : more(q, x) \in X
  BY <1>1, AppendProperties
<1> HIDE DEF X, more
<1>4. Descends(D, X, stop, start, jump, step, rank, Len(f))
  <2> SUFFICES ASSUME NEW q \in D
               PROVE  /\ q \in stop => start[q] \in X
                      /\ q \notin stop => /\ jump[q] \in D
                                          /\ rank[jump[q]] < rank[q]
                                          /\ \A x \in X : step[q][x] \in X
                      /\ rank[q] \in 0 .. Len(f)
    BY DEF Descends
  <2>1. start[q] \in X /\ rank[q] \in 0 .. Len(f)
    BY <1>1, <1>2
  <2>2. q # 0 => jump[q] \in D /\ rank[jump[q]] < rank[q]
    BY <1>1
  <2>3. q # 0 => \A x \in X : step[q][x] \in X
    BY <1>3
  <2> QED
    BY <2>1, <2>2, <2>3
<1>5. PICK g \in [D -> X] : Computed(g, D, stop, start, jump, step)
  <2>1. X # {}
    BY <1>2
  <2> HIDE DEF D, stop, start, jump, step, rank
  <2> QED
    BY <1>1, <1>4, <2>1, Recursion
<1>6. ASSUME NEW q \in D
      PROVE  g[q] = IF q = 0 THEN <<>> ELSE IF q \in places THEN Append(g[q - 1], f[q]) ELSE g[q - 1]
  <2>1. g[q] = IF q \in stop THEN start[q] ELSE step[q][g[jump[q]]]
    BY <1>5 DEF Computed
  <2>2. CASE q = 0
    BY <2>1, <2>2
  <2>3. CASE q # 0
    <3>1. jump[q] = q - 1 /\ q - 1 \in D
      BY <1>1, <2>3
    <3>2. g[q - 1] \in X
      BY <3>1
    <3>3. step[q][g[q - 1]] = more(q, g[q - 1])
      BY <3>2
    <3> HIDE DEF step, jump
    <3> QED
      BY <2>1, <2>3, <3>1, <3>3 DEF more
  <2> QED
    BY <2>2, <2>3
<1>7. Chooses(g)
  BY <1>6
<1>8. Chooses(chosen)
  <2> HIDE DEF Chooses
  <2> QED
    BY <1>7
<1>9. BytesAt(f, places) = chosen[Len(f)]
  BY DEF BytesAt
<1> HIDE DEF chosen
<1>10. chosen = g
  <2> DEFINE S == {k \in Nat : k \in D => chosen[k] = g[k]}
  <2>1. 0 \in S
    BY <1>6, <1>8
  <2>2. ASSUME NEW k \in Nat \ {0}, k - 1 \in S PROVE k \in S
    <3> SUFFICES ASSUME k \in D PROVE chosen[k] = g[k]
      OBVIOUS
    <3>1. k - 1 \in D /\ chosen[k - 1] = g[k - 1]
      BY <2>2
    <3>2. chosen[k] = IF k \in places THEN Append(chosen[k - 1], f[k]) ELSE chosen[k - 1]
      BY <1>8
    <3> QED
      BY <1>6, <3>1, <3>2
  <2> HIDE DEF S
  <2>3. \A k \in Nat : k \in S
    BY <2>1, <2>2, Induction
  <2>4. \A k \in D : chosen[k] = g[k]
    BY <1>1, <2>3 DEF S
  <2> HIDE DEF D
  <2> QED
    BY <1>7, <1>8, <2>4
<1>11. Chosen(g, f, places)
  BY <1>5, <1>6 DEF Chosen, X
<1> QED
  BY <1>9, <1>10, <1>11

(* Up to a place, the same bytes are chosen.                                  *)
LEMMA ChosenSame ==
  ASSUME NEW f \in Seq(Bytes), NEW f2 \in Seq(Bytes), NEW P, NEW P2, NEW g, NEW g2,
         Chosen(g, f, P), Chosen(g2, f2, P2), NEW k \in 0 .. Len(f), k <= Len(f2),
         \A q \in 1 .. k : f[q] = f2[q] /\ (q \in P <=> q \in P2)
  PROVE  g[k] = g2[k]
<1> DEFINE S == {i \in Nat : i <= k => g[i] = g2[i]}
<1>1. Len(f) \in Nat /\ Len(f2) \in Nat
  BY LenProperties
<1>2. 0 \in S
  BY <1>1 DEF Chosen
<1>3. ASSUME NEW i \in Nat \ {0}, i - 1 \in S PROVE i \in S
  <2> SUFFICES ASSUME i <= k PROVE g[i] = g2[i]
    OBVIOUS
  <2>1. g[i - 1] = g2[i - 1] /\ i \in 1 .. k /\ i \in 0 .. Len(f) /\ i \in 0 .. Len(f2)
    BY <1>1, <1>3
  <2>2. /\ g[i] = IF i \in P THEN Append(g[i - 1], f[i]) ELSE g[i - 1]
        /\ g2[i] = IF i \in P2 THEN Append(g2[i - 1], f2[i]) ELSE g2[i - 1]
    BY <2>1 DEF Chosen
  <2> QED
    BY <2>1, <2>2
<1> HIDE DEF S
<1>4. k \in S
  BY <1>1, <1>2, <1>3, Induction
<1> QED
  BY <1>4 DEF S

(* Over a stretch of which no byte is chosen, or each one.                    *)
LEMMA ChosenNone ==
  ASSUME NEW f \in Seq(Bytes), NEW P, NEW g, Chosen(g, f, P),
         NEW s \in 0 .. Len(f), NEW t \in s .. Len(f), \A q \in s + 1 .. t : q \notin P
  PROVE  g[t] = g[s]
<1> DEFINE S == {i \in Nat : s + i <= t => g[s + i] = g[s]}
<1>1. Len(f) \in Nat /\ s \in Nat /\ t \in Nat /\ t <= Len(f)
  BY LenProperties
<1>2. 0 \in S
  BY <1>1
<1>3. ASSUME NEW i \in Nat \ {0}, i - 1 \in S PROVE i \in S
  <2> SUFFICES ASSUME s + i <= t PROVE g[s + i] = g[s]
    OBVIOUS
  <2>1. /\ s + (i - 1) = (s + i) - 1 /\ s + i \in s + 1 .. t /\ s + i \in 0 .. Len(f) /\ s + i # 0
        /\ s + (i - 1) <= t
    BY <1>1
  <2>2. g[s + i] = g[(s + i) - 1]
    BY <2>1 DEF Chosen
  <2> QED
    BY <1>3, <2>1, <2>2
<1> HIDE DEF S
<1>4. t - s \in Nat /\ s + (t - s) = t
  BY <1>1
<1>5. t - s \in S
  BY <1>2, <1>3, <1>4, Induction
<1> QED
  BY <1>1, <1>4, <1>5 DEF S

LEMMA OneByteMore ==
  ASSUME NEW C, NEW t \in Seq(C), NEW m \in 1 .. Len(t), NEW e \in m .. Len(t), NEW w \in Seq(C)
  PROVE  Append(w \o SubSeq(t, m, e - 1), t[e]) = w \o SubSeq(t, m, e)
<1> DEFINE a == SubSeq(t, m, e - 1)
           x == <<t[e]>>
           wa == w \o a
<1>1. t[e] \in C /\ m \in Int /\ e - 1 \in Int /\ \A q \in m .. e - 1 : t[q] \in C
  BY LenProperties, ElementOfSeq
<1>2. SubSeq(t, m, e) = a \o x
  BY SubSeqRecursiveSecond
<1>3. x \in Seq(C)
  BY <1>1
<1>4. a \in Seq(C)
  BY <1>1, SubSeqProperties
<1> HIDE DEF a
<1>5. wa \in Seq(C)
  BY <1>4, ConcatProperties
<1> HIDE DEF wa
<1>6. Append(wa, t[e]) = wa \o x
  BY <1>1, <1>5, AppendIsConcat
<1> HIDE DEF x
<1>7. wa \o x = w \o (a \o x)
  BY <1>3, <1>4, ConcatAssociative DEF wa
<1> QED
  BY <1>2, <1>6, <1>7 DEF a, wa

LEMMA ChosenRun ==
  ASSUME NEW f \in Seq(Bytes), NEW P, NEW g, Chosen(g, f, P),
         NEW s \in 0 .. Len(f), NEW t \in s .. Len(f), \A q \in s + 1 .. t : q \in P
  PROVE  g[t] = g[s] \o SubSeq(f, s + 1, t)
<1> DEFINE Joins(e) == g[e] = g[s] \o SubSeq(f, s + 1, e)
           S == {i \in Nat : s + i <= t => Joins(s + i)}
<1>1. Len(f) \in Nat /\ s \in Nat /\ t \in Nat /\ t <= Len(f) /\ g[s] \in Seq(Bytes)
  BY LenProperties DEF Chosen
<1>2. Joins(s)
  <2>1. SubSeq(f, s + 1, s) = <<>>
    BY <1>1, SubSeqEmpty
  <2>2. g[s] \o <<>> = g[s]
    BY <1>1, ConcatEmptySeq
  <2> QED
    BY <2>1, <2>2
<1>3. ASSUME NEW i \in Nat \ {0}, s + i <= t, Joins(s + (i - 1)) PROVE Joins(s + i)
  <2> DEFINE e == s + i
             a == SubSeq(f, s + 1, e - 1)
  <2>1. /\ s + (i - 1) = e - 1 /\ e \in s + 1 .. t /\ e \in 0 .. Len(f) /\ e # 0
        /\ s + 1 \in 1 .. Len(f) /\ e \in s + 1 .. Len(f)
    BY <1>1, <1>3
  <2>2. g[e] = Append(g[e - 1], f[e])
    BY <2>1 DEF Chosen
  <2>3. g[e - 1] = g[s] \o a
    BY <1>3, <2>1
  <2> HIDE DEF e
  <2>4. Append(g[s] \o a, f[e]) = g[s] \o SubSeq(f, s + 1, e)
    BY <1>1, <2>1, OneByteMore
  <2> HIDE DEF a
  <2> QED
    BY <2>2, <2>3, <2>4 DEF e
<1> HIDE DEF Joins
<1>4. 0 \in S
  BY <1>1, <1>2
<1>5. ASSUME NEW i \in Nat \ {0}, i - 1 \in S PROVE i \in S
  <2> SUFFICES ASSUME s + i <= t PROVE Joins(s + i)
    OBVIOUS
  <2>1. s + (i - 1) <= t
    BY <1>1
  <2> QED
    BY <1>3, <1>5, <2>1
<1> HIDE DEF S
<1>6. t - s \in Nat /\ s + (t - s) = t /\ s + (t - s) <= t
  BY <1>1
<1>7. t - s \in S
  BY <1>4, <1>5, <1>6, Induction
<1>8. Joins(s + (t - s))
  BY <1>6, <1>7 DEF S
<1>9. Joins(t)
  BY <1>6, <1>8
<1> QED
  BY <1>9 DEF Joins

LEMMA BytesAtNone ==
  ASSUME NEW f \in Seq(Bytes), NEW P, \A q \in 1 .. Len(f) : q \notin P
  PROVE  BytesAt(f, P) = <<>>
<1>1. PICK g : Chosen(g, f, P) /\ BytesAt(f, P) = g[Len(f)]
  BY BytesAtIs
<1>2. 0 \in 0 .. Len(f) /\ Len(f) \in 0 .. Len(f) /\ \A q \in 0 + 1 .. Len(f) : q \notin P
  BY LenProperties
<1>3. g[Len(f)] = g[0]
  BY <1>1, <1>2, ChosenNone
<1>4. g[0] = <<>>
  BY <1>1, <1>2 DEF Chosen
<1> QED
  BY <1>1, <1>3, <1>4

(* A stretch more.                                                            *)
LEMMA BytesAtJoin ==
  ASSUME NEW f \in Seq(Bytes), NEW P, NEW P2, NEW s \in 0 .. Len(f), NEW t \in s .. Len(f),
         \A q \in 1 .. Len(f) : /\ q \in P => q <= s
                                /\ q \in P2 <=> (q \in P \/ (s < q /\ q <= t))
  PROVE  BytesAt(f, P2) = BytesAt(f, P) \o SubSeq(f, s + 1, t)
<1>1. PICK g : Chosen(g, f, P) /\ BytesAt(f, P) = g[Len(f)]
  BY BytesAtIs
<1>2. PICK g2 : Chosen(g2, f, P2) /\ BytesAt(f, P2) = g2[Len(f)]
  BY BytesAtIs
<1>3. Len(f) \in Nat /\ s \in Nat /\ t \in Nat /\ s <= t /\ t <= Len(f)
  BY LenProperties
<1>4. Len(f) \in t .. Len(f) /\ t \in 0 .. Len(f) /\ Len(f) \in s .. Len(f) /\ s <= Len(f)
  BY <1>3
<1>5. g2[Len(f)] = g2[t]
  <2>1. \A q \in t + 1 .. Len(f) : q \notin P2
    BY <1>3
  <2> QED
    BY <1>2, <1>4, <2>1, ChosenNone
<1>6. g2[t] = g2[s] \o SubSeq(f, s + 1, t)
  <2>1. \A q \in s + 1 .. t : q \in P2
    BY <1>3
  <2> QED
    BY <1>2, <2>1, ChosenRun
<1>7. g2[s] = g[s]
  <2>1. \A q \in 1 .. s : f[q] = f[q] /\ (q \in P2 <=> q \in P)
    BY <1>3
  <2> QED
    BY <1>1, <1>2, <1>4, <2>1, ChosenSame
<1>8. g[Len(f)] = g[s]
  <2>1. \A q \in s + 1 .. Len(f) : q \notin P
    BY <1>3
  <2> QED
    BY <1>1, <1>4, <2>1, ChosenNone
<1> QED
  BY <1>1, <1>2, <1>5, <1>6, <1>7, <1>8

(* A byte more in the file, which is not chosen.                              *)
LEMMA BytesAtGrown ==
  ASSUME NEW f \in Seq(Bytes), NEW b \in Bytes, NEW P, NEW P2, Len(f) + 1 \notin P2,
         \A q \in 1 .. Len(f) : q \in P <=> q \in P2
  PROVE  BytesAt(Append(f, b), P2) = BytesAt(f, P)
<1> DEFINE h == Append(f, b)
<1>1. /\ h \in Seq(Bytes) /\ Len(h) = Len(f) + 1 /\ Len(f) \in Nat
      /\ \A q \in 1 .. Len(f) : h[q] = f[q]
  BY AppendProperties, LenProperties
<1> HIDE DEF h
<1>2. PICK g : Chosen(g, f, P) /\ BytesAt(f, P) = g[Len(f)]
  BY BytesAtIs
<1>3. PICK g2 : Chosen(g2, h, P2) /\ BytesAt(h, P2) = g2[Len(h)]
  BY <1>1, BytesAtIs
<1>4. /\ Len(f) \in 0 .. Len(h) /\ Len(h) \in Len(f) .. Len(h) /\ Len(f) \in 0 .. Len(f) /\ Len(f) <= Len(h)
      /\ \A q \in Len(f) + 1 .. Len(h) : q \notin P2
  BY <1>1
<1>5. g2[Len(h)] = g2[Len(f)]
  BY <1>1, <1>3, <1>4, ChosenNone
<1>6. g[Len(f)] = g2[Len(f)]
  <2>1. \A q \in 1 .. Len(f) : f[q] = h[q] /\ (q \in P <=> q \in P2)
    BY <1>1
  <2> QED
    BY <1>1, <1>2, <1>3, <1>4, <2>1, ChosenSame
<1> QED
  BY <1>2, <1>3, <1>5, <1>6 DEF h

-----------------------------------------------------------------------------
(* What can be read.                                                          *)

Places(f, last) == {q \in DOMAIN f : LineOf(f, q) \in first .. last /\ Reachable(f, q)}

LEMMA PlaceIs ==
  ASSUME NEW f \in Seq(Bytes), NEW last \in Nat, first \in Nat
  PROVE  \A q \in 1 .. Len(f) :
            /\ LineOf(f, q) \in Nat \ {0}
            /\ q \in Places(f, last) <=>
                  first <= LineOf(f, q) /\ LineOf(f, q) <= last /\ Reachable(f, q)
<1>1. Len(f) \in Nat /\ DOMAIN f = 1 .. Len(f)
  BY LenProperties
<1>2. \A q \in 1 .. Len(f) : LineOf(f, q) \in Nat \ {0}
  BY <1>1, NewlinesFinite
<1> QED
  BY <1>1, <1>2 DEF Places

(* Whole lines.                                                               *)
LEMMA ShownMore ==
  ASSUME NEW f \in Seq(Bytes), NEW s, NEW t, NEW a \in Nat, NEW b \in Nat,
         Boundary(f, s, a), Boundary(f, t, b), s <= t, a <= b,
         first \in Nat, first <= a + 1, \A q \in s + 1 .. t : LineLength(f, q) <= cap
  PROVE  ShownUpTo(f, b) = ShownUpTo(f, a) \o SubSeq(f, s + 1, t)
<1> DEFINE P == Places(f, a)
           P2 == Places(f, b)
<1>1. Len(f) \in Nat /\ s \in 0 .. Len(f) /\ t \in 0 .. Len(f) /\ t \in s .. Len(f)
  BY LenProperties DEF Boundary
<1>2. ASSUME NEW q \in 1 .. Len(f)
      PROVE  /\ q \in P => q <= s
             /\ q \in P2 <=> (q \in P \/ (s < q /\ q <= t))
  <2>1. /\ LineOf(f, q) \in Nat
        /\ q \in P <=> first <= LineOf(f, q) /\ LineOf(f, q) <= a /\ Reachable(f, q)
        /\ q \in P2 <=> first <= LineOf(f, q) /\ LineOf(f, q) <= b /\ Reachable(f, q)
    BY PlaceIs
  <2>2. (q <= s <=> LineOf(f, q) <= a) /\ (q <= t <=> LineOf(f, q) <= b)
    BY DEF Boundary
  <2>3. s < q /\ q <= t => Reachable(f, q)
    BY <1>1 DEF Reachable
  <2> HIDE DEF P, P2
  <2> QED
    BY <1>1, <2>1, <2>2, <2>3
<1> HIDE DEF P, P2
<1>3. BytesAt(f, P2) = BytesAt(f, P) \o SubSeq(f, s + 1, t)
  BY <1>1, <1>2, BytesAtJoin
<1> QED
  BY <1>3 DEF ShownUpTo, P, P2, Places

(* The beginning of a line that is too long.                                  *)
LEMMA Stretch ==
  ASSUME NEW f \in Seq(Bytes), NEW s \in Nat, NEW n \in Nat, s + n <= Len(f)
  PROVE  LET d == SubSeq(f, s + 1, s + n) IN
         d \in Seq(Bytes) /\ Len(d) = n /\ \A i \in 1 .. n : d[i] = f[s + i]
<1> DEFINE a == s + 1
           e == s + n
           d == SubSeq(f, a, e)
<1>1. Len(f) \in Nat /\ \A q \in 1 .. Len(f) : f[q] \in Bytes
  BY LenProperties, ElementOfSeq
<1>2. /\ a \in Int /\ e \in Int /\ e - a + 1 = n /\ (a <= e <=> n # 0)
      /\ \A q \in a .. e : f[q] \in Bytes
      /\ \A i \in 1 .. n : a + i - 1 = s + i
  BY <1>1
<1> HIDE DEF a, e
<1>3. /\ d \in Seq(Bytes) /\ Len(d) = IF a <= e THEN e - a + 1 ELSE 0
      /\ \A i \in 1 .. e - a + 1 : d[i] = f[a + i - 1]
  BY <1>2, SubSeqProperties
<1> HIDE DEF d
<1>4. Len(d) = n /\ \A i \in 1 .. n : d[i] = f[s + i]
  BY <1>2, <1>3
<1> QED
  BY <1>3, <1>4 DEF d, a, e

LEMMA WholeBeginning ==
  ASSUME NEW f \in Seq(Bytes), NEW s \in Nat, NEW max \in Nat \ {0}, s + max <= Len(f),
         NEW t, t = IF f[s + max] = "lead" THEN s + max - 1 ELSE s + max
  PROVE  Whole(SubSeq(f, s + 1, s + max)) = SubSeq(f, s + 1, t)
<1> DEFINE raw == SubSeq(f, s + 1, s + max)
           less == SubSeq(f, s + 1, s + max - 1)
<1>1. Len(f) \in Nat
  BY LenProperties
<1>2. raw \in Seq(Bytes) /\ Len(raw) = max /\ \A i \in 1 .. max : raw[i] = f[s + i]
  BY <1>1, Stretch
<1>3. less \in Seq(Bytes) /\ Len(less) = max - 1 /\ \A i \in 1 .. max - 1 : less[i] = f[s + i]
  <2>1. max - 1 \in Nat /\ s + (max - 1) <= Len(f) /\ s + max - 1 = s + (max - 1)
    BY <1>1
  <2> QED
    BY <2>1, Stretch
<1> HIDE DEF raw, less
<1>4. EndsWith(raw, "lead") <=> f[s + max] = "lead"
  <2>1. raw # <<>>
    BY <1>2, EmptySeq
  <2> QED
    BY <1>2, <2>1 DEF EndsWith
<1>5. SubSeq(raw, 1, Len(raw) - 1) = less
  <2>1. max - 1 \in 0 .. Len(raw)
    BY <1>2
  <2> DEFINE cut == SubSeq(raw, 1, max - 1)
  <2>2. cut \in Seq(Bytes) /\ Len(cut) = max - 1 /\ \A i \in 1 .. max - 1 : cut[i] = raw[i]
    BY <1>2, <2>1, Beginning
  <2> HIDE DEF cut
  <2>3. Len(cut) = Len(less) /\ \A i \in 1 .. Len(cut) : cut[i] = less[i]
    <3>1. \A i \in 1 .. max - 1 : i \in 1 .. max
      OBVIOUS
    <3>2. \A i \in 1 .. max - 1 : cut[i] = less[i]
      BY <1>2, <1>3, <2>2, <3>1
    <3> QED
      BY <1>3, <2>2, <3>2
  <2>4. cut = less
    BY <1>3, <2>2, <2>3, SeqEqual
  <2> QED
    BY <1>2, <2>4 DEF cut
<1> QED
  BY <1>4, <1>5 DEF Whole, raw, less

LEMMA ShownPartial ==
  ASSUME NEW f \in Seq(Bytes), NEW s, NEW a \in Nat, Boundary(f, s, a),
         first \in Nat, first <= a + 1, cap \in Nat \ {0}, s + cap < Len(f),
         \A q \in s + 1 .. s + cap : f[q] # "newline"
  PROVE  /\ ShownUpTo(f, a + 1) = ShownUpTo(f, a) \o Whole(SubSeq(f, s + 1, s + cap))
         /\ LineOf(f, s + 1) = a + 1
<1> DEFINE P == Places(f, a)
           P2 == Places(f, a + 1)
           t == IF f[s + cap] = "lead" THEN s + cap - 1 ELSE s + cap
<1>1. Len(f) \in Nat /\ s \in 0 .. Len(f) /\ s \in Nat /\ cap \in Nat /\ cap # 0
  BY LenProperties DEF Boundary
<1>2. PICK e \in s .. Len(f) : Ends(f, s, e)
  BY <1>1, LineEnds
<1>3. e \in s .. Len(f) /\ s + cap < e
  <2>1. e \in s .. Len(f) /\ s < e /\ (e = Len(f) \/ f[e] = "newline")
    BY <1>1, <1>2 DEF Ends, OneLine
  <2>2. e \in s + 1 .. s + cap => FALSE
    BY <1>1, <2>1
  <2> QED
    BY <1>1, <2>1, <2>2
<1>4. Boundary(f, e, a + 1)
  BY <1>2, BoundaryNext
<1>5. \A q \in s + 1 .. e : Column(f, q) = q - s /\ LineLength(f, q) = e - s /\ LineOf(f, q) = a + 1
  BY <1>1, <1>2, <1>3, LineIs, LineLengthIs DEF Ends
<1>6. \A q \in s + 1 .. e : Reachable(f, q) <=> q <= t
  <2> SUFFICES ASSUME NEW q \in s + 1 .. e PROVE Reachable(f, q) <=> q <= t
    OBVIOUS
  <2>1. q \in Nat /\ s < q
    BY <1>1, <1>3
  <2>2. Reachable(f, q) <=> e - s <= cap \/ q - s < cap \/ (q - s = cap /\ f[q] # "lead")
    BY <1>5 DEF Reachable
  <2>3. ~(e - s <= cap) /\ (q - s < cap <=> q < s + cap) /\ (q - s = cap <=> q = s + cap)
    BY <1>1, <1>3, <2>1
  <2>4. q < s + cap => q <= t
    BY <1>1, <2>1
  <2>5. q > s + cap => ~(q <= t)
    BY <1>1, <2>1
  <2>6. q = s + cap => (q <= t <=> f[q] # "lead")
    BY <1>1, <2>1
  <2> QED
    BY <1>1, <2>1, <2>2, <2>3, <2>4, <2>5, <2>6
<1>7. t \in s .. Len(f) /\ t < e
  BY <1>1, <1>3
<1> HIDE DEF t
<1>8. ASSUME NEW q \in 1 .. Len(f)
      PROVE  /\ q \in P => q <= s
             /\ q \in P2 <=> (q \in P \/ (s < q /\ q <= t))
  <2>1. /\ LineOf(f, q) \in Nat
        /\ q \in P <=> first <= LineOf(f, q) /\ LineOf(f, q) <= a /\ Reachable(f, q)
        /\ q \in P2 <=> first <= LineOf(f, q) /\ LineOf(f, q) <= a + 1 /\ Reachable(f, q)
    BY PlaceIs
  <2>2. (q <= s <=> LineOf(f, q) <= a) /\ (q <= e <=> LineOf(f, q) <= a + 1)
    BY <1>4 DEF Boundary
  <2>3. s < q /\ q <= e => (Reachable(f, q) <=> q <= t)
    BY <1>1, <1>3, <1>6
  <2> HIDE DEF P, P2
  <2>4. CASE q <= s
    BY <1>1, <1>7, <2>1, <2>2, <2>4
  <2>5. CASE s < q /\ q <= e
    <3>1. first <= LineOf(f, q)
      BY <1>1, <1>3, <1>5, <2>5
    <3> QED
      BY <1>1, <1>7, <2>1, <2>2, <2>3, <2>5, <3>1
  <2>6. CASE e < q
    BY <1>1, <1>3, <1>7, <2>1, <2>2, <2>6
  <2> QED
    BY <1>1, <1>3, <2>4, <2>5, <2>6
<1> HIDE DEF P, P2
<1>9. BytesAt(f, P2) = BytesAt(f, P) \o SubSeq(f, s + 1, t)
  BY <1>1, <1>7, <1>8, BytesAtJoin
<1>10. Whole(SubSeq(f, s + 1, s + cap)) = SubSeq(f, s + 1, t)
  <2>1. s + cap <= Len(f) /\ t = IF f[s + cap] = "lead" THEN s + cap - 1 ELSE s + cap
    BY <1>1 DEF t
  <2> QED
    BY <1>1, <2>1, WholeBeginning
<1>11. LineOf(f, s + 1) = a + 1
  BY <1>1, <1>3, <1>5
<1> QED
  BY <1>9, <1>10, <1>11 DEF ShownUpTo, P, P2, Places

(* The file grows by a byte.                                                  *)
LEMMA GrownLines ==
  ASSUME NEW f \in Seq(Bytes), NEW b \in Bytes
  PROVE  LET h == Append(f, b) IN
         /\ h \in Seq(Bytes) /\ Len(h) = Len(f) + 1 /\ Len(f) \in Nat
         /\ h[Len(f) + 1] = b /\ \A q \in 1 .. Len(f) : h[q] = f[q]
         /\ \A q \in 1 .. Len(f) + 1 :
               /\ NewlinesBefore(h, q) = NewlinesBefore(f, q)
               /\ LineOf(h, q) = LineOf(f, q) /\ Column(h, q) = Column(f, q)
<1> DEFINE h == Append(f, b)
<1>1. /\ h \in Seq(Bytes) /\ Len(h) = Len(f) + 1 /\ Len(f) \in Nat
      /\ h[Len(f) + 1] = b /\ \A q \in 1 .. Len(f) : h[q] = f[q]
  BY AppendProperties, LenProperties
<1> HIDE DEF h
<1>2. ASSUME NEW q \in 1 .. Len(f) + 1
      PROVE  NewlinesBefore(h, q) = NewlinesBefore(f, q)
  <2>1. \A i \in 1 .. q - 1 : i \in 1 .. Len(f)
    BY <1>1
  <2> QED
    BY <1>1, <2>1 DEF NewlinesBefore
<1>3. \A q \in 1 .. Len(f) + 1 : LineOf(h, q) = LineOf(f, q) /\ Column(h, q) = Column(f, q)
  BY <1>2 DEF LineOf, Column
<1> QED
  BY <1>1, <1>2, <1>3 DEF h

(* Lines that are over keep their length.                                     *)
LEMMA LengthGrown ==
  ASSUME NEW f \in Seq(Bytes), NEW b \in Bytes, NEW q \in 1 .. Len(f),
         NewlinesBefore(f, q) # NewlinesBefore(f, Len(f) + 1)
  PROVE  LineLength(Append(f, b), q) = LineLength(f, q)
<1> DEFINE h == Append(f, b)
           end == Len(f) + 1
<1>1. /\ h \in Seq(Bytes) /\ Len(h) = end /\ Len(f) \in Nat
      /\ \A i \in 1 .. end : NewlinesBefore(h, i) = NewlinesBefore(f, i)
  BY GrownLines
<1>2. DOMAIN f = 1 .. Len(f) /\ DOMAIN h = 1 .. end
  BY <1>1, LenProperties
<1> HIDE DEF h
<1>3. NewlinesBefore(f, q) # NewlinesBefore(f, end)
  OBVIOUS
<1>4. /\ \A i \in 1 .. end : i \in 1 .. Len(f) \/ i = end
      /\ \A i \in 1 .. Len(f) : i \in 1 .. end
      /\ end \in 1 .. end
  BY <1>1
<1> HIDE DEF end
<1>5. {i \in DOMAIN h : NewlinesBefore(h, i) = NewlinesBefore(h, q)}
        = {i \in DOMAIN f : NewlinesBefore(f, i) = NewlinesBefore(f, q)}
  BY <1>1, <1>2, <1>3, <1>4
<1> QED
  BY <1>5 DEF LineLength, h

LEMMA LongLine ==
  ASSUME NEW f \in Seq(Bytes), NEW p \in 1 .. Len(f) + 1, NEW k \in Nat, Column(f, p) > k + 1,
         NEW q \in 1 .. Len(f), NewlinesBefore(f, q) = NewlinesBefore(f, p)
  PROVE  LineLength(f, q) \in Nat /\ LineLength(f, q) > k
<1> DEFINE N == NewlinesBefore(f, p) \cup {0}
           m == Max(N)
           S == {i \in DOMAIN f : NewlinesBefore(f, i) = NewlinesBefore(f, q)}
<1>1. Len(f) \in Nat /\ p \in Nat /\ p # 0 /\ DOMAIN f = 1 .. Len(f)
  BY LenProperties
<1>2. m \in 0 .. p - 1 /\ \A n \in N : n <= m
  <2>1. N \subseteq 0 .. p - 1 /\ N # {} /\ p - 1 \in Nat
    BY <1>1 DEF NewlinesBefore
  <2> HIDE DEF N
  <2>2. m \in N /\ \A n \in N : n <= m
    BY <2>1, MaxIs
  <2> QED
    BY <2>1, <2>2
<1>3. Column(f, p) = p - m
  BY DEF Column
<1>4. m + 1 .. p - 1 \subseteq S
  <2> SUFFICES ASSUME NEW i \in m + 1 .. p - 1 PROVE i \in S
    OBVIOUS
  <2> HIDE DEF m
  <2>1. i \in DOMAIN f /\ i \in Nat /\ m < i /\ i <= p - 1
    BY <1>1, <1>2
  <2>2. ASSUME NEW j \in Nat PROVE j \in NewlinesBefore(f, i) <=> j \in NewlinesBefore(f, p)
    <3>1. j \in NewlinesBefore(f, p) => j <= m
      BY <1>2
    <3> QED
      BY <1>1, <1>2, <2>1, <3>1 DEF NewlinesBefore
  <2>3. NewlinesBefore(f, i) \subseteq Nat /\ NewlinesBefore(f, p) \subseteq Nat
    BY DEF NewlinesBefore
  <2>4. NewlinesBefore(f, i) = NewlinesBefore(f, p)
    BY <2>2, <2>3
  <2> QED
    BY <2>1, <2>4
<1>5. IsFiniteSet(S) /\ Cardinality(S) \in Nat
  <2>1. S \subseteq 1 .. Len(f)
    BY <1>1
  <2>2. IsFiniteSet(1 .. Len(f))
    BY <1>1, FS_Interval
  <2> HIDE DEF S
  <2> QED
    BY <2>1, <2>2, FS_Subset, FS_CardinalityType
<1> HIDE DEF m, S
<1>6. Cardinality(m + 1 .. p - 1) <= Cardinality(S)
  BY <1>4, <1>5, FS_Subset
<1>7. Cardinality(m + 1 .. p - 1) = IF m + 1 > p - 1 THEN 0 ELSE (p - 1) - (m + 1) + 1
  BY <1>1, <1>2, FS_Interval
<1>8. p - m > k + 1
  BY <1>3
<1>9. Cardinality(S) > k
  BY <1>1, <1>2, <1>5, <1>6, <1>7, <1>8
<1> QED
  BY <1>5, <1>9 DEF LineLength, S

(* Nothing that comes at the end of a file belongs to its first n lines, or   *)
(* nothing that can be read.                                                  *)
Settled(f, n) ==
    \/ first > n
    \/ n < LineOf(f, Len(f) + 1)
    \/ n = LineOf(f, Len(f) + 1) /\ Column(f, Len(f) + 1) > cap + 1

LEMMA ReachableGrown ==
  ASSUME NEW f \in Seq(Bytes), NEW b \in Bytes, cap \in Nat, NEW q \in 1 .. Len(f),
         NewlinesBefore(f, q) = NewlinesBefore(f, Len(f) + 1) => Column(f, Len(f) + 1) > cap + 1
  PROVE  Reachable(Append(f, b), q) <=> Reachable(f, q)
<1> DEFINE h == Append(f, b)
<1>1. /\ h \in Seq(Bytes) /\ Len(h) = Len(f) + 1 /\ Len(f) \in Nat
      /\ h[Len(f) + 1] = b /\ \A i \in 1 .. Len(f) : h[i] = f[i]
      /\ \A i \in 1 .. Len(f) + 1 :
            /\ NewlinesBefore(h, i) = NewlinesBefore(f, i)
            /\ LineOf(h, i) = LineOf(f, i) /\ Column(h, i) = Column(f, i)
  BY GrownLines
<1> HIDE DEF h
<1>2. /\ q \in 1 .. Len(f) + 1 /\ Len(f) + 1 \in 1 .. Len(f) + 1 /\ q \in 1 .. Len(h)
      /\ Len(f) + 1 \in 1 .. Len(h) + 1
  BY <1>1
<1>3. CASE NewlinesBefore(f, q) # NewlinesBefore(f, Len(f) + 1)
  <2>1. LineLength(h, q) = LineLength(f, q)
    BY <1>3, LengthGrown DEF h
  <2> QED
    BY <1>1, <1>2, <2>1 DEF Reachable, h
<1>4. CASE NewlinesBefore(f, q) = NewlinesBefore(f, Len(f) + 1)
  <2>1. Column(f, Len(f) + 1) > cap + 1 /\ Column(h, Len(f) + 1) > cap + 1
    BY <1>1, <1>2, <1>4
  <2>2. LineLength(f, q) \in Nat /\ LineLength(f, q) > cap
    BY <1>2, <1>4, <2>1, LongLine
  <2>3. NewlinesBefore(h, q) = NewlinesBefore(h, Len(f) + 1)
    BY <1>1, <1>2, <1>4
  <2>4. LineLength(h, q) \in Nat /\ LineLength(h, q) > cap
    BY <1>1, <1>2, <2>1, <2>3, LongLine
  <2> QED
    BY <1>1, <1>2, <2>2, <2>4 DEF Reachable, h
<1> QED
  BY <1>3, <1>4

LEMMA LineStart ==
  ASSUME NEW f, NEW q \in Nat \ {0}
  PROVE  \E m \in 0 .. q - 1 : m = Max(NewlinesBefore(f, q) \cup {0}) /\ Column(f, q) = q - m
<1> DEFINE N == NewlinesBefore(f, q) \cup {0}
<1>1. N \subseteq 0 .. q - 1 /\ N # {} /\ q - 1 \in Nat
  BY DEF NewlinesBefore
<1> HIDE DEF N
<1>2. Max(N) \in 0 .. q - 1
  BY <1>1, MaxIs
<1> QED
  BY <1>2 DEF Column, N

LEMMA ShownStable ==
  ASSUME NEW f \in Seq(Bytes), NEW b \in Bytes, NEW n \in Nat, Settled(f, n),
         cap \in Nat, first \in Nat
  PROVE  ShownUpTo(Append(f, b), n) = ShownUpTo(f, n) /\ Settled(Append(f, b), n)
<1> DEFINE h == Append(f, b)
           end == Len(f) + 1
           P == Places(f, n)
           P2 == Places(h, n)
<1>1. /\ h \in Seq(Bytes) /\ Len(h) = end /\ Len(f) \in Nat /\ end \in Nat
      /\ h[end] = b /\ \A i \in 1 .. Len(f) : h[i] = f[i]
      /\ \A i \in 1 .. end :
            /\ NewlinesBefore(h, i) = NewlinesBefore(f, i)
            /\ LineOf(h, i) = LineOf(f, i) /\ Column(h, i) = Column(f, i)
  BY GrownLines
<1> HIDE DEF h
<1>2. LineOf(f, end) \in Nat /\ LineOf(h, end) = LineOf(f, end) /\ Column(h, end) = Column(f, end)
  BY <1>1, NewlinesFinite
<1>3. ASSUME NEW q \in 1 .. Len(f) PROVE q \in P <=> q \in P2
  <2>1. /\ LineOf(f, q) \in Nat
        /\ q \in P <=> first <= LineOf(f, q) /\ LineOf(f, q) <= n /\ Reachable(f, q)
    BY PlaceIs
  <2>2. q \in 1 .. Len(h) /\ q \in 1 .. end
    BY <1>1
  <2>3. q \in P2 <=> first <= LineOf(h, q) /\ LineOf(h, q) <= n /\ Reachable(h, q)
    BY <1>1, <2>2, PlaceIs
  <2>4. LineOf(h, q) = LineOf(f, q)
    BY <1>1, <2>2
  <2>5. first <= LineOf(f, q) /\ LineOf(f, q) <= n => (Reachable(h, q) <=> Reachable(f, q))
    <3> SUFFICES ASSUME first <= LineOf(f, q), LineOf(f, q) <= n PROVE Reachable(h, q) <=> Reachable(f, q)
      OBVIOUS
    <3>1. NewlinesBefore(f, q) = NewlinesBefore(f, end) => LineOf(f, q) = LineOf(f, end)
      BY DEF LineOf
    <3>2. NewlinesBefore(f, q) = NewlinesBefore(f, end) => Column(f, end) > cap + 1
      BY <1>2, <2>1, <3>1 DEF Settled
    <3> QED
      BY <3>2, ReachableGrown DEF h
  <2> HIDE DEF P, P2
  <2> QED
    BY <2>1, <2>3, <2>4, <2>5
<1>4. end \notin P2
  <2> SUFFICES ASSUME end \in P2 PROVE FALSE
    OBVIOUS
  <2>1. end \in 1 .. Len(h) /\ end \in 1 .. end /\ end \in 1 .. Len(h) + 1
    BY <1>1
  <2>2. first <= LineOf(f, end) /\ LineOf(f, end) <= n /\ Reachable(h, end)
    BY <1>1, <1>2, <2>1, PlaceIs
  <2>3. Column(h, end) > cap + 1
    BY <1>2, <2>2 DEF Settled
  <2>4. LineLength(h, end) \in Nat /\ LineLength(h, end) > cap
    BY <1>1, <2>1, <2>3, LongLine
  <2>5. ~(Column(h, end) < cap) /\ Column(h, end) # cap
    <3>1. end \in Nat \ {0}
      BY <1>1
    <3> HIDE DEF end
    <3>2. PICK m \in 0 .. end - 1 : Column(h, end) = end - m
      BY <3>1, LineStart
    <3> QED
      BY <2>3, <3>1, <3>2
  <2> QED
    BY <2>2, <2>3, <2>4, <2>5 DEF Reachable
<1>5. BytesAt(h, P2) = BytesAt(f, P)
  <2> HIDE DEF P, P2
  <2> QED
    BY <1>3, <1>4, BytesAtGrown DEF h
<1>6. ShownUpTo(h, n) = ShownUpTo(f, n)
  BY <1>5 DEF ShownUpTo, Places
<1>7. Settled(h, n)
  <2>1. /\ LineOf(h, end + 1) \in Nat /\ LineOf(h, end) <= LineOf(h, end + 1)
        /\ h[end] # "newline" => /\ LineOf(h, end + 1) = LineOf(h, end)
                                 /\ NewlinesBefore(h, end + 1) = NewlinesBefore(h, end)
        /\ h[end] = "newline" => LineOf(h, end) < LineOf(h, end + 1)
    <3>1. end \in Nat \ {0} /\ end + 1 \in Nat /\ end <= end + 1 /\ end \in end .. (end + 1) - 1
          /\ \A p \in end .. (end + 1) - 1 : p = end
      BY <1>1
    <3> HIDE DEF end
    <3> QED
      BY <3>1, LinesGrow, NewlinesFinite
  <2>2. CASE first > n
    BY <2>2 DEF Settled
  <2>3. CASE n < LineOf(f, end)
    BY <1>1, <1>2, <2>1, <2>3 DEF Settled
  <2>4. CASE n = LineOf(f, end) /\ Column(f, end) > cap + 1
    <3>1. CASE h[end] = "newline"
      BY <1>1, <1>2, <2>1, <2>4, <3>1 DEF Settled
    <3>2. CASE h[end] # "newline"
      <4>1. NewlinesBefore(h, end + 1) = NewlinesBefore(h, end) /\ n = LineOf(h, end + 1)
        BY <1>2, <2>1, <2>4, <3>2
      <4> DEFINE m == Max(NewlinesBefore(h, end) \cup {0})
      <4>2. m \in Nat /\ Column(h, end) = end - m
        BY <1>1, LineStart
      <4>3. Column(h, end + 1) = (end + 1) - m
        BY <4>1 DEF Column
      <4> HIDE DEF m
      <4>4. Column(h, end + 1) > cap + 1
        BY <1>1, <1>2, <2>4, <4>2, <4>3
      <4> QED
        BY <1>1, <4>1, <4>4 DEF Settled
    <3> QED
      BY <3>1, <3>2
  <2> QED
    BY <2>2, <2>3, <2>4 DEF Settled
<1> QED
  BY <1>6, <1>7 DEF h

-----------------------------------------------------------------------------
(* Pages are text.                                                            *)

Text(data, final) == data \in Seq(Bytes) /\ Undecodable(data, final) = {}

LEMMA TextIs ==
  ASSUME NEW t \in Seq(Bytes), NEW final \in BOOLEAN
  PROVE  Text(t, final) <=>
            \A i \in 1 .. Len(t) :
               /\ t[i] = "cont" => i # 1 /\ t[i - 1] = "lead"
               /\ t[i] = "lead" => IF i = Len(t) THEN ~final ELSE t[i + 1] = "cont"
<1>1. DOMAIN t = 1 .. Len(t)
  BY LenProperties
<1> QED
  BY <1>1 DEF Text, Undecodable

(* A character that the end cuts off is all that is missing at the end of a   *)
(* text's beginning.                                                          *)
LEMMA TextBeginning ==
  ASSUME NEW t, Text(t, TRUE), NEW k \in 0 .. Len(t)
  PROVE  Text(SubSeq(t, 1, k), FALSE)
<1> DEFINE b == SubSeq(t, 1, k)
<1>1. Len(t) \in Nat /\ t \in Seq(Bytes)
  BY LenProperties DEF Text
<1>2. b \in Seq(Bytes) /\ Len(b) = k /\ \A i \in 1 .. k : b[i] = t[i]
  BY <1>1, Beginning
<1> HIDE DEF b
<1>3. ASSUME NEW i \in 1 .. k
      PROVE  /\ b[i] = "cont" => i # 1 /\ b[i - 1] = "lead"
             /\ b[i] = "lead" => IF i = k THEN TRUE ELSE b[i + 1] = "cont"
  <2>1. i \in 1 .. Len(t) /\ (i # 1 => i - 1 \in 1 .. k) /\ (i # k => i + 1 \in 1 .. k /\ i # Len(t))
    BY <1>1
  <2>2. /\ t[i] = "cont" => i # 1 /\ t[i - 1] = "lead"
        /\ t[i] = "lead" => i # Len(t) /\ t[i + 1] = "cont"
    BY <1>1, <2>1, TextIs
  <2> QED
    BY <1>2, <2>1, <2>2
<1>4. Text(b, FALSE)
  BY <1>2, <1>3, TextIs
<1> QED
  BY <1>4 DEF b

LEMMA WholeIsText ==
  ASSUME NEW t, Text(t, FALSE)
  PROVE  Text(Whole(t), TRUE)
<1>1. Len(t) \in Nat /\ t \in Seq(Bytes)
  BY LenProperties DEF Text
<1>2. PICK k \in 0 .. Len(t) :
         /\ Whole(t) = SubSeq(t, 1, k) /\ k >= Len(t) - 1
         /\ k < Len(t) => t[Len(t)] = "lead"
         /\ k = Len(t) => t = <<>> \/ t[Len(t)] # "lead"
  BY <1>1, WholeIs
<1> DEFINE b == SubSeq(t, 1, k)
<1>3. b \in Seq(Bytes) /\ Len(b) = k /\ \A i \in 1 .. k : b[i] = t[i]
  BY <1>1, Beginning
<1> HIDE DEF b
<1>4. t = <<>> => Len(t) = 0
  BY EmptySeq
<1>5. ASSUME NEW i \in 1 .. k
      PROVE  /\ b[i] = "cont" => i # 1 /\ b[i - 1] = "lead"
             /\ b[i] = "lead" => i # k /\ b[i + 1] = "cont"
  <2>1. i \in 1 .. Len(t) /\ (i # 1 => i - 1 \in 1 .. k) /\ (i # k => i + 1 \in 1 .. k /\ i # Len(t))
    BY <1>1
  <2>2. /\ t[i] = "cont" => i # 1 /\ t[i - 1] = "lead"
        /\ t[i] = "lead" => i = Len(t) \/ t[i + 1] = "cont"
    BY <1>1, <2>1, TextIs
  <2>3. i = k /\ t[i] = "lead" => FALSE
    <3> SUFFICES ASSUME i = k, t[i] = "lead" PROVE FALSE
      OBVIOUS
    <3>1. k # Len(t)
      BY <1>1, <1>2, <1>4
    <3>2. Len(t) = i + 1 /\ t[i + 1] = "lead"
      BY <1>1, <1>2, <3>1
    <3> QED
      BY <1>1, <2>2, <3>2
  <2> QED
    BY <1>3, <2>1, <2>2, <2>3
<1>6. Text(b, TRUE)
  BY <1>3, <1>5, TextIs
<1> QED
  BY <1>2, <1>6 DEF b

LEMMA TextJoined ==
  ASSUME NEW s, NEW t, Text(s, TRUE), Text(t, TRUE)
  PROVE  Text(s \o t, TRUE)
<1> DEFINE u == s \o t
           n == Len(s)
<1>1. n \in Nat /\ Len(t) \in Nat /\ s \in Seq(Bytes) /\ t \in Seq(Bytes)
  BY LenProperties DEF Text
<1>2. /\ u \in Seq(Bytes) /\ Len(u) = n + Len(t)
      /\ \A i \in 1 .. n + Len(t) : u[i] = IF i <= n THEN s[i] ELSE t[i - n]
  BY <1>1, ConcatProperties
<1> HIDE DEF u, n
<1>3. \A i \in 1 .. n : /\ s[i] = "cont" => i # 1 /\ s[i - 1] = "lead"
                        /\ s[i] = "lead" => i # n /\ s[i + 1] = "cont"
  BY <1>1, TextIs DEF n
<1>4. \A i \in 1 .. Len(t) : /\ t[i] = "cont" => i # 1 /\ t[i - 1] = "lead"
                             /\ t[i] = "lead" => i # Len(t) /\ t[i + 1] = "cont"
  BY <1>1, TextIs
<1>5. ASSUME NEW i \in 1 .. n + Len(t)
      PROVE  /\ u[i] = "cont" => i # 1 /\ u[i - 1] = "lead"
             /\ u[i] = "lead" => i # n + Len(t) /\ u[i + 1] = "cont"
  <2>1. CASE i <= n
    <3>1. i \in 1 .. n /\ u[i] = s[i]
      BY <1>1, <1>2, <2>1
    <3>2. i # 1 => u[i - 1] = s[i - 1]
      BY <1>1, <1>2, <3>1
    <3>3. i # n => u[i + 1] = s[i + 1] /\ i # n + Len(t)
      BY <1>1, <1>2, <3>1
    <3> QED
      BY <1>3, <3>1, <3>2, <3>3
  <2>2. CASE ~(i <= n)
    <3> DEFINE j == i - n
    <3>1. j \in 1 .. Len(t) /\ u[i] = t[j] /\ i = n + j
      BY <1>1, <1>2, <2>2
    <3>2. j # 1 => i - 1 \in 1 .. n + Len(t) /\ ~(i - 1 <= n) /\ (i - 1) - n = j - 1 /\ i # 1
      BY <1>1, <3>1
    <3>3. j # Len(t) => i + 1 \in 1 .. n + Len(t) /\ ~(i + 1 <= n) /\ (i + 1) - n = j + 1 /\ i # n + Len(t)
      BY <1>1, <3>1
    <3> HIDE DEF j
    <3>4. j # 1 => u[i - 1] = t[j - 1]
      BY <1>2, <3>2
    <3>5. j # Len(t) => u[i + 1] = t[j + 1]
      BY <1>2, <3>3
    <3> QED
      BY <1>4, <3>1, <3>2, <3>3, <3>4, <3>5
  <2> QED
    BY <2>1, <2>2
<1>6. Text(u, TRUE)
  BY <1>2, <1>5, TextIs
<1> QED
  BY <1>6 DEF u

-----------------------------------------------------------------------------
(* What a page adds to what was read before it.                               *)

Whereabouts(f, from, start) ==
    /\ f \in Seq(Bytes) /\ from \in Nat /\ start \in Nat /\ Boundary(f, from, start)
    /\ cap \in Nat \ {0} /\ first \in Nat /\ first <= start + 1

(* Whole lines.                                                               *)
LEMMA LinesShown ==
  ASSUME NEW f, NEW from, NEW start, Whereabouts(f, from, start),
         NEW full, NEW n, Taken(f, start, from, cap, full, n)
  PROVE  ShownUpTo(f, start + full) = ShownUpTo(f, start) \o SubSeq(f, from + 1, from + n)
<1> DEFINE t == from + n
           b == start + full
<1>1. /\ f \in Seq(Bytes) /\ start \in Nat /\ Boundary(f, from, start) /\ first \in Nat /\ first <= start + 1
      /\ from \in Nat /\ n \in Nat /\ full \in Nat
  BY DEF Whereabouts, Taken
<1>2. b \in Nat /\ start <= b /\ from <= t /\ Boundary(f, t, b) /\ \A q \in from + 1 .. t : LineLength(f, q) <= cap
  BY <1>1 DEF Taken
<1> HIDE DEF t, b
<1>3. ShownUpTo(f, b) = ShownUpTo(f, start) \o SubSeq(f, from + 1, t)
  BY <1>1, <1>2, ShownMore
<1> QED
  BY <1>3 DEF b, t

(* After a newline, or with more to come, they are settled.                   *)
LEMMA LinesSettled ==
  ASSUME NEW f, NEW from, NEW start, Whereabouts(f, from, start),
         NEW full, NEW n, Taken(f, start, from, cap, full, n),
         from + n < Len(f) \/ (n # 0 /\ f[from + n] = "newline")
  PROVE  Settled(f, start + full)
<1> DEFINE t == from + n
           b == start + full
           end == Len(f) + 1
<1>1. /\ Len(f) \in Nat /\ t \in Nat /\ b \in Nat /\ t <= Len(f) /\ Boundary(f, t, b)
      /\ n # 0 => t # 0 /\ LineOf(f, t) = b
      /\ t < Len(f) \/ (n # 0 /\ f[t] = "newline")
  BY LenProperties DEF Whereabouts, Taken
<1> HIDE DEF t, b
<1>2. CASE t < Len(f)
  <2> DEFINE u == t + 1
  <2>1. u \in 1 .. Len(f) /\ u \in Nat \ {0} /\ ~(u <= t) /\ end \in Nat /\ u <= end
    BY <1>1, <1>2
  <2> HIDE DEF u, end
  <2>2. LineOf(f, u) \in Nat /\ LineOf(f, end) \in Nat /\ LineOf(f, u) <= LineOf(f, end)
    BY <2>1, NewlinesFinite, LinesGrow
  <2>3. ~(LineOf(f, u) <= b)
    BY <1>1, <2>1 DEF Boundary
  <2>4. b < LineOf(f, end)
    BY <1>1, <2>2, <2>3
  <2> QED
    BY <2>4 DEF Settled, b, end
<1>3. CASE n # 0 /\ f[t] = "newline"
  <2>1. t \in Nat \ {0} /\ end \in Nat /\ t <= end /\ t \in t .. end - 1
    BY <1>1, <1>3
  <2> HIDE DEF end
  <2>2. LineOf(f, t) < LineOf(f, end)
    BY <1>3, <2>1, LinesGrow
  <2> QED
    BY <1>1, <1>3, <2>2 DEF Settled, b, end
<1> QED
  BY <1>1, <1>2, <1>3

(* The last page: all lines there are.                                        *)
LEMMA AllShown ==
  ASSUME NEW f, NEW from \in Nat, NEW start, Whereabouts(f, from, start),
         NEW full, NEW n \in Nat, Taken(f, start, from, cap, full, n),
         from + n = Len(f) \/ (n # 0 /\ f[from + n] # "newline")
  PROVE  ShownUpTo(f, start + full) = ShownUpTo(f, Len(f))
<1> DEFINE t == from + n
           b == start + full
<1>1. /\ Len(f) \in Nat /\ t \in Nat /\ b \in Nat /\ t <= Len(f) /\ Boundary(f, t, b)
      /\ n # 0 => t # 0 /\ LineOf(f, t) = b
      /\ t = Len(f) \/ (n # 0 /\ f[t] # "newline")
      /\ f \in Seq(Bytes) /\ first \in Nat
  BY LenProperties DEF Whereabouts, Taken
<1> HIDE DEF t, b
<1>2. t = Len(f)
  <2> SUFFICES ASSUME t # Len(f) PROVE FALSE
    OBVIOUS
  <2> DEFINE u == t + 1
  <2>1. f[t] # "newline" /\ t # 0 /\ LineOf(f, t) = b
    BY <1>1
  <2>2. u \in 1 .. Len(f) /\ u \in Nat /\ ~(u <= t) /\ t \in Nat \ {0} /\ t <= u
    BY <1>1, <2>1
  <2>3. \A p \in t .. u - 1 : p = t
    BY <1>1
  <2> HIDE DEF u
  <2>4. LineOf(f, t) = LineOf(f, u)
    BY <2>1, <2>2, <2>3, LinesGrow
  <2>5. LineOf(f, u) <= b
    BY <1>1, <2>1, <2>4
  <2> QED
    BY <1>1, <2>2, <2>5 DEF Boundary
<1>3. \A q \in 1 .. Len(f) : q \in Places(f, b) <=> q \in Places(f, Len(f))
  <2> SUFFICES ASSUME NEW q \in 1 .. Len(f) PROVE q \in Places(f, b) <=> q \in Places(f, Len(f))
    OBVIOUS
  <2>0. q \in Nat /\ q # 0 /\ q <= Len(f)
    BY <1>1
  <2>1. LineOf(f, q) \in Nat /\ LineOf(f, q) <= q
    BY <2>0, NewlinesFinite
  <2>2. LineOf(f, q) <= Len(f) /\ LineOf(f, q) <= b
    BY <1>1, <1>2, <2>0, <2>1 DEF Boundary
  <2> QED
    BY <1>1, <2>2, PlaceIs
<1>4. Places(f, b) = Places(f, Len(f))
  <2>1. Places(f, b) \subseteq 1 .. Len(f) /\ Places(f, Len(f)) \subseteq 1 .. Len(f)
    BY <1>1, LenProperties DEF Places
  <2> QED
    BY <1>3, <2>1
<1>5. ShownUpTo(f, b) = ShownUpTo(f, Len(f))
  BY <1>4 DEF ShownUpTo, Places
<1> QED
  BY <1>5 DEF b

(* The beginning of a line that is too long, whatever is added to that line.  *)
LEMMA PartialShown ==
  ASSUME NEW f, NEW from, NEW start, Whereabouts(f, from, start),
         from + cap < Len(f), \A q \in from + 1 .. from + cap : f[q] # "newline"
  PROVE  /\ ShownUpTo(f, start + 1) = ShownUpTo(f, start) \o Whole(SubSeq(f, from + 1, from + cap))
         /\ Settled(f, start + 1)
<1> DEFINE u == from + 1
           end == Len(f) + 1
           b == start + 1
<1>1. /\ f \in Seq(Bytes) /\ start \in Nat /\ Boundary(f, from, start) /\ first \in Nat /\ first <= start + 1
      /\ from \in Nat /\ cap \in Nat \ {0} /\ Len(f) \in Nat
  BY LenProperties DEF Whereabouts
<1>2. /\ ShownUpTo(f, b) = ShownUpTo(f, start) \o Whole(SubSeq(f, from + 1, from + cap))
      /\ LineOf(f, u) = b
  BY <1>1, ShownPartial
<1>3. u \in Nat \ {0} /\ end \in Nat \ {0} /\ u <= end /\ b \in Nat
  BY <1>1
<1> HIDE DEF b
<1>4. Settled(f, b)
  <2> HIDE DEF u, end
  <2>1. LineOf(f, u) <= LineOf(f, end) /\ LineOf(f, end) \in Nat
    BY <1>3, LinesGrow, NewlinesFinite
  <2>2. CASE LineOf(f, u) < LineOf(f, end)
    BY <1>2, <2>2 DEF Settled, end
  <2>3. CASE LineOf(f, u) = LineOf(f, end)
    <3>1. NewlinesBefore(f, u) = NewlinesBefore(f, end)
      <4>1. ~(\E p \in u .. end - 1 : f[p] = "newline")
        <5> SUFFICES ASSUME \E p \in u .. end - 1 : f[p] = "newline" PROVE FALSE
          OBVIOUS
        <5>1. LineOf(f, u) < LineOf(f, end)
          BY <1>3, LinesGrow
        <5> QED
          BY <2>1, <2>3, <5>1
      <4> QED
        BY <1>3, <4>1, LinesGrow
    <3>2. PICK m \in 0 .. u - 1 : m = Max(NewlinesBefore(f, u) \cup {0})
      BY <1>3, LineStart
    <3>3. Column(f, end) = end - m
      BY <3>1, <3>2 DEF Column
    <3>4. Column(f, end) > cap + 1
      BY <1>1, <3>2, <3>3 DEF u, end
    <3> QED
      BY <1>2, <2>3, <3>4 DEF Settled, end
  <2> QED
    BY <1>2, <1>3, <2>1, <2>2, <2>3
<1> QED
  BY <1>2, <1>4 DEF b

-----------------------------------------------------------------------------
(* A call that has the file open, while the file grows.                       *)

(* The first n lines are the first s bytes, and the last of them ends there.  *)
Passed(f, s, n) == Boundary(f, s, n) /\ (n = 0 <=> s = 0) /\ (s # 0 => LineOf(f, s) = n)

LEMMA PassedNext ==
  ASSUME NEW f \in Seq(Bytes), NEW n \in Nat, NEW s, NEW e, Passed(f, s, n), Ends(f, s, e), s < e
  PROVE  Passed(f, e, n + 1)
<1>1. Boundary(f, s, n) /\ Boundary(f, e, n + 1)
  BY BoundaryNext DEF Passed
<1>2. Len(f) \in Nat /\ s \in 0 .. Len(f) /\ e \in s .. Len(f)
  BY <1>1, LenProperties DEF Boundary, Ends, OneLine
<1>3. e \in s + 1 .. e /\ e # 0 /\ n + 1 # 0
  BY <1>2
<1>4. LineOf(f, e) = n + 1
  BY <1>1, <1>3, LineIs DEF Ends
<1> QED
  BY <1>1, <1>3, <1>4 DEF Passed

(* After a newline, or with more to come, what is added is not theirs.        *)
LEMMA PassedOver ==
  ASSUME NEW f \in Seq(Bytes), NEW n \in Nat, NEW s, Passed(f, s, n),
         s < Len(f) \/ s = 0 \/ f[s] = "newline"
  PROVE  n < LineOf(f, Len(f) + 1)
<1> DEFINE end == Len(f) + 1
           u == s + 1
<1>1. Len(f) \in Nat /\ s \in 0 .. Len(f) /\ Boundary(f, s, n)
  BY LenProperties DEF Passed, Boundary
<1>2. /\ end \in Nat \ {0} /\ u \in Nat \ {0} /\ s <= end /\ u <= end
      /\ s # 0 => s \in Nat \ {0} /\ s \in s .. end - 1
      /\ s < Len(f) => u \in 1 .. Len(f) /\ ~(u <= s)
  BY <1>1
<1> HIDE DEF end, u
<1>3. LineOf(f, end) \in Nat \ {0} /\ LineOf(f, u) \in Nat
  BY <1>2, NewlinesFinite
<1>4. CASE s < Len(f)
  <2>1. ~(LineOf(f, u) <= n) /\ LineOf(f, u) <= LineOf(f, end)
    BY <1>1, <1>2, <1>4, LinesGrow DEF Boundary
  <2> QED
    BY <1>3, <2>1 DEF end
<1>5. CASE s = 0
  BY <1>3, <1>5 DEF Passed, end
<1>6. CASE s # 0 /\ f[s] = "newline"
  <2>1. LineOf(f, s) < LineOf(f, end) /\ LineOf(f, s) = n
    BY <1>2, <1>6, LinesGrow DEF Passed
  <2> QED
    BY <2>1 DEF end
<1> QED
  BY <1>4, <1>5, <1>6

LEMMA BoundaryGrown ==
  ASSUME NEW f \in Seq(Bytes), NEW b \in Bytes, NEW n \in Nat, NEW s, Boundary(f, s, n),
         n < LineOf(f, Len(f) + 1)
  PROVE  Boundary(Append(f, b), s, n)
<1> DEFINE h == Append(f, b)
           end == Len(f) + 1
<1>1. /\ Len(h) = end /\ Len(f) \in Nat
      /\ \A q \in 1 .. end : LineOf(h, q) = LineOf(f, q)
  BY GrownLines
<1> HIDE DEF h
<1>2. s \in 0 .. Len(f) /\ \A q \in 1 .. Len(f) : q <= s <=> LineOf(f, q) <= n
  BY DEF Boundary
<1>3. LineOf(f, end) \in Nat
  BY <1>1, NewlinesFinite
<1>4. ASSUME NEW q \in 1 .. end PROVE q <= s <=> LineOf(h, q) <= n
  <2>1. CASE q = end
    BY <1>1, <1>2, <1>3, <2>1
  <2>2. CASE q # end
    <3>1. q \in 1 .. Len(f)
      BY <1>1, <2>2
    <3> QED
      BY <1>1, <1>2, <3>1
  <2> QED
    BY <2>1, <2>2
<1>5. s \in 0 .. Len(h)
  BY <1>1, <1>2
<1> QED
  BY <1>1, <1>4, <1>5 DEF Boundary, h

LEMMA PassedGrown ==
  ASSUME NEW f \in Seq(Bytes), NEW b \in Bytes, NEW n \in Nat, NEW s, Passed(f, s, n),
         n < LineOf(f, Len(f) + 1)
  PROVE  Passed(Append(f, b), s, n)
<1>1. Boundary(Append(f, b), s, n) /\ s \in 0 .. Len(f) /\ Len(f) \in Nat
  BY BoundaryGrown, LenProperties DEF Passed, Boundary
<1>2. s \in 1 .. Len(f) + 1 => LineOf(Append(f, b), s) = LineOf(f, s)
  BY GrownLines
<1>3. s # 0 => s \in 1 .. Len(f) + 1
  BY <1>1
<1> QED
  BY <1>1, <1>2, <1>3 DEF Passed

LEMMA OneLineGrown ==
  ASSUME NEW f \in Seq(Bytes), NEW b \in Bytes, NEW s \in Nat, NEW e, OneLine(f, s, e), s < e
  PROVE  OneLine(Append(f, b), s, e) /\ Append(f, b)[e] = f[e]
<1> DEFINE h == Append(f, b)
<1>1. Len(h) = Len(f) + 1 /\ Len(f) \in Nat /\ \A q \in 1 .. Len(f) : h[q] = f[q]
  BY GrownLines
<1> HIDE DEF h
<1>2. e \in s .. Len(f) /\ \A q \in s + 1 .. e - 1 : f[q] # "newline"
  BY DEF OneLine
<1>3. e \in 1 .. Len(f) /\ e \in s .. Len(h) /\ \A q \in s + 1 .. e - 1 : q \in 1 .. Len(f)
  BY <1>1, <1>2
<1> QED
  BY <1>1, <1>2, <1>3 DEF OneLine, h

LEMMA TakenGrown ==
  ASSUME NEW f \in Seq(Bytes), NEW b \in Bytes, NEW start \in Nat, NEW base \in Nat, NEW max \in Nat,
         NEW full, NEW size, Taken(f, start, base, max, full, size),
         start + full < LineOf(f, Len(f) + 1)
  PROVE  Taken(Append(f, b), start, base, max, full, size)
<1> DEFINE h == Append(f, b)
           t == base + size
           n == start + full
<1>1. /\ full \in Nat /\ size \in 0 .. max /\ t <= Len(f) /\ Boundary(f, t, n)
      /\ \A q \in base + 1 .. t : LineLength(f, q) <= max
      /\ full = 0 <=> size = 0
      /\ size # 0 => LineOf(f, t) = n
  BY DEF Taken
<1>2. /\ Len(h) = Len(f) + 1 /\ Len(f) \in Nat
      /\ \A q \in 1 .. Len(f) + 1 : LineOf(h, q) = LineOf(f, q)
  BY GrownLines
<1> HIDE DEF h
<1>3. t \in Nat /\ n \in Nat /\ t <= Len(h) /\ LineOf(f, Len(f) + 1) \in Nat
  BY <1>1, <1>2, NewlinesFinite
<1>4. Boundary(h, t, n)
  <2> HIDE DEF t
  <2>1. n < LineOf(f, Len(f) + 1)
    OBVIOUS
  <2> HIDE DEF n
  <2> QED
    BY <1>1, <1>3, <2>1, BoundaryGrown DEF h
<1>5. ASSUME NEW q \in base + 1 .. t PROVE LineLength(h, q) <= max
  <2>1. q \in 1 .. Len(f) /\ q <= t /\ LineLength(f, q) <= max
    BY <1>1, <1>2, <1>3
  <2>2. LineOf(f, q) <= n /\ LineOf(f, q) \in Nat
    BY <1>1, <2>1, NewlinesFinite DEF Boundary
  <2>3. NewlinesBefore(f, q) # NewlinesBefore(f, Len(f) + 1)
    BY <1>3, <2>2 DEF LineOf
  <2> QED
    BY <2>1, <2>3, LengthGrown DEF h
<1>6. size # 0 => LineOf(h, t) = n
  <2>1. size # 0 => t \in 1 .. Len(f) + 1
    BY <1>1, <1>2, <1>3
  <2> QED
    BY <1>1, <1>2, <2>1
<1> HIDE DEF t, n
<1> QED
  BY <1>1, <1>3, <1>4, <1>5, <1>6 DEF Taken, h, t, n

(* A line goes on where it was left.                                          *)
LEMMA LineGoesOn ==
  ASSUME NEW f \in Seq(Bytes), NEW s \in Nat, NEW p, NEW e,
         OneLine(f, s, p), s < p, f[p] # "newline", OneLine(f, p, e)
  PROVE  OneLine(f, s, e)
<1>1. Len(f) \in Nat /\ p \in s .. Len(f) /\ e \in p .. Len(f)
  BY LenProperties DEF OneLine
<1>2. ASSUME NEW q \in s + 1 .. e - 1 PROVE f[q] # "newline"
  <2>1. q \in s + 1 .. p - 1 \/ q = p \/ q \in p + 1 .. e - 1
    BY <1>1
  <2> QED
    BY <2>1 DEF OneLine
<1> QED
  BY <1>1, <1>2 DEF OneLine

-----------------------------------------------------------------------------
(* A client that follows the pages, and its call in progress: it skips lines, *)
Skipping ==
    /\ Passed(file, begin, lines)
    /\ ~seen => place = begin
    /\ seen => OneLine(file, begin, place) /\ begin < place /\ file[place] # "newline"

(* ... then takes those that fit.                                             *)
Taking ==
    /\ ~seen /\ Passed(file, begin, Start)
    /\ Taken(file, Start, begin, cap, lines - Start, place - begin)

ReaderType ==
    /\ opened \in BOOLEAN /\ seen \in BOOLEAN /\ torn \in BOOLEAN
    /\ lines \in Nat /\ begin \in Nat /\ place \in Nat
    /\ begin <= place /\ place <= Len(file)
    /\ ~opened => lines = 0 /\ begin = 0 /\ place = 0 /\ ~seen
    /\ lines >= Start => place - begin <= cap /\ (lines = Start <=> place = begin)

ReaderOK ==
    /\ ReaderType
    /\ opened /\ ~torn => (lines < Start => Skipping) /\ (lines >= Start => Taking)

Following == got = ShownUpTo(file, Start) /\ Settled(file, Start)

PagesInv ==
    /\ FileOK
    /\ cap \in Nat \ {0} /\ limit \in (Nat \ {0}) \cup {NoLimit} /\ first \in Nat
    /\ offset \in Nat /\ first <= offset
    /\ Text(got, TRUE)
    /\ ReaderOK
    /\ phase = "reading" /\ ~torn => Following
    /\ phase = "done" /\ ~torn => got = ShownUpTo(file, Len(file))

(* The page that a call comes to: bytes of the file, and the right ones.      *)
PageAny(page) ==
    /\ page.full \in Nat
    /\ \/ page.cut = "none"
       \/ page.cut = "line" /\ page.full # 0
       \/ page.cut = "partial" /\ page.full = 0
    /\ \E n \in 0 .. cap : begin + n <= Len(file) /\ page.data = SubSeq(file, begin + 1, begin + n)

Right(page) == Boundary(file, begin, Start) /\ PageIs(file, Start, limit, cap, begin, page)

Turns == \E page : PageAny(page) /\ (~torn => Right(page)) /\ Returns(page)

LEMMA PageParts ==
  ASSUME NEW size, NEW full, NEW cut
  PROVE  /\ Page(size, full, cut).data = SubSeq(file, begin + 1, begin + size)
         /\ Page(size, full, cut).full = full /\ Page(size, full, cut).cut = cut
BY DEF Page

LEMMA AnyPage ==
  ASSUME NEW n \in 0 .. cap, begin + n <= Len(file), NEW full \in Nat, NEW cut,
         cut = "none" \/ (cut = "line" /\ full # 0) \/ (cut = "partial" /\ full = 0)
  PROVE  PageAny(Page(n, full, cut))
<1> DEFINE page == Page(n, full, cut)
<1>1. page.data = SubSeq(file, begin + 1, begin + n) /\ page.full = full /\ page.cut = cut
  BY PageParts
<1> HIDE DEF page
<1>2. PageAny(page)
  BY <1>1 DEF PageAny
<1> QED
  BY <1>2 DEF page

LEMMA RightPage ==
  ASSUME NEW n \in 0 .. cap, begin + n <= Len(file), NEW full, NEW cut, Boundary(file, begin, Start),
         \/ /\ cut = "none" /\ Taken(file, Start, begin, cap, full, n)
            /\ full = limit \/ begin + n = Len(file)
         \/ /\ cut = "line" /\ Taken(file, Start, begin, cap, full, n)
            /\ full # 0 /\ begin + n < Len(file)
         \/ /\ cut = "partial" /\ full = 0 /\ n = cap /\ begin + n < Len(file)
            /\ \A q \in begin + 1 .. begin + n : file[q] # "newline"
  PROVE  Right(Page(n, full, cut))
<1> DEFINE page == Page(n, full, cut)
<1>1. page.data = SubSeq(file, begin + 1, begin + n) /\ page.full = full /\ page.cut = cut
  BY PageParts
<1> HIDE DEF page
<1>2. Right(page)
  BY <1>1 DEF Right, PageIs
<1> QED
  BY <1>2 DEF page

LEMMA InvFacts ==
  ASSUME PagesInv
  PROVE  /\ file \in Seq(Bytes) /\ Len(file) \in Nat
         /\ cap \in Nat \ {0} /\ limit \in (Nat \ {0}) \cup {NoLimit} /\ first \in Nat
         /\ offset \in Nat /\ first <= offset /\ Start \in Nat /\ offset <= Start + 1
         /\ got \in Seq(Bytes) /\ ReaderOK
         /\ lines \in Nat /\ begin \in Nat /\ place \in Nat /\ place \in 0 .. Len(file)
         /\ begin <= place /\ place <= Len(file)
         /\ lines >= Start => place - begin <= cap /\ (lines = Start <=> place = begin)
<1>1. /\ file \in Seq(Bytes) /\ cap \in Nat \ {0} /\ limit \in (Nat \ {0}) \cup {NoLimit}
      /\ first \in Nat /\ offset \in Nat /\ first <= offset /\ got \in Seq(Bytes)
      /\ ReaderOK /\ ReaderType
  BY DEF PagesInv, FileOK, Text, ReaderOK
<1>2. Len(file) \in Nat
  BY <1>1, LenProperties
<1>3. Start \in Nat /\ offset <= Start + 1
  BY <1>1 DEF Start
<1>4. /\ lines \in Nat /\ begin \in Nat /\ place \in Nat
      /\ begin <= place /\ place <= Len(file)
      /\ lines >= Start => place - begin <= cap /\ (lines = Start <=> place = begin)
  BY <1>1 DEF ReaderType
<1>5. place \in 0 .. Len(file)
  BY <1>2, <1>4
<1> QED
  BY <1>1, <1>2, <1>3, <1>4, <1>5

(* The file is shorter than what the client asks for.                         *)
LEMMA NothingThere ==
  ASSUME PagesInv, Skipping, ~seen, lines < Start, place = Len(file)
  PROVE  Right(Page(0, 0, "none"))
<1>1. /\ file \in Seq(Bytes) /\ Len(file) \in Nat /\ begin \in Nat /\ lines \in Nat /\ Start \in Nat
      /\ begin = Len(file) /\ cap \in Nat
  BY InvFacts DEF Skipping
<1>2. ASSUME NEW q \in 1 .. Len(file) PROVE q <= begin <=> LineOf(file, q) <= Start
  <2>1. q <= begin /\ LineOf(file, q) \in Nat
    BY <1>1, NewlinesFinite
  <2>2. LineOf(file, q) <= lines
    BY <2>1 DEF Skipping, Passed, Boundary
  <2> QED
    BY <1>1, <2>1, <2>2
<1>3. Boundary(file, begin, Start)
  BY <1>1, <1>2 DEF Boundary
<1>4. Taken(file, Start, begin, cap, 0, 0)
  <2>1. begin + 0 = begin /\ Start + 0 = Start /\ 0 \in 0 .. cap
    BY <1>1
  <2>2. \A q \in begin + 1 .. begin + 0 : FALSE
    BY <1>1
  <2> QED
    BY <1>1, <1>3, <2>1, <2>2 DEF Taken
<1>5. 0 \in 0 .. cap /\ begin + 0 <= Len(file) /\ begin + 0 = Len(file)
  BY <1>1
<1> QED
  BY <1>3, <1>4, <1>5, RightPage

(* A line has been skipped.                                                   *)
LEMMA LineSkipped ==
  ASSUME PagesInv, Skipping, lines < Start, NEW e, OneLine(file, place, e),
         IF e = place THEN seen ELSE file[e] = "newline"
  PROVE  Passed(file, e, lines + 1)
<1>1. /\ file \in Seq(Bytes) /\ Len(file) \in Nat /\ begin \in Nat /\ lines \in Nat
      /\ place \in 0 .. Len(file) /\ Passed(file, begin, lines) /\ e \in place .. Len(file)
  BY InvFacts DEF Skipping, OneLine
<1>2. begin < e /\ Ends(file, begin, e)
  <2>1. CASE seen
    <3>1. OneLine(file, begin, e) /\ begin < place
      BY <1>1, <2>1, LineGoesOn DEF Skipping
    <3>2. e = place => e = Len(file)
      BY <1>1 DEF OneLine
    <3> QED
      BY <1>1, <3>1, <3>2 DEF Ends
  <2>2. CASE ~seen
    <3>1. place = begin /\ e # place /\ file[e] = "newline"
      BY <2>2 DEF Skipping
    <3> QED
      BY <1>1, <3>1 DEF Ends
  <2> QED
    BY <2>1, <2>2
<1> QED
  BY <1>1, <1>2, PassedNext

LEMMA Skips ==
  ASSUME PagesInv, Skip, UNCHANGED <<file, args, torn>>
  PROVE  Turns \/ (UNCHANGED client /\ opened' = opened /\ ReaderOK')
<1> DEFINE part == ReadLine(file, place, SkipChunk)
<1>1. /\ file \in Seq(Bytes) /\ Len(file) \in Nat /\ cap \in Nat \ {0} /\ Start \in Nat /\ ReaderOK
      /\ lines \in Nat /\ begin \in Nat /\ place \in Nat /\ place \in 0 .. Len(file)
      /\ begin <= place /\ opened /\ lines < Start /\ SkipChunk \in Nat \ {0}
  BY InvFacts, ReadFileAssumption DEF Skip
<1>2. PICK e \in place .. Len(file) : LineRead(file, place, SkipChunk, e)
  BY <1>1, ReadLineIs
<1>3. /\ Len(part) = e - place /\ (part = <<>> <=> e = place) /\ OneLine(file, place, e)
      /\ EndsWith(part, "newline") <=> place < e /\ file[e] = "newline"
  BY <1>2 DEF LineRead
<1>4. ~torn => Skipping
  BY <1>1 DEF ReaderOK
<1>5. /\ file' = file /\ cap' = cap /\ torn' = torn
      /\ UNCHANGED client => offset' = offset /\ Start' = Start
  BY DEF args, client, Start
<1>6. \/ part = <<>> /\ ~seen /\ Returns(Page(0, 0, "none"))
      \/ (IF part = <<>> THEN seen ELSE EndsWith(part, "newline")) /\ Skipped(part)
      \/ /\ part # <<>> /\ ~EndsWith(part, "newline")
         /\ seen' = TRUE /\ place' = place + Len(part)
         /\ UNCHANGED <<opened, lines, begin, client>>
  BY DEF Skip
<1> HIDE DEF part
<1>7. CASE part = <<>> /\ ~seen /\ Returns(Page(0, 0, "none"))
  <2>1. ~torn => Right(Page(0, 0, "none"))
    <3>1. place = Len(file)
      BY <1>1, <1>3, <1>7 DEF OneLine
    <3> QED
      BY <1>1, <1>4, <1>7, <3>1, NothingThere
  <2>2. PageAny(Page(0, 0, "none"))
    <3>1. 0 \in 0 .. cap /\ begin + 0 <= Len(file) /\ 0 \in Nat
      BY <1>1
    <3> QED
      BY <3>1, AnyPage
  <2> QED
    BY <1>7, <2>1, <2>2 DEF Turns
<1>8. CASE (IF part = <<>> THEN seen ELSE EndsWith(part, "newline")) /\ Skipped(part)
  <2>1. /\ lines' = lines + 1 /\ ~seen' /\ place' = e /\ begin' = e /\ opened' = opened
        /\ UNCHANGED client /\ seen' = FALSE
    BY <1>1, <1>3, <1>8 DEF Skipped
  <2>2. e \in Nat /\ e <= Len(file) /\ lines + 1 <= Start /\ e - e = 0
    BY <1>1
  <2>3. ReaderType'
    <3>1. torn \in BOOLEAN /\ opened \in BOOLEAN
      BY <1>1 DEF ReaderOK, ReaderType
    <3>2. lines' \in Nat /\ begin' \in Nat /\ place' \in Nat /\ begin' <= place' /\ place' <= Len(file')
      BY <1>1, <1>5, <2>1, <2>2
    <3>3. lines' >= Start' => place' - begin' <= cap' /\ (lines' = Start' <=> place' = begin')
      BY <1>1, <1>5, <2>1, <2>2
    <3> QED
      BY <1>1, <1>5, <2>1, <3>1, <3>2, <3>3 DEF ReaderType
  <2>4. ASSUME ~torn PROVE Passed(file, e, lines + 1)
    <3>1. IF e = place THEN seen ELSE file[e] = "newline"
      BY <1>3, <1>8
    <3> QED
      BY <1>1, <1>3, <1>4, <2>4, <3>1, LineSkipped
  <2>5. ASSUME ~torn, lines' < Start' PROVE Skipping'
    BY <1>5, <2>1, <2>4, <2>5 DEF Skipping
  <2>6. ASSUME ~torn, lines' >= Start' PROVE Taking'
    <3>1. lines + 1 = Start /\ Passed(file, e, Start)
      BY <1>1, <1>5, <2>1, <2>2, <2>4, <2>6
    <3>2. Taken(file, Start, e, cap, 0, 0)
      <4>1. e + 0 = e /\ Start + 0 = Start /\ 0 \in 0 .. cap /\ \A q \in e + 1 .. e + 0 : FALSE
        BY <1>1, <2>2
      <4> QED
        BY <1>1, <2>2, <3>1, <4>1 DEF Taken, Passed
    <3>3. lines' - Start' = 0 /\ place' - begin' = 0
      BY <1>1, <1>5, <2>1, <2>2, <3>1
    <3> QED
      BY <1>5, <2>1, <3>1, <3>2, <3>3 DEF Taking
  <2> QED
    BY <1>5, <2>1, <2>3, <2>5, <2>6 DEF ReaderOK
<1>9. CASE /\ part # <<>> /\ ~EndsWith(part, "newline")
           /\ seen' = TRUE /\ place' = place + Len(part)
           /\ UNCHANGED <<opened, lines, begin, client>>
  <2>1. /\ place' = e /\ seen' = TRUE /\ place < e /\ file[e] # "newline" /\ e \in Nat /\ e <= Len(file)
        /\ UNCHANGED <<opened, lines, begin, client>>
    BY <1>1, <1>3, <1>9
  <2>2. ReaderType'
    <3>1. torn \in BOOLEAN /\ opened \in BOOLEAN
      BY <1>1 DEF ReaderOK, ReaderType
    <3>2. begin' <= place' /\ place' <= Len(file') /\ ~(lines' >= Start')
      BY <1>1, <1>5, <2>1
    <3> QED
      BY <1>1, <1>5, <2>1, <3>1, <3>2 DEF ReaderType
  <2>3. ASSUME ~torn PROVE Skipping'
    <3>1. Passed(file, begin, lines) /\ begin < e
      BY <1>1, <1>4, <2>1, <2>3 DEF Skipping
    <3>2. OneLine(file, begin, e)
      <4>1. CASE seen
        BY <1>1, <1>3, <1>4, <2>3, <4>1, LineGoesOn DEF Skipping
      <4>2. CASE ~seen
        BY <1>3, <1>4, <2>3, <4>2 DEF Skipping
      <4> QED
        BY <4>1, <4>2
    <3> QED
      BY <1>5, <2>1, <3>1, <3>2 DEF Skipping
  <2>4. ~(lines' >= Start')
    BY <1>1, <1>5, <2>1
  <2> QED
    BY <1>5, <2>1, <2>2, <2>3, <2>4 DEF ReaderOK
<1> QED
  BY <1>6, <1>7, <1>8, <1>9

LEMMA Takes ==
  ASSUME PagesInv, Take, UNCHANGED <<file, args, torn>>
  PROVE  Turns \/ (UNCHANGED client /\ opened' = opened /\ ReaderOK')
<1> DEFINE full == lines - Start
           size == place - begin
           k == cap - size + 1
           line == ReadLine(file, place, k)
<1>1. /\ file \in Seq(Bytes) /\ Len(file) \in Nat /\ cap \in Nat \ {0} /\ Start \in Nat /\ ReaderOK
      /\ limit \in (Nat \ {0}) \cup {NoLimit}
      /\ lines \in Nat /\ begin \in Nat /\ place \in Nat /\ place \in 0 .. Len(file)
      /\ begin <= place /\ place <= Len(file) /\ opened /\ lines >= Start
      /\ place - begin <= cap /\ (lines = Start <=> place = begin)
  BY InvFacts DEF Take
<1>2. /\ full \in Nat /\ size \in Nat /\ size <= cap /\ k \in Nat \ {0}
      /\ full = 0 <=> size = 0
      /\ begin + size = place /\ Start + full = lines /\ k = (cap - size) + 1
  BY <1>1
<1>3. PICK e \in place .. Len(file) : LineRead(file, place, k, e)
  BY <1>1, <1>2, ReadLineIs
<1>4. /\ Len(line) = e - place /\ (line = <<>> <=> e = place) /\ OneLine(file, place, e)
      /\ e <= place + k /\ (e = Len(file) \/ file[e] = "newline" \/ e = place + k)
      /\ e \in Nat /\ place <= e /\ e <= Len(file)
  BY <1>1, <1>3 DEF LineRead
<1>5. ~torn => /\ ~seen /\ Boundary(file, begin, Start) /\ Passed(file, begin, Start)
               /\ Taken(file, Start, begin, cap, full, size)
  BY <1>1 DEF ReaderOK, Taking, Passed
<1>6. /\ file' = file /\ cap' = cap /\ torn' = torn
      /\ UNCHANGED client => offset' = offset /\ Start' = Start
  BY DEF args, client, Start
<1>7. \/ line = <<>> /\ Returns(Page(size, full, "none"))
      \/ /\ line # <<>> /\ Len(line) <= cap - size /\ full + 1 # limit
         /\ lines' = lines + 1 /\ place' = place + Len(line)
         /\ UNCHANGED <<opened, begin, seen, client>>
      \/ /\ line # <<>> /\ Len(line) <= cap - size /\ full + 1 = limit
         /\ Returns(Page(size + Len(line), limit, "none"))
      \/ ~(Len(line) <= cap - size) /\ full = 0 /\ Returns(Page(cap, 0, "partial"))
      \/ ~(Len(line) <= cap - size) /\ full # 0 /\ Returns(Page(size, full, "line"))
  BY DEF Take
<1> HIDE DEF full, size, k, line
<1>8. CASE line = <<>> /\ Returns(Page(size, full, "none"))
  <2>1. size \in 0 .. cap /\ begin + size <= Len(file) /\ begin + size = Len(file)
    BY <1>1, <1>2, <1>4, <1>8 DEF OneLine
  <2>2. PageAny(Page(size, full, "none"))
    BY <1>2, <2>1, AnyPage
  <2>3. ~torn => Right(Page(size, full, "none"))
    BY <1>5, <2>1, RightPage
  <2> QED
    BY <1>8, <2>2, <2>3 DEF Turns
<1>9. ASSUME line # <<>>, Len(line) <= cap - size
      PROVE  /\ place < e /\ e - begin \in 0 .. cap /\ begin + (e - begin) = e
             /\ size + Len(line) = e - begin
             /\ ~torn => Taken(file, Start, begin, cap, full + 1, e - begin)
  <2>1. place < e /\ e - begin \in 0 .. cap /\ begin + (e - begin) = e /\ size + Len(line) = e - begin
    BY <1>1, <1>2, <1>4, <1>9
  <2>2. Ends(file, begin + size, e)
    <3>1. e # place + k
      BY <1>1, <1>2, <1>4, <1>9
    <3> QED
      BY <1>2, <1>4, <3>1 DEF Ends
  <2>3. ASSUME ~torn PROVE Taken(file, Start, begin, cap, full + 1, e - begin)
    <3>1. begin + size < e /\ e - begin <= cap
      BY <1>1, <1>2, <2>1
    <3> QED
      BY <1>1, <1>5, <2>2, <2>3, <3>1, TakenNext
  <2> QED
    BY <2>1, <2>3
<1>10. CASE /\ line # <<>> /\ Len(line) <= cap - size /\ full + 1 # limit
            /\ lines' = lines + 1 /\ place' = place + Len(line)
            /\ UNCHANGED <<opened, begin, seen, client>>
  <2>1. /\ lines' = lines + 1 /\ place' = e /\ begin' = begin /\ opened' = opened /\ seen' = seen
        /\ UNCHANGED client /\ Start' = Start
    BY <1>1, <1>4, <1>6, <1>10
  <2>2. /\ lines' - Start' = full + 1 /\ place' - begin' = e - begin
        /\ place < e /\ e - begin \in 0 .. cap /\ lines' >= Start'
    BY <1>1, <1>2, <1>9, <1>10, <2>1
  <2>3. ReaderType'
    <3>1. torn \in BOOLEAN /\ opened \in BOOLEAN /\ seen \in BOOLEAN
      BY <1>1 DEF ReaderOK, ReaderType
    <3>2. begin' <= place' /\ place' <= Len(file') /\ lines' \in Nat /\ begin' \in Nat /\ place' \in Nat
      BY <1>1, <1>4, <1>6, <2>1, <2>2
    <3>3. place' - begin' <= cap' /\ (lines' = Start' <=> place' = begin')
      BY <1>1, <1>2, <1>6, <2>1, <2>2
    <3> QED
      BY <1>1, <1>6, <2>1, <3>1, <3>2, <3>3 DEF ReaderType
  <2>4. ASSUME ~torn PROVE Taking'
    <3>1. Taken(file, Start, begin, cap, full + 1, e - begin)
      BY <1>9, <1>10, <2>4
    <3> QED
      BY <1>5, <1>6, <2>1, <2>2, <2>4, <3>1 DEF Taking
  <2>5. ~(lines' < Start')
    BY <1>1, <2>1
  <2> QED
    BY <1>6, <2>1, <2>3, <2>4, <2>5 DEF ReaderOK
<1>11. CASE /\ line # <<>> /\ Len(line) <= cap - size /\ full + 1 = limit
            /\ Returns(Page(size + Len(line), limit, "none"))
  <2> DEFINE n == e - begin
  <2>1. /\ n \in 0 .. cap /\ begin + n = e /\ size + Len(line) = n
        /\ ~torn => Taken(file, Start, begin, cap, limit, n)
    BY <1>9, <1>11
  <2> HIDE DEF n
  <2>2. begin + n <= Len(file) /\ limit \in Nat
    BY <1>2, <1>4, <1>11, <2>1
  <2>3. PageAny(Page(n, limit, "none"))
    BY <2>1, <2>2, AnyPage
  <2>4. ~torn => Right(Page(n, limit, "none"))
    BY <1>5, <2>1, <2>2, RightPage
  <2> QED
    BY <1>11, <2>1, <2>3, <2>4 DEF Turns
<1>12. CASE ~(Len(line) <= cap - size) /\ full = 0 /\ Returns(Page(cap, 0, "partial"))
  <2>1. size = 0 /\ place = begin /\ e = begin + cap + 1
    BY <1>1, <1>2, <1>4, <1>12
  <2>2. cap \in 0 .. cap /\ begin + cap <= Len(file) /\ begin + cap < Len(file) /\ 0 \in Nat
    BY <1>1, <1>4, <2>1
  <2>3. \A q \in begin + 1 .. begin + cap : file[q] # "newline"
    <3>1. \A q \in begin + 1 .. begin + cap : q \in place + 1 .. e - 1
      BY <1>1, <2>1
    <3> QED
      BY <1>4, <3>1 DEF OneLine
  <2>4. PageAny(Page(cap, 0, "partial"))
    BY <2>2, AnyPage
  <2>5. ~torn => Right(Page(cap, 0, "partial"))
    BY <1>5, <2>2, <2>3, RightPage
  <2> QED
    BY <1>12, <2>4, <2>5 DEF Turns
<1>13. CASE ~(Len(line) <= cap - size) /\ full # 0 /\ Returns(Page(size, full, "line"))
  <2>1. size \in 0 .. cap /\ begin + size <= Len(file) /\ begin + size < Len(file)
    BY <1>1, <1>2, <1>4, <1>13
  <2>2. PageAny(Page(size, full, "line"))
    BY <1>2, <1>13, <2>1, AnyPage
  <2>3. ~torn => Right(Page(size, full, "line"))
    BY <1>5, <1>13, <2>1, RightPage
  <2> QED
    BY <1>13, <2>2, <2>3 DEF Turns
<1> QED
  BY <1>7, <1>8, <1>10, <1>11, <1>12, <1>13


(* A step that leaves the call in progress alone, and one that ends it.       *)
LEMMA ReaderSame ==
  ASSUME PagesInv, UNCHANGED <<file, args, offset, reader, torn>>
  PROVE  ReaderOK'
<1>1. /\ file' = file /\ cap' = cap /\ torn' = torn /\ offset' = offset
      /\ opened' = opened /\ seen' = seen /\ lines' = lines /\ begin' = begin /\ place' = place
  BY DEF args, reader
<1>2. Start' = Start
  BY <1>1 DEF Start
<1>3. ReaderOK /\ ReaderType
  BY DEF PagesInv, ReaderOK
<1>4. ReaderType'
  BY <1>1, <1>2, <1>3 DEF ReaderType
<1>5. (Skipping' <=> Skipping) /\ (Taking' <=> Taking)
  BY <1>1, <1>2 DEF Skipping, Taking
<1> QED
  BY <1>1, <1>2, <1>3, <1>4, <1>5 DEF ReaderOK

LEMMA ReaderEnds ==
  ASSUME PagesInv, Closed, UNCHANGED <<file, args, torn>>, offset' \in Nat
  PROVE  ReaderOK'
<1>1. /\ opened' = FALSE /\ seen' = FALSE /\ lines' = 0 /\ begin' = 0 /\ place' = 0
      /\ file' = file /\ cap' = cap /\ torn' = torn
  BY DEF Closed, args
<1>2. Len(file) \in Nat /\ cap \in Nat /\ torn \in BOOLEAN
  BY InvFacts DEF ReaderOK, ReaderType
<1>3. Start' \in Nat
  <2> DEFINE o == offset'
  <2>1. o \in Nat
    OBVIOUS
  <2>2. Start' = IF o = 0 THEN 0 ELSE o - 1
    BY DEF Start
  <2> HIDE DEF o
  <2> QED
    BY <2>1, <2>2
<1>4. lines' >= Start' => place' - begin' <= cap' /\ (lines' = Start' <=> place' = begin')
  BY <1>1, <1>2, <1>3
<1>5. ReaderType'
  <2>1. opened' \in BOOLEAN /\ seen' \in BOOLEAN /\ torn' \in BOOLEAN /\ ~seen'
    BY <1>1, <1>2
  <2>2. /\ lines' \in Nat /\ begin' \in Nat /\ place' \in Nat
        /\ begin' <= place' /\ place' <= Len(file')
    BY <1>1, <1>2
  <2> QED
    BY <1>1, <1>4, <2>1, <2>2 DEF ReaderType
<1> QED
  BY <1>1, <1>5 DEF ReaderOK

LEMMA ReaderBegins ==
  ASSUME PagesInv, ~opened, Open, UNCHANGED <<file, args, torn>>
  PROVE  ReaderOK'
<1>1. /\ file \in Seq(Bytes) /\ Len(file) \in Nat /\ cap \in Nat \ {0} /\ Start \in Nat
      /\ torn \in BOOLEAN /\ lines = 0 /\ begin = 0 /\ place = 0 /\ seen = FALSE
  BY InvFacts DEF ReaderOK, ReaderType
<1>2. /\ opened' = TRUE /\ lines' = 0 /\ begin' = 0 /\ place' = 0 /\ seen' = FALSE
      /\ file' = file /\ cap' = cap /\ torn' = torn /\ offset' = offset
  BY <1>1 DEF Open, args, client
<1>3. Start' = Start
  BY <1>2 DEF Start
<1>4. ReaderType'
  <2>1. lines' >= Start' => place' - begin' <= cap' /\ (lines' = Start' <=> place' = begin')
    BY <1>1, <1>2, <1>3
  <2>2. opened' \in BOOLEAN /\ seen' \in BOOLEAN /\ torn' \in BOOLEAN /\ opened'
    BY <1>1, <1>2
  <2>3. /\ lines' \in Nat /\ begin' \in Nat /\ place' \in Nat
        /\ begin' <= place' /\ place' <= Len(file')
    BY <1>1, <1>2
  <2> QED
    BY <2>1, <2>2, <2>3 DEF ReaderType
<1>5. Passed(file, 0, 0)
  BY <1>1, FirstBoundary DEF Passed
<1>6. Skipping'
  BY <1>2, <1>5 DEF Skipping
<1>7. ASSUME lines' >= Start' PROVE Taking'
  <2>1. Start = 0 /\ lines' - Start' = 0 /\ place' - begin' = 0
    BY <1>1, <1>2, <1>3, <1>7
  <2>2. Taken(file, 0, 0, cap, 0, 0)
    <3>1. 0 + 0 = 0 /\ 0 \in 0 .. cap /\ 0 <= Len(file) /\ \A q \in 0 + 1 .. 0 + 0 : FALSE
      BY <1>1
    <3> QED
      BY <1>5, <3>1 DEF Taken, Passed
  <2> QED
    BY <1>2, <1>3, <1>5, <2>1, <2>2 DEF Taking
<1> QED
  BY <1>4, <1>6, <1>7 DEF ReaderOK

(* What the pages were and this one are the file up to the next one's start,  *)
(* or all of it.                                                              *)
Reaches(content, n) == got \o content = ShownUpTo(file, n) /\ Settled(file, n)

PageRead(page, content) ==
    /\ PageAny(page) /\ (~torn => Right(page))
    /\ content = IF page.cut = "partial" THEN Whole(page.data) ELSE page.data
    /\ page.cut = "partial" => Undecodable(page.data, FALSE) = {}
    /\ page.cut # "partial" => Undecodable(page.data, TRUE) = {}

Adds(page, content) ==
    \/ /\ page.cut = "none" /\ page.full = limit /\ EndsWith(content, "newline")
       /\ limit \in Nat \ {0} /\ Reaches(content, Start + limit)
    \/ /\ page.cut = "none" /\ ~(page.full = limit /\ EndsWith(content, "newline"))
       /\ got \o content = ShownUpTo(file, Len(file))
    \/ /\ page.cut = "line" /\ page.full \in Nat \ {0} /\ Reaches(content, Start + page.full)
    \/ page.cut = "partial" /\ page.full = 0 /\ Reaches(content, Start + 1)

(* A page is text, and within the cap.                                        *)
LEMMA PageText ==
  ASSUME PagesInv, NEW page, NEW content, PageRead(page, content)
  PROVE  Text(content, TRUE) /\ Len(content) \in Nat /\ Len(content) <= cap
<1>1. /\ file \in Seq(Bytes) /\ Len(file) \in Nat /\ cap \in Nat /\ begin \in Nat
  BY InvFacts
<1> DEFINE data == page.data
<1>2. PICK n \in 0 .. cap : begin + n <= Len(file) /\ data = SubSeq(file, begin + 1, begin + n)
  BY DEF PageRead, PageAny
<1> DEFINE d == SubSeq(file, begin + 1, begin + n)
<1>3. n \in Nat /\ n <= cap
  BY <1>1
<1>4. d \in Seq(Bytes) /\ Len(d) = n
  BY <1>1, <1>2, <1>3, Stretch
<1> HIDE DEF d
<1>5. data \in Seq(Bytes) /\ Len(data) = n
  BY <1>2, <1>4 DEF d
<1>6. CASE page.cut # "partial"
  <2>1. content = data /\ Text(content, TRUE)
    BY <1>5, <1>6 DEF PageRead, Text
  <2> QED
    BY <1>3, <1>5, <2>1
<1>7. CASE page.cut = "partial"
  <2>1. content = Whole(data) /\ Text(data, FALSE)
    BY <1>5, <1>7 DEF PageRead, Text
  <2> HIDE DEF data
  <2>2. Text(content, TRUE)
    BY <2>1, WholeIsText
  <2>3. PICK j \in 0 .. Len(data) : Whole(data) = SubSeq(data, 1, j)
    BY <1>5, WholeIs
  <2>4. Len(SubSeq(data, 1, j)) = j
    BY <1>5, Beginning
  <2>5. Len(content) = j
    BY <2>1, <2>3, <2>4
  <2>6. j \in Nat /\ j <= cap
    BY <1>1, <1>3, <1>5
  <2> QED
    BY <2>2, <2>5, <2>6
<1> QED
  BY <1>6, <1>7

(* If no line was torn, it is the right text.                                 *)
LEMMA PageAdds ==
  ASSUME PagesInv, phase = "reading", ~torn, NEW page, NEW content, PageRead(page, content)
  PROVE  Adds(page, content)
<1> DEFINE start == Start
           from == begin
           full == page.full
           data == page.data
           cut == page.cut
<1>1. /\ file \in Seq(Bytes) /\ cap \in Nat \ {0} /\ limit \in (Nat \ {0}) \cup {NoLimit}
      /\ start \in Nat /\ first \in Nat /\ first <= start + 1
      /\ got = ShownUpTo(file, start) /\ got \in Seq(Bytes) /\ Len(file) \in Nat
  BY LenProperties DEF PagesInv, FileOK, Following, Start, Text
<1> HIDE DEF start
<1>2. Boundary(file, from, start) /\ from \in Nat
  BY InvFacts DEF PageRead, Right, start, from
<1>3. PageIs(file, start, limit, cap, from, page)
  BY DEF PageRead, Right, start, from
<1> HIDE DEF from, data, full, cut
<1>4. Whereabouts(file, from, start)
  BY <1>1, <1>2 DEF Whereabouts
<1>5. PICK n \in 0 .. cap :
         /\ from + n <= Len(file) /\ data = SubSeq(file, from + 1, from + n)
         /\ \/ /\ cut = "none" /\ Taken(file, start, from, cap, full, n)
               /\ full = limit \/ from + n = Len(file)
            \/ /\ cut = "line" /\ Taken(file, start, from, cap, full, n)
               /\ full # 0 /\ from + n < Len(file)
            \/ /\ cut = "partial" /\ full = 0 /\ n = cap /\ from + n < Len(file)
               /\ \A q \in from + 1 .. from + n : file[q] # "newline"
  BY <1>3 DEF PageIs, data, full, cut
<1>6. /\ n \in Nat /\ n <= cap
      /\ data \in Seq(Bytes) /\ Len(data) = n /\ (n # 0 => data[n] = file[from + n])
  <2> DEFINE d == SubSeq(file, from + 1, from + n)
  <2>1. n \in Nat /\ n <= cap
    BY <1>1
  <2>2. d \in Seq(Bytes) /\ Len(d) = n /\ \A i \in 1 .. n : d[i] = file[from + i]
    BY <1>1, <1>2, <1>5, <2>1, Stretch
  <2> HIDE DEF d
  <2>3. n # 0 => d[n] = file[from + n]
    BY <2>1, <2>2
  <2> QED
    BY <1>5, <2>1, <2>2, <2>3 DEF d
<1>7. EndsWith(data, "newline") <=> n # 0 /\ file[from + n] = "newline"
  BY <1>6, EmptySeq DEF EndsWith
<1>8. CASE cut # "partial"
  <2>1. content = data
    BY <1>8 DEF PageRead, data, cut
  <2>2. Taken(file, start, from, cap, full, n)
    BY <1>5, <1>8
  <2>3. got \o content = ShownUpTo(file, start + full)
    <3>1. ShownUpTo(file, start + full) = ShownUpTo(file, start) \o SubSeq(file, from + 1, from + n)
      BY <1>4, <2>2, LinesShown
    <3> QED
      BY <1>1, <1>5, <2>1, <3>1
  <2>4. full \in Nat /\ (full = 0 <=> n = 0)
    BY <2>2 DEF Taken
  <2>6. CASE cut = "line"
    <3>1. from + n < Len(file) /\ full # 0
      BY <1>5, <2>6
    <3>2. Settled(file, start + full)
      BY <1>4, <2>2, <3>1, LinesSettled
    <3>3. Reaches(content, Start + page.full) /\ page.full \in Nat \ {0} /\ page.cut = "line"
      BY <2>3, <2>4, <2>6, <3>1, <3>2 DEF Reaches, start, full, cut
    <3> QED
      BY <3>3 DEF Adds
  <2>7. CASE cut = "none"
    <3>1. CASE full = limit /\ EndsWith(content, "newline")
      <4>1. n # 0 /\ file[from + n] = "newline"
        BY <1>7, <2>1, <3>1
      <4>2. Settled(file, start + full)
        BY <1>4, <2>2, <4>1, LinesSettled
      <4>3. limit \in Nat \ {0}
        BY <2>4, <3>1, <4>1
      <4>4. Reaches(content, Start + limit) /\ page.full = limit /\ page.cut = "none"
        BY <2>3, <2>7, <3>1, <4>2 DEF Reaches, start, full, cut
      <4> QED
        BY <3>1, <4>3, <4>4 DEF Adds
    <3>2. CASE ~(full = limit /\ EndsWith(content, "newline"))
      <4>1. full = limit => limit # 0
        BY <1>1, <2>4, ReadFileAssumption
      <4>2. full = limit \/ from + n = Len(file)
        BY <1>5, <2>7
      <4>3. from + n = Len(file) \/ (n # 0 /\ file[from + n] # "newline")
        BY <1>7, <2>1, <2>4, <3>2, <4>1, <4>2
      <4>4. ShownUpTo(file, start + full) = ShownUpTo(file, Len(file))
        BY <1>2, <1>4, <1>6, <2>2, <4>3, AllShown
      <4>5. got \o content = ShownUpTo(file, Len(file))
        BY <2>3, <4>4
      <4> QED
        BY <2>7, <3>2, <4>5 DEF Adds, full, cut
    <3> QED
      BY <3>1, <3>2
  <2> QED
    BY <1>5, <1>8, <2>6, <2>7
<1>9. CASE cut = "partial"
  <2>1. content = Whole(data)
    BY <1>9 DEF PageRead, data, cut
  <2>3. full = 0 /\ n = cap /\ from + n < Len(file) /\ \A q \in from + 1 .. from + n : file[q] # "newline"
    BY <1>5, <1>9
  <2>4. /\ ShownUpTo(file, start + 1) = ShownUpTo(file, start) \o Whole(SubSeq(file, from + 1, from + cap))
        /\ Settled(file, start + 1)
    BY <1>4, <2>3, PartialShown
  <2>5. Reaches(content, start + 1)
    BY <1>1, <1>5, <2>1, <2>3, <2>4 DEF Reaches
  <2> QED
    BY <1>9, <2>3, <2>5 DEF Adds, start, full, cut
<1> QED
  BY <1>8, <1>9

LEMMA PagesInit == Init => PagesInv
<1> SUFFICES ASSUME Init PROVE PagesInv
  OBVIOUS
<1>1. /\ FileOK /\ cap \in Nat \ {0} /\ limit \in (Nat \ {0}) \cup {NoLimit} /\ first \in Nat
      /\ offset = first /\ got = <<>> /\ phase = "reading"
  BY FileInit, ReadFileAssumption DEF Init
<1>2. Text(got, TRUE)
  <2>1. <<>> \in Seq(Bytes) /\ \A i \in 1 .. Len(<<>>) : FALSE
    BY EmptySeq
  <2>2. Text(<<>>, TRUE)
    BY <2>1, TextIs
  <2> QED
    BY <1>1, <2>2
<1>3. Following
  <2>1. file \in Seq(Bytes) /\ Start \in Nat /\ (first > Start \/ Start = 0)
    BY <1>1 DEF FileOK, Start
  <2>2. \A q \in 1 .. Len(file) : q \notin Places(file, Start)
    BY <1>1, <2>1, PlaceIs
  <2>3. ShownUpTo(file, Start) = <<>>
    BY <2>1, <2>2, BytesAtNone DEF ShownUpTo, Places
  <2>4. LineOf(file, Len(file) + 1) \in Nat \ {0}
    <3>1. Len(file) + 1 \in Nat
      BY <2>1, LenProperties
    <3> QED
      BY <3>1, NewlinesFinite
  <2>5. Settled(file, Start)
    BY <2>1, <2>4 DEF Settled
  <2> QED
    BY <1>1, <2>3, <2>5 DEF Following
<1>4. offset \in Nat /\ first <= offset /\ phase # "done"
  BY <1>1
<1>5. ReaderOK
  <2>1. /\ opened = FALSE /\ seen = FALSE /\ torn = FALSE /\ lines = 0 /\ begin = 0 /\ place = 0
        /\ Len(file) \in Nat /\ Start \in Nat
    BY <1>1, LenProperties DEF Init, FileOK, Start
  <2>2. lines >= Start => place - begin <= cap /\ (lines = Start <=> place = begin)
    BY <1>1, <2>1
  <2>3. opened \in BOOLEAN /\ seen \in BOOLEAN /\ torn \in BOOLEAN /\ ~opened /\ ~seen
    BY <2>1
  <2>4. lines \in Nat /\ begin \in Nat /\ place \in Nat /\ begin <= place /\ place <= Len(file)
    BY <2>1
  <2> QED
    BY <2>1, <2>2, <2>3, <2>4 DEF ReaderOK, ReaderType
<1> QED
  BY <1>1, <1>2, <1>3, <1>4, <1>5 DEF PagesInv

(* One page.                                                                  *)
LEMMA ReadIs ==
  ASSUME NEW page, PageAny(page), ~torn => Right(page), Read(page)
  PROVE  \E content :
            /\ PageRead(page, content) /\ got' = got \o content /\ Closed
            /\ LET body == Bodies(content, <<>>, BodyMax) IN
               row' = [status |-> "SUCCESS", out |-> body.out, err |-> body.err, truncated |-> body.truncated]
            /\ \/ /\ page.cut # "none" /\ offset' = NextOffset(Start, page) /\ phase' = phase
               \/ /\ page.cut = "none" /\ page.full = limit /\ EndsWith(content, "newline")
                  /\ offset' = Start + 1 + limit /\ phase' = phase
               \/ /\ page.cut = "none" /\ ~(page.full = limit /\ EndsWith(content, "newline"))
                  /\ phase' = "done" /\ offset' = offset
<1> DEFINE content == IF page.cut = "partial" THEN Whole(page.data) ELSE page.data
<1>1. PageRead(page, content)
  <2>1. Undecodable(page.data, page.cut # "partial") = {}
    BY DEF Read
  <2>2. CASE page.cut = "partial"
    BY <2>1, <2>2 DEF PageRead, Undecodable
  <2>3. CASE page.cut # "partial"
    BY <2>1, <2>3 DEF PageRead, Undecodable
  <2> QED
    BY <2>2, <2>3
<1> DEFINE body == Bodies(content, <<>>, BodyMax)
<1>2. /\ got' = got \o content /\ Closed
      /\ row' = [status |-> "SUCCESS", out |-> body.out, err |-> body.err, truncated |-> body.truncated]
      /\ \/ /\ page.cut # "none" /\ offset' = NextOffset(Start, page) /\ phase' = phase
         \/ /\ page.cut = "none" /\ page.full = limit /\ EndsWith(content, "newline")
            /\ offset' = Start + 1 + limit /\ phase' = phase
         \/ /\ page.cut = "none" /\ ~(page.full = limit /\ EndsWith(content, "newline"))
            /\ phase' = "done" /\ offset' = offset
  BY DEF Read
<1> HIDE DEF content
<1> QED
  BY <1>1, <1>2

(* The offset that the client goes on with.                                   *)
LEMMA GoesOn ==
  ASSUME PagesInv, phase = "reading", UNCHANGED <<file, args, torn>>,
         NEW page, PageAny(page), ~torn => Right(page), Read(page)
  PROVE  /\ PagesInv'
         /\ phase' = "reading" => offset' > offset
         /\ \E content :
               /\ Text(content, TRUE) /\ Len(content) \in Nat /\ Len(content) <= cap
               /\ got' = got \o content
               /\ LET body == Bodies(content, <<>>, BodyMax) IN
                  row' = [status |-> "SUCCESS", out |-> body.out, err |-> body.err,
                          truncated |-> body.truncated]
<1>1. PICK content :
         /\ PageRead(page, content) /\ got' = got \o content /\ Closed
         /\ LET body == Bodies(content, <<>>, BodyMax) IN
            row' = [status |-> "SUCCESS", out |-> body.out, err |-> body.err, truncated |-> body.truncated]
         /\ \/ /\ page.cut # "none" /\ offset' = NextOffset(Start, page) /\ phase' = phase
            \/ /\ page.cut = "none" /\ page.full = limit /\ EndsWith(content, "newline")
               /\ offset' = Start + 1 + limit /\ phase' = phase
            \/ /\ page.cut = "none" /\ ~(page.full = limit /\ EndsWith(content, "newline"))
               /\ phase' = "done" /\ offset' = offset
  BY ReadIs
<1>2. /\ Text(content, TRUE) /\ Len(content) \in Nat /\ Len(content) <= cap
      /\ ~torn => Adds(page, content)
  BY <1>1, PageText, PageAdds
<1>3. /\ FileOK /\ file' = file /\ cap' = cap /\ limit' = limit /\ first' = first /\ torn' = torn
      /\ cap \in Nat \ {0} /\ limit \in (Nat \ {0}) \cup {NoLimit} /\ first \in Nat
      /\ offset \in Nat /\ first <= offset /\ Text(got, TRUE)
      /\ Start \in Nat /\ offset <= Start + 1
  BY InvFacts DEF PagesInv, args
<1>4. Text(got', TRUE)
  BY <1>1, <1>2, <1>3, TextJoined
<1>5. ASSUME NEW n \in Nat, ~torn => Reaches(content, n), offset' = n + 1, offset' > offset, phase' = phase
      PROVE  PagesInv' /\ (phase' = "reading" => offset' > offset)
  <2>1. Start' = n
    BY <1>5 DEF Start
  <2>2. ShownUpTo(file, Start)' = ShownUpTo(file, n)
    BY <1>3, <2>1 DEF ShownUpTo, Reachable
  <2>3. ~torn => Settled(file, Start)'
    BY <1>3, <1>5, <2>1 DEF Reaches, Settled
  <2>4. ~torn => Following'
    BY <1>1, <1>5, <2>2, <2>3 DEF Following, Reaches
  <2>5. offset' \in Nat /\ first' <= offset'
    BY <1>3, <1>5
  <2>6. ReaderOK'
    BY <1>1, <2>5, ReaderEnds
  <2>7. phase' # "done" /\ FileOK' /\ Text(got, TRUE)'
    BY <1>3, <1>4, <1>5 DEF FileOK, Text
  <2>8. /\ cap' \in Nat \ {0} /\ limit' \in (Nat \ {0}) \cup {NoLimit} /\ first' \in Nat
        /\ ~torn' => ~torn
    BY <1>3
  <2> QED
    BY <1>5, <2>4, <2>5, <2>6, <2>7, <2>8 DEF PagesInv
<1>6. CASE page.cut = "none" /\ page.full = limit /\ EndsWith(content, "newline")
  <2>1. limit \in Nat \ {0}
    BY <1>1, <1>3, <1>6, ReadFileAssumption DEF PageRead, PageAny
  <2>2. ~torn => Reaches(content, Start + limit)
    BY <1>2, <1>6 DEF Adds
  <2> DEFINE n == Start + limit
  <2>3. n \in Nat /\ offset' = n + 1 /\ offset' > offset /\ phase' = phase
    BY <1>1, <1>3, <1>6, <2>1
  <2>4. ~torn => Reaches(content, n)
    BY <2>2
  <2> HIDE DEF n
  <2>5. PagesInv' /\ (phase' = "reading" => offset' > offset)
    BY <1>5, <2>3, <2>4
  <2> QED
    BY <1>1, <1>2, <2>5
<1>7. CASE page.cut = "line"
  <2>1. page.full \in Nat \ {0}
    BY <1>1, <1>7 DEF PageRead, PageAny
  <2>2. ~torn => Reaches(content, Start + page.full)
    BY <1>2, <1>7 DEF Adds
  <2> DEFINE n == Start + page.full
  <2>3. n \in Nat /\ offset' = n + 1 /\ offset' > offset /\ phase' = phase
    <3>1. offset' = NextOffset(Start, page) /\ phase' = phase
      BY <1>1, <1>7
    <3>2. NextOffset(Start, page) = Start + page.full + 1
      BY <1>7 DEF NextOffset
    <3> QED
      BY <1>3, <2>1, <3>1, <3>2
  <2>4. ~torn => Reaches(content, n)
    BY <2>2
  <2> HIDE DEF n
  <2>5. PagesInv' /\ (phase' = "reading" => offset' > offset)
    BY <1>5, <2>3, <2>4
  <2> QED
    BY <1>1, <1>2, <2>5
<1>8. CASE page.cut = "partial"
  <2>1. page.full = 0
    BY <1>1, <1>8 DEF PageRead, PageAny
  <2>2. ~torn => Reaches(content, Start + 1)
    BY <1>2, <1>8 DEF Adds
  <2> DEFINE n == Start + 1
  <2>3. n \in Nat /\ offset' = n + 1 /\ offset' > offset /\ phase' = phase
    <3>1. offset' = NextOffset(Start, page) /\ phase' = phase
      BY <1>1, <1>8
    <3>2. NextOffset(Start, page) = Start + page.full + 2
      BY <1>8 DEF NextOffset
    <3> QED
      BY <1>3, <2>1, <3>1, <3>2
  <2>4. ~torn => Reaches(content, n)
    BY <2>2
  <2> HIDE DEF n
  <2>5. PagesInv' /\ (phase' = "reading" => offset' > offset)
    BY <1>5, <2>3, <2>4
  <2> QED
    BY <1>1, <1>2, <2>5
<1>9. CASE page.cut = "none" /\ ~(page.full = limit /\ EndsWith(content, "newline"))
  <2>1. /\ phase' = "done" /\ offset' = offset
        /\ ~torn => got \o content = ShownUpTo(file, Len(file))
    BY <1>1, <1>2, <1>9 DEF Adds
  <2>2. ShownUpTo(file, Len(file))' = ShownUpTo(file, Len(file))
    BY <1>3 DEF ShownUpTo, Reachable
  <2>3. ReaderOK'
    BY <1>1, <1>3, <2>1, ReaderEnds
  <2>4. PagesInv'
    <3>1. phase' # "reading" /\ FileOK' /\ Text(got, TRUE)'
      BY <1>3, <1>4, <2>1 DEF FileOK, Text
    <3>2. /\ cap' \in Nat \ {0} /\ limit' \in (Nat \ {0}) \cup {NoLimit} /\ first' \in Nat
          /\ offset' \in Nat /\ first' <= offset' /\ (~torn' => ~torn)
      BY <1>3, <2>1
    <3>3. ~torn' => got' = ShownUpTo(file, Len(file))'
      BY <1>1, <2>1, <2>2, <3>2
    <3> QED
      BY <2>3, <3>1, <3>2, <3>3 DEF PagesInv
  <2> QED
    BY <1>1, <1>2, <2>1, <2>4
<1>10. page.cut = "none" \/ page.cut = "line" \/ page.cut = "partial"
  BY DEF PageAny
<1> QED
  BY <1>6, <1>7, <1>8, <1>9, <1>10

(* The file grows: a call that has not counted its last line goes on as       *)
(* before.                                                                    *)
LEMMA ReaderGrown ==
  ASSUME PagesInv, NEW b \in Bytes, file' = Append(file, b), opened, ~torn, ~Counted,
         UNCHANGED <<args, offset, reader>>
  PROVE  (lines < Start => Skipping') /\ (lines >= Start => Taking')
<1>1. /\ file \in Seq(Bytes) /\ Len(file) \in Nat /\ cap \in Nat \ {0} /\ Start \in Nat
      /\ lines \in Nat /\ begin \in Nat /\ place \in Nat /\ begin <= place /\ place <= Len(file)
      /\ place - begin \in Nat /\ begin + (place - begin) = place
      /\ lines >= Start => lines - Start \in Nat /\ Start + (lines - Start) = lines
  BY InvFacts
<1>2. /\ (lines < Start => Skipping) /\ (lines >= Start => Taking)
      /\ lines = Start /\ lines >= Start => place = begin
  BY InvFacts DEF ReaderOK
<1>3. ~seen => place < Len(file) \/ place = 0 \/ file[place] = "newline"
  BY <1>1 DEF Counted
<1>4. /\ cap' = cap /\ begin' = begin /\ place' = place /\ lines' = lines /\ seen' = seen
      /\ Start' = Start
  BY DEF args, reader, Start
<1> DEFINE h == Append(file, b)
           end == Len(file) + 1
<1> HIDE DEF end
<1>5. ASSUME lines < Start PROVE Skipping'
  <2>1. Passed(file, begin, lines) /\ (~seen => place = begin)
        /\ (seen => OneLine(file, begin, place) /\ begin < place /\ file[place] # "newline")
    BY <1>2, <1>5 DEF Skipping
  <2>2. begin < Len(file) \/ begin = 0 \/ file[begin] = "newline"
    BY <1>1, <1>3, <2>1 DEF OneLine
  <2>3. Passed(h, begin, lines)
    BY <1>1, <2>1, <2>2, PassedOver, PassedGrown
  <2>4. seen => OneLine(h, begin, place) /\ h[place] = file[place]
    BY <1>1, <2>1, OneLineGrown
  <2> HIDE DEF h
  <2> QED
    BY <1>4, <2>1, <2>3, <2>4 DEF Skipping, h
<1>6. ASSUME lines >= Start PROVE Taking'
  <2>1. /\ ~seen /\ Passed(file, begin, Start)
        /\ Taken(file, Start, begin, cap, lines - Start, place - begin)
    BY <1>2, <1>6 DEF Taking
  <2>2. begin < Len(file) \/ begin = 0 \/ file[begin] = "newline"
    BY <1>1, <1>3, <2>1
  <2>3. Passed(h, begin, Start)
    BY <1>1, <2>1, <2>2, PassedOver, PassedGrown
  <2>4. lines < LineOf(file, Len(file) + 1)
    <3>1. Passed(file, place, lines)
      <4>1. CASE lines = Start
        BY <1>2, <1>6, <2>1, <4>1
      <4>2. CASE lines # Start
        <5>1. place - begin # 0 /\ lines # 0 /\ place # 0
          BY <1>1, <1>6, <2>1, <4>2 DEF Taken
        <5>2. Boundary(file, place, lines) /\ LineOf(file, place) = lines
          BY <1>1, <1>6, <2>1, <5>1 DEF Taken
        <5> QED
          BY <5>1, <5>2 DEF Passed
      <4> QED
        BY <4>1, <4>2
    <3> QED
      BY <1>1, <1>3, <2>1, <3>1, PassedOver
  <2>5. Taken(h, Start, begin, cap, lines - Start, place - begin)
    <3> DEFINE m == lines - Start
    <3>1. Start + m < LineOf(file, Len(file) + 1) /\ Taken(file, Start, begin, cap, m, place - begin)
      BY <1>1, <1>6, <2>1, <2>4
    <3> HIDE DEF m
    <3>2. Taken(h, Start, begin, cap, m, place - begin)
      BY <1>1, <3>1, TakenGrown
    <3> QED
      BY <3>2 DEF m
  <2> HIDE DEF h
  <2> QED
    BY <1>4, <2>1, <2>3, <2>5 DEF Taking, h
<1> QED
  BY <1>5, <1>6

LEMMA Appended ==
  ASSUME PagesInv, AppendByte
  PROVE  PagesInv'
<1>1. PICK b \in Bytes : file' = Append(file, b)
  BY DEF AppendByte
<1>2. /\ phase = "reading" /\ phase' = phase /\ got' = got /\ offset' = offset
      /\ cap' = cap /\ limit' = limit /\ first' = first /\ torn' = (torn \/ Counted)
      /\ opened' = opened /\ seen' = seen /\ lines' = lines /\ begin' = begin /\ place' = place
      /\ UNCHANGED <<args, offset, reader>>
  BY DEF AppendByte, args, client, reader
<1>3. /\ file \in Seq(Bytes) /\ cap \in Nat \ {0} /\ limit \in (Nat \ {0}) \cup {NoLimit} /\ first \in Nat
      /\ offset \in Nat /\ first <= offset /\ Text(got, TRUE) /\ (~torn => Following)
      /\ ReaderOK /\ ReaderType /\ Len(file) \in Nat
  BY <1>2, InvFacts DEF PagesInv, ReaderOK
<1>4. Start \in Nat /\ Start' = Start
  BY <1>2, <1>3 DEF Start
<1> DEFINE n == Start
           h == Append(file, b)
<1>5. h \in Seq(Bytes) /\ Len(h) = Len(file) + 1
  BY <1>3, AppendProperties
<1>6. ASSUME ~torn PROVE Following'
  <2>1. n \in Nat /\ Settled(file, n) /\ got = ShownUpTo(file, n)
    BY <1>3, <1>4, <1>6 DEF Following
  <2> HIDE DEF n
  <2>2. ShownUpTo(h, n) = ShownUpTo(file, n) /\ Settled(h, n)
    BY <1>3, <2>1, ShownStable
  <2> HIDE DEF h
  <2>3. ShownUpTo(file, Start)' = ShownUpTo(h, n)
    BY <1>1, <1>2, <1>4 DEF ShownUpTo, Reachable, h, n
  <2>4. Settled(file, Start)'
    BY <1>1, <1>2, <1>4, <2>2 DEF Settled, h, n
  <2> QED
    BY <1>2, <2>1, <2>2, <2>3, <2>4 DEF Following
<1> HIDE DEF n, h
<1>7. ReaderType'
  <2>1. torn' \in BOOLEAN /\ place' <= Len(file')
    BY <1>1, <1>2, <1>3, <1>5 DEF ReaderType, Counted, h
  <2> QED
    BY <1>2, <1>3, <1>4, <2>1 DEF ReaderType
<1>8. ASSUME opened', ~torn' PROVE (lines' < Start' => Skipping') /\ (lines' >= Start' => Taking')
  <2>1. opened /\ ~torn /\ ~Counted
    BY <1>2, <1>8
  <2> QED
    BY <1>1, <1>2, <1>4, <2>1, ReaderGrown
<1>9. ReaderOK'
  BY <1>7, <1>8 DEF ReaderOK
<1>10. FileOK'
  BY <1>1, <1>5 DEF FileOK, h
<1>11. Text(got, TRUE)' /\ phase' # "done" /\ (~torn' => ~torn)
  BY <1>2, <1>3 DEF Text
<1> QED
  BY <1>2, <1>3, <1>6, <1>9, <1>10, <1>11 DEF PagesInv

(* No page, and none to come, or the same ones.                               *)
LEMMA NoPage ==
  ASSUME PagesInv, got' = got, offset' = offset, UNCHANGED <<file, args, torn>>, ReaderOK',
         phase' \notin {"reading", "done"} \/ phase' = phase
  PROVE  PagesInv'
<1>1. cap' = cap /\ limit' = limit /\ first' = first /\ file' = file /\ torn' = torn
  BY DEF args
<1>2. /\ cap \in Nat \ {0} /\ limit \in (Nat \ {0}) \cup {NoLimit} /\ first \in Nat
      /\ offset \in Nat /\ first <= offset /\ Text(got, TRUE) /\ FileOK
      /\ phase = "reading" /\ ~torn => Following
      /\ phase = "done" /\ ~torn => got = ShownUpTo(file, Len(file))
  BY DEF PagesInv
<1>3. Text(got, TRUE)' /\ FileOK'
  BY <1>1, <1>2 DEF Text, FileOK
<1>4. Following' <=> Following
  <2>1. Start' = Start
    BY DEF Start
  <2>2. ShownUpTo(file, Start)' = ShownUpTo(file, Start)
    BY <1>1, <2>1 DEF ShownUpTo, Reachable
  <2>3. Settled(file, Start)' <=> Settled(file, Start)
    BY <1>1, <2>1 DEF Settled
  <2> QED
    BY <2>2, <2>3 DEF Following
<1>5. ShownUpTo(file, Len(file))' = ShownUpTo(file, Len(file))
  BY <1>1 DEF ShownUpTo, Reachable
<1>6. /\ phase' = "reading" => phase = "reading"
      /\ phase' = "done" => phase = "done"
      /\ ~torn' => ~torn
  BY <1>1
<1>7. phase' = "reading" /\ ~torn' => Following'
  BY <1>2, <1>4, <1>6
<1>8. phase' = "done" /\ ~torn' => got' = ShownUpTo(file, Len(file))'
  BY <1>2, <1>5, <1>6
<1>9. /\ cap' \in Nat \ {0} /\ limit' \in (Nat \ {0}) \cup {NoLimit} /\ first' \in Nat
      /\ offset' \in Nat /\ first' <= offset'
  BY <1>1, <1>2
<1> QED
  BY <1>3, <1>7, <1>8, <1>9 DEF PagesInv

(* A step of a call: a page is read, or nothing is told to the client.        *)
LEMMA CallStep ==
  ASSUME PagesInv, tool_read_file
  PROVE  /\ phase = "reading" /\ UNCHANGED <<file, args, torn>>
         /\ \/ \E page : PageAny(page) /\ (~torn => Right(page)) /\ Read(page)
            \/ /\ got' = got /\ offset' = offset /\ ReaderOK'
               /\ phase' = "refused" \/ (phase' = phase /\ ~(opened /\ ~opened'))
<1>1. phase = "reading" /\ UNCHANGED <<file, args, torn>> /\ offset \in Nat
  BY InvFacts DEF tool_read_file
<1>2. ASSUME NEW why, Failed(why)
      PROVE  got' = got /\ offset' = offset /\ ReaderOK' /\ phase' = "refused"
  <2>1. got' = got /\ offset' = offset /\ phase' = "refused" /\ Closed
    BY <1>2 DEF Failed
  <2>2. offset' \in Nat
    BY <1>1, <2>1
  <2> QED
    BY <1>1, <2>1, <2>2, ReaderEnds
<1>3. CASE ~opened /\ (Missing \/ NotAFile \/ NotText \/ Open)
  <2>1. CASE Missing
    BY <1>1, <1>2, <2>1 DEF Missing
  <2>2. CASE NotAFile
    BY <1>1, <1>2, <2>2 DEF NotAFile
  <2>3. CASE NotText
    BY <1>1, <1>2, <2>3 DEF NotText
  <2>4. CASE Open
    <3>1. ReaderOK'
      BY <1>1, <1>3, <2>4, ReaderBegins
    <3>2. got' = got /\ offset' = offset /\ phase' = phase
      BY <2>4 DEF Open, client
    <3> QED
      BY <1>1, <1>3, <3>1, <3>2
  <2> QED
    BY <1>3, <2>1, <2>2, <2>3, <2>4
<1>4. ASSUME Turns \/ (UNCHANGED client /\ opened' = opened /\ ReaderOK')
      PROVE  \/ \E page : PageAny(page) /\ (~torn => Right(page)) /\ Read(page)
             \/ /\ got' = got /\ offset' = offset /\ ReaderOK'
                /\ phase' = "refused" \/ (phase' = phase /\ ~(opened /\ ~opened'))
  <2>1. CASE Turns
    <3>1. PICK page : PageAny(page) /\ (~torn => Right(page)) /\ (NotUtf8(page) \/ Read(page))
      BY <2>1 DEF Turns, Returns
    <3>2. CASE NotUtf8(page)
      BY <1>2, <3>2 DEF NotUtf8
    <3>3. CASE Read(page)
      BY <3>1, <3>3
    <3> QED
      BY <3>1, <3>2, <3>3
  <2>2. CASE UNCHANGED client /\ opened' = opened /\ ReaderOK'
    BY <1>4, <2>2 DEF client
  <2> QED
    BY <1>4, <2>1, <2>2
<1>5. CASE Skip
  BY <1>1, <1>5, Skips, <1>4
<1>6. CASE Take
  BY <1>1, <1>6, Takes, <1>4
<1> QED
  BY <1>1, <1>3, <1>5, <1>6 DEF tool_read_file

LEMMA PagesInvariance == CommandSpec => []PagesInv
<1>1. CommandInit => PagesInv
  BY PagesInit DEF CommandInit
<1>2. PagesInv /\ [CommandNext]_<<vars, printed, said>> => PagesInv'
  <2> SUFFICES ASSUME PagesInv, [CommandNext]_<<vars, printed, said>> PROVE PagesInv'
    OBVIOUS
  <2>1. CASE tool_read_file
    <3>1. /\ phase = "reading" /\ UNCHANGED <<file, args, torn>>
          /\ \/ \E page : PageAny(page) /\ (~torn => Right(page)) /\ Read(page)
             \/ /\ got' = got /\ offset' = offset /\ ReaderOK'
                /\ phase' = "refused" \/ (phase' = phase /\ ~(opened /\ ~opened'))
      BY <2>1, CallStep
    <3>2. CASE \E page : PageAny(page) /\ (~torn => Right(page)) /\ Read(page)
      BY <3>1, <3>2, GoesOn
    <3>3. CASE got' = got /\ offset' = offset /\ ReaderOK' /\ (phase' = "refused" \/ phase' = phase)
      <4>1. phase' \notin {"reading", "done"} \/ phase' = phase
        BY <3>3
      <4> QED
        BY <3>1, <3>3, <4>1, NoPage
    <3> QED
      BY <3>1, <3>2, <3>3
  <2>2. CASE AppendByte
    BY <2>2, Appended
  <2>3. ASSUME got' = got, UNCHANGED <<file, args, offset, reader, torn>>, phase' = phase \/ phase' = "printed"
        PROVE  PagesInv'
    <3>1. ReaderOK'
      BY <2>3, ReaderSame
    <3>2. phase' \notin {"reading", "done"} \/ phase' = phase
      BY <2>3
    <3> QED
      BY <2>3, <3>1, <3>2, NoPage
  <2>4. CASE Unlink
    BY <2>3, <2>4 DEF Unlink, client
  <2>5. CASE tool_shell
    BY <2>3, <2>5 DEF tool_shell
  <2>6. CASE UNCHANGED <<vars, printed, said>>
    BY <2>3, <2>6 DEF vars, client
  <2> QED
    BY <2>1, <2>2, <2>4, <2>5, <2>6 DEF CommandNext, Next
<1> QED
  BY <1>1, <1>2, PTL DEF CommandSpec

(* A client that follows next_offset gets each line that it asked for once,   *)
(* as far as it can be read, and when it stops it has all of them, though the *)
(* file grows between its calls and within them, unless a last line without a *)
(* newline grew when a call had counted it; what it got is text in any case.  *)
THEOREM PagesJoinUp == CommandSpec => []PagesJoin
<1>1. PagesInv => PagesJoin
  BY DEF PagesInv, PagesJoin, Following, Text
<1> QED
  BY <1>1, PagesInvariance, PTL

-----------------------------------------------------------------------------
(* What the audit row keeps of a page.                                        *)
LEMMA BodyOfPage ==
  ASSUME NEW content \in Seq(Bytes)
  PROVE  LET body == Bodies(content, <<>>, BodyMax) IN
         /\ body.truncated <=> Len(content) > BodyMax
         /\ body.out = IF Len(content) > BodyMax
                       THEN Whole(SubSeq(content, 1, BodyMax)) \o Mark ELSE content
<1> DEFINE clip == ClipOutput(content, <<>>, BodyMax)
           share == BodyMax \div Divisor
<1>1. BodyMax \in Nat /\ "mark" \notin Bytes /\ Len(content) \in Nat
  BY ReadFileAssumption, LenProperties
<1>2. share \in 0 .. BodyMax
  BY <1>1, Share
<1>3. Len(<<>>) = 0
  BY EmptySeq
<1> HIDE DEF share
<1>4. Least(Len(<<>>), share) = 0
  BY <1>2, <1>3 DEF Least
<1>5. ~Marked(content) /\ Unmarked(content) = content /\ ~Marked(<<>>) /\ Unmarked(<<>>) = <<>>
  BY <1>1, MarkOnce, EmptySeq
<1>6. /\ Bodies(content, <<>>, BodyMax).out = clip.out
      /\ Bodies(content, <<>>, BodyMax).truncated <=> clip.clipped
  <2> DEFINE o == IF Marked(content) THEN AddMark(clip.out) ELSE clip.out
             e == IF Marked(<<>>) THEN AddMark(clip.err) ELSE clip.err
             t == clip.clipped \/ Marked(content) \/ Marked(<<>>)
             body == Bodies(content, <<>>, BodyMax)
  <2>1. body = [out |-> o, err |-> e, truncated |-> t]
    BY <1>5 DEF Bodies
  <2>2. o = clip.out /\ (t <=> clip.clipped)
    BY <1>5
  <2> HIDE DEF o, e, t, body
  <2>3. body.out = o /\ (body.truncated <=> t)
    BY <2>1
  <2> QED
    BY <2>2, <2>3 DEF body
<1>7. CASE Len(content) <= BodyMax
  <2>1. clip = [out |-> content, err |-> <<>>, clipped |-> FALSE]
    <3>1. Len(content) + Len(<<>>) <= BodyMax
      BY <1>1, <1>3, <1>7
    <3> QED
      BY <3>1 DEF ClipOutput
  <2>2. clip.out = content /\ (clip.clipped <=> FALSE)
    BY <2>1
  <2> HIDE DEF clip
  <2> QED
    BY <1>1, <1>7, <1>6, <2>2 DEF clip
<1>8. CASE ~(Len(content) <= BodyMax)
  <2> DEFINE long == Whole(SubSeq(content, 1, BodyMax)) \o Mark
  <2>1. clip.out = long /\ (clip.clipped <=> TRUE)
    <3>1. ~(Len(content) + Len(<<>>) <= BodyMax)
      BY <1>1, <1>3, <1>8
    <3>2. Least(Len(content), BodyMax - 0) = BodyMax
      BY <1>1, <1>8 DEF Least
    <3>3. Cut(content, BodyMax) = long
      BY <1>1, <1>8 DEF Cut
    <3> DEFINE errKeep == Least(Len(<<>>), BodyMax - BodyMax)
    <3>4. clip = [out |-> Cut(content, BodyMax), err |-> Cut(<<>>, errKeep), clipped |-> TRUE]
      <4> DEFINE none == Least(Len(<<>>), share)
      <4>1. none = 0
        BY <1>4
      <4>2. clip = [out |-> Cut(content, Least(Len(content), BodyMax - none)),
                    err |-> Cut(<<>>, Least(Len(<<>>), BodyMax - Least(Len(content), BodyMax - none))),
                    clipped |-> TRUE]
        BY <3>1 DEF ClipOutput, share
      <4> HIDE DEF none, clip
      <4> QED
        BY <3>2, <4>1, <4>2
    <3> HIDE DEF errKeep, clip, long
    <3> QED
      BY <3>3, <3>4
  <2> HIDE DEF clip, long
  <2>2. Len(content) > BodyMax
    BY <1>1, <1>8
  <2>3. Bodies(content, <<>>, BodyMax).truncated <=> TRUE
    BY <1>6, <2>1
  <2>4. Bodies(content, <<>>, BodyMax).out = long
    BY <1>6, <2>1
  <2> QED
    BY <2>2, <2>3, <2>4 DEF long
<1> QED
  BY <1>7, <1>8

LEMMA PageKept ==
  ASSUME NEW content, Text(content, TRUE), NEW audited,
         LET body == Bodies(content, <<>>, BodyMax) IN
         audited.out = body.out /\ (audited.truncated <=> body.truncated)
  PROVE  Holds(audited, content)
<1>1. BodyMax \in Nat /\ "mark" \notin Bytes /\ content \in Seq(Bytes) /\ Len(content) \in Nat
  BY ReadFileAssumption, LenProperties DEF Text
<1>2. /\ audited.truncated <=> Len(content) > BodyMax
      /\ audited.out = IF Len(content) > BodyMax
                       THEN Whole(SubSeq(content, 1, BodyMax)) \o Mark ELSE content
  BY <1>1, BodyOfPage
<1>3. CASE Len(content) > BodyMax
  <2> DEFINE b == SubSeq(content, 1, BodyMax)
             kept == Whole(b)
  <2>1. BodyMax \in 0 .. Len(content)
    BY <1>1, <1>3
  <2>2. b \in Seq(Bytes) /\ Len(b) = BodyMax /\ Text(b, FALSE)
    BY <1>1, <2>1, Beginning, TextBeginning
  <2>3. audited.out = kept \o Mark
    BY <1>2, <1>3
  <2> HIDE DEF b
  <2>4. Text(kept, TRUE) /\ kept \in Seq(Bytes)
    BY <2>2, WholeIsText DEF Text
  <2>5. PICK k \in 0 .. BodyMax : kept = SubSeq(b, 1, k) /\ k >= BodyMax - 1
    BY <2>2, WholeIs
  <2>6. SubSeq(b, 1, k) = SubSeq(content, 1, k) /\ k \in 0 .. Len(content)
    BY <1>1, <2>1, BeginningOfBeginning DEF b
  <2> HIDE DEF kept
  <2>7. kept = SubSeq(content, 1, k) /\ Len(kept) = k
    BY <1>1, <2>5, <2>6, Beginning
  <2>8. IsPrefix(kept, content)
    BY <1>1, <2>6, <2>7 DEF IsPrefix
  <2>9. Marked(audited.out) /\ Unmarked(audited.out) = kept
    BY <1>1, <2>3, <2>4, MarkOnce
  <2>10. Len(kept) \in BodyMax - 1 .. BodyMax
    BY <1>1, <2>5, <2>7
  <2> QED
    BY <1>2, <1>3, <2>4, <2>8, <2>9, <2>10 DEF Holds, Text
<1>4. CASE ~(Len(content) > BodyMax)
  BY <1>2, <1>4 DEF Holds
<1> QED
  BY <1>3, <1>4

(* What a page added is the page.                                             *)
LEMMA EndOfConcat ==
  ASSUME NEW s \in Seq(Bytes), NEW t \in Seq(Bytes)
  PROVE  SubSeq(s \o t, Len(s) + 1, Len(s \o t)) = t
<1> DEFINE u == s \o t
           n == Len(s)
           d == SubSeq(u, n + 1, n + Len(t))
<1>1. n \in Nat /\ Len(t) \in Nat
  BY LenProperties
<1>2. /\ u \in Seq(Bytes) /\ Len(u) = n + Len(t)
      /\ \A i \in 1 .. n + Len(t) : u[i] = IF i <= n THEN s[i] ELSE t[i - n]
  BY ConcatProperties
<1> HIDE DEF u, n
<1>3. \A i \in 1 .. Len(t) : u[n + i] = t[i]
  <2> SUFFICES ASSUME NEW i \in 1 .. Len(t) PROVE u[n + i] = t[i]
    OBVIOUS
  <2>1. n + i \in 1 .. n + Len(t) /\ ~(n + i <= n) /\ (n + i) - n = i
    BY <1>1
  <2> QED
    BY <1>2, <2>1
<1>4. d \in Seq(Bytes) /\ Len(d) = Len(t) /\ \A i \in 1 .. Len(t) : d[i] = u[n + i]
  <2>1. n + Len(t) <= Len(u)
    BY <1>1, <1>2
  <2> QED
    BY <1>1, <1>2, <2>1, Stretch
<1> HIDE DEF d
<1>5. \A i \in 1 .. Len(t) : d[i] = t[i]
  BY <1>3, <1>4
<1>6. d = t
  BY <1>4, <1>5, SeqEqual
<1> QED
  BY <1>2, <1>6 DEF d, u, n

(* A step that reads no page.                                                 *)
LEMMA NoPageRight ==
  ASSUME PagesInv, got' = got, phase' # "reading" \/ ~(opened /\ ~opened')
  PROVE  PageRight
<1>1. got \in Seq(Bytes) /\ cap \in Nat /\ Len(got) \in Nat
  BY InvFacts, LenProperties
<1> DEFINE a == Len(got) + 1
           page == SubSeq(got, a, Len(got))
<1>2. page = <<>>
  BY <1>1, SubSeqEmpty
<1>3. Len(page) <= cap
  BY <1>1, <1>2, EmptySeq
<1> QED
  BY <1>2, <1>3 DEF PageRight

(* Each page is within the cap, gets the client on, and is what its audit row *)
(* says, for every file, cap, limit, offset and budget.                       *)
THEOREM PagesRight == CommandSpec => EachPage
<1>1. PagesInv /\ [CommandNext]_<<vars, printed, said>> => [PageRight]_vars
  <2> SUFFICES ASSUME PagesInv, [CommandNext]_<<vars, printed, said>>, ~UNCHANGED vars
               PROVE  PageRight
    OBVIOUS
  <2>1. CASE tool_read_file
    <3>1. /\ phase = "reading" /\ UNCHANGED <<file, args, torn>>
          /\ \/ \E page : PageAny(page) /\ (~torn => Right(page)) /\ Read(page)
             \/ /\ got' = got /\ offset' = offset /\ ReaderOK'
                /\ phase' = "refused" \/ (phase' = phase /\ ~(opened /\ ~opened'))
      BY <2>1, CallStep
    <3>2. CASE got' = got /\ (phase' = "refused" \/ ~(opened /\ ~opened'))
      BY <3>2, NoPageRight
    <3>3. ASSUME NEW page, PageAny(page), ~torn => Right(page), Read(page)
          PROVE  PageRight
      <4>2. /\ phase' = "reading" => offset' > offset
            /\ \E content :
                  /\ Text(content, TRUE) /\ Len(content) \in Nat /\ Len(content) <= cap
                  /\ got' = got \o content
                  /\ LET body == Bodies(content, <<>>, BodyMax) IN
                     row' = [status |-> "SUCCESS", out |-> body.out, err |-> body.err,
                             truncated |-> body.truncated]
        BY <3>1, <3>3, GoesOn
      <4>3. PICK content :
                  /\ Text(content, TRUE) /\ Len(content) \in Nat /\ Len(content) <= cap
                  /\ got' = got \o content
                  /\ LET body == Bodies(content, <<>>, BodyMax) IN
                     row' = [status |-> "SUCCESS", out |-> body.out, err |-> body.err,
                             truncated |-> body.truncated]
        BY <4>2
      <4>4. SubSeq(got', Len(got) + 1, Len(got')) = content
        BY <4>3, InvFacts, EndOfConcat DEF Text
      <4> DEFINE body == Bodies(content, <<>>, BodyMax)
                 written == row'
      <4>5. written.out = body.out /\ (written.truncated <=> body.truncated)
        <5> HIDE DEF body
        <5> QED
          BY <4>3 DEF body
      <4> HIDE DEF written
      <4>6. Holds(written, content)
        BY <4>3, <4>5, PageKept
      <4> QED
        BY <4>2, <4>3, <4>4, <4>6 DEF PageRight, written
    <3> QED
      BY <3>1, <3>2, <3>3
  <2>2. CASE AppendByte
    BY <2>2, NoPageRight DEF AppendByte, client, reader
  <2>3. CASE Unlink
    BY <2>3, NoPageRight DEF Unlink, client, reader
  <2>4. CASE tool_shell
    BY <2>4, NoPageRight DEF tool_shell
  <2> QED
    BY <2>1, <2>2, <2>3, <2>4 DEF CommandNext, Next, vars, client
<1> QED
  BY <1>1, PagesInvariance, PTL DEF CommandSpec, EachPage
=============================================================================
