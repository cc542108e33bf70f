--------------------------- MODULE PgnWriteProofs ---------------------------
(***************************************************************************)
(* What holds of PgnWrite for every set of paths, pages and games and      *)
(* every bound: its types, that what is read and known of the file at its  *)
(* present generation is true, that a write leaves what its page had read  *)
(* with its own edit, and that a database answered as opening has a build. *)
(***************************************************************************)
EXTENDS PgnWrite, SequenceTheorems, TLAPS
-----------------------------------------------------------------------------
(* Sequences: parts of them, and parts put together again.                 *)

(* A part of a sequence: empty, if it ends before it begins.               *)
LEMMA PartOf ==
    ASSUME NEW S, NEW s \in Seq(S), NEW m \in Nat \ {0}, NEW n \in Int, n <= Len(s)
    PROVE  /\ SubSeq(s, m, n) \in Seq(S)
           /\ Len(SubSeq(s, m, n)) = IF m <= n THEN n - m + 1 ELSE 0
           /\ \A i \in 1..(n - m + 1) : SubSeq(s, m, n)[i] = s[m + i - 1]
<1>1. \A i \in m..n : s[i] \in S
  OBVIOUS
<1> QED
  BY <1>1, SubSeqProperties

LEMMA PartAfter ==
    ASSUME NEW S, NEW s \in Seq(S), NEW k \in Nat, NEW n \in Nat, k <= n, n <= Len(s)
    PROVE  /\ SubSeq(s, k + 1, n) \in Seq(S)
           /\ Len(SubSeq(s, k + 1, n)) = n - k
           /\ \A i \in 1..(n - k) : SubSeq(s, k + 1, n)[i] = s[k + i]
<1>1. k + 1 \in Nat \ {0} /\ n \in Int /\ n - (k + 1) + 1 = n - k
  OBVIOUS
<1>2. /\ SubSeq(s, k + 1, n) \in Seq(S)
      /\ Len(SubSeq(s, k + 1, n)) = IF k + 1 <= n THEN n - (k + 1) + 1 ELSE 0
      /\ \A i \in 1..(n - (k + 1) + 1) : SubSeq(s, k + 1, n)[i] = s[(k + 1) + i - 1]
  BY <1>1, PartOf
<1>3. \A i \in 1..(n - k) : (k + 1) + i - 1 = k + i
  OBVIOUS
<1>4. Len(SubSeq(s, k + 1, n)) = n - k
  BY <1>1, <1>2
<1> QED
  BY <1>1, <1>2, <1>3, <1>4

(* The beginning of a sequence that agrees with another, before the rest   *)
(* of that other, is the other.                                            *)
LEMMA Spliced ==
    ASSUME NEW S, NEW s \in Seq(S), NEW t \in Seq(S), NEW k \in Nat,
           k <= Len(s), k <= Len(t), \A i \in 1..k : s[i] = t[i]
    PROVE  SubSeq(s, 1, k) \o SubSeq(t, k + 1, Len(t)) = t
<1> DEFINE a == SubSeq(s, 1, k)
           b == SubSeq(t, k + 1, Len(t))
<1>0. Len(t) \in Nat /\ k + 1 \in Nat \ {0} /\ k + 1 <= Len(t) + 1
  OBVIOUS
<1>1. a \in Seq(S) /\ Len(a) = k /\ \A i \in 1..k : a[i] = t[i]
  BY PartOf
<1>2. b \in Seq(S) /\ Len(b) = Len(t) - k /\ \A i \in 1..(Len(t) - k) : b[i] = t[k + i]
  BY <1>0, PartOf
<1> HIDE DEF a, b
<1>3. a \o b \in Seq(S) /\ Len(a \o b) = Len(t)
  BY <1>0, <1>1, <1>2, ConcatProperties
<1>4. ASSUME NEW i \in 1..Len(t)
      PROVE  (a \o b)[i] = t[i]
  <2>1. (a \o b)[i] = IF i <= k THEN a[i] ELSE b[i - k]
    BY <1>0, <1>1, <1>2, ConcatProperties
  <2> QED
    BY <1>0, <1>1, <1>2, <2>1
<1>5. a \o b = t
  BY <1>3, <1>4, SeqEqual
<1> QED
  BY <1>5 DEF a, b

(* A part of a sequence before the rest of it, kept apart.                 *)
LEMMA Rejoined ==
    ASSUME NEW S, NEW t \in Seq(S), NEW rest \in Seq(S), NEW k \in Nat, NEW m \in Nat,
           k <= m, m + Len(rest) = Len(t), \A j \in (m + 1)..Len(t) : t[j] = rest[j - m]
    PROVE  SubSeq(t, k + 1, m) \o rest = SubSeq(t, k + 1, Len(t))
<1> DEFINE a == SubSeq(t, k + 1, m)
           b == SubSeq(t, k + 1, Len(t))
           n == Len(t) - k
<1>0. Len(t) \in Nat /\ Len(rest) \in Nat /\ m <= Len(t) /\ m - k \in Nat /\ n \in Nat
  OBVIOUS
<1>1. a \in Seq(S) /\ Len(a) = m - k /\ \A i \in 1..(m - k) : a[i] = t[k + i]
  BY <1>0, PartAfter
<1>2. b \in Seq(S) /\ Len(b) = n /\ \A i \in 1..n : b[i] = t[k + i]
  BY <1>0, PartAfter
<1> HIDE DEF a, b
<1>3. /\ a \o rest \in Seq(S)
      /\ Len(a \o rest) = Len(a) + Len(rest)
      /\ \A i \in 1..(Len(a) + Len(rest)) :
             (a \o rest)[i] = IF i <= Len(a) THEN a[i] ELSE rest[i - Len(a)]
  BY <1>1, ConcatProperties
<1>4. Len(a) + Len(rest) = n
  BY <1>0, <1>1
<1> HIDE DEF n
<1>5. ASSUME NEW i \in 1..n, i <= m - k
      PROVE  (a \o rest)[i] = b[i]
  <2>1. i \in 1..(m - k)
    BY <1>0, <1>5 DEF n
  <2>2. (a \o rest)[i] = a[i]
    BY <1>1, <1>3, <1>4, <1>5
  <2> QED
    BY <1>1, <1>2, <2>1, <2>2
<1>6. ASSUME NEW i \in 1..n, ~(i <= m - k)
      PROVE  (a \o rest)[i] = b[i]
  <2>1. k + i \in (m + 1)..Len(t) /\ (k + i) - m = i - (m - k)
    BY <1>0, <1>6 DEF n
  <2>2. t[k + i] = rest[i - (m - k)]
    BY <2>1
  <2> QED
    BY <1>1, <1>2, <1>3, <1>4, <1>6, <2>2
<1>7. \A i \in 1..n : (a \o rest)[i] = b[i]
  BY <1>5, <1>6
<1>8. a \o rest = b
  BY <1>2, <1>3, <1>4, <1>7, SeqEqual
<1> QED
  BY <1>8 DEF a, b
-----------------------------------------------------------------------------
(* Edits of the games of a file.                                           *)

(* A write names a game its index has.                                     *)
Fits(op, games) == op \in Appends \/ op.n \in 1..Len(games)

LEMMA OpKinds ==
    ASSUME NEW op \in Ops
    PROVE  /\ op \in Appends => op.kind = "append" /\ op.text \in Texts
           /\ op \in Replaces => op.kind = "replace" /\ op.n \in Nat \ {0} /\ op.text \in Texts
           /\ op \in Deletes => op.kind = "delete" /\ op.n \in Nat \ {0}
BY DEF Ops, Appends, Replaces, Deletes

LEMMA WithoutGame ==
    ASSUME NEW S, NEW s \in Seq(S), NEW n \in 1..Len(s)
    PROVE  /\ Without(s, n) \in Seq(S)
           /\ Len(Without(s, n)) = Len(s) - 1
           /\ \A i \in 1..(n - 1) : Without(s, n)[i] = s[i]
           /\ \A i \in n..(Len(s) - 1) : Without(s, n)[i] = s[i + 1]
<1> DEFINE a == SubSeq(s, 1, n - 1)
           b == SubSeq(s, n + 1, Len(s))
<1>0. Len(s) \in Nat /\ n \in Nat /\ n - 1 \in Nat /\ n - 1 <= Len(s)
  OBVIOUS
<1>1. a \in Seq(S) /\ Len(a) = n - 1 /\ \A i \in 1..(n - 1) : a[i] = s[i]
  BY <1>0, PartOf
<1>2. b \in Seq(S) /\ Len(b) = Len(s) - n /\ \A i \in 1..(Len(s) - n) : b[i] = s[n + i]
  BY <1>0, PartAfter
<1> HIDE DEF a, b
<1>3. /\ a \o b \in Seq(S) /\ Len(a \o b) = Len(s) - 1
      /\ \A i \in 1..(Len(s) - 1) : (a \o b)[i] = IF i <= n - 1 THEN a[i] ELSE b[i - (n - 1)]
  <2>1. (n - 1) + (Len(s) - n) = Len(s) - 1
    BY <1>0
  <2>2. /\ a \o b \in Seq(S) /\ Len(a \o b) = Len(a) + Len(b)
        /\ \A i \in 1..(Len(a) + Len(b)) : (a \o b)[i] = IF i <= Len(a) THEN a[i] ELSE b[i - Len(a)]
    BY <1>1, <1>2, ConcatProperties
  <2> QED
    BY <1>1, <1>2, <2>1, <2>2
<1>4. \A i \in n..(Len(s) - 1) : i - (n - 1) \in 1..(Len(s) - n) /\ n + (i - (n - 1)) = i + 1
  BY <1>0
<1>5. Without(s, n) = a \o b
  BY DEF Without, a, b
<1>6. \A i \in n..(Len(s) - 1) : (a \o b)[i] = s[i + 1]
  BY <1>0, <1>2, <1>3, <1>4
<1>7. \A i \in 1..(n - 1) : (a \o b)[i] = s[i]
  BY <1>0, <1>1, <1>3
<1> QED
  BY <1>3, <1>5, <1>6, <1>7

(* What an edit by an index leaves is games, if the index fits the file    *)
(* around the edit.                                                        *)
LEMMA EditedType ==
    ASSUME NEW op \in Ops, NEW old \in Games, NEW now \in Games,
           Fits(op, old), NeighboursFound(op, old, now)
    PROVE  Edited(op, old, now) \in Games
<1>0. Len(old) \in Nat /\ Len(now) \in Nat
  BY DEF Games
<1>1. CASE op \in Appends
  BY <1>1, OpKinds DEF Edited, Games
<1>2. CASE op \in Replaces
  BY <1>2, OpKinds DEF Edited, Games
<1>3. CASE op \in Deletes
  <2>1. op.kind = "delete" /\ op.n \in 1..Len(old) /\ op.n \in Nat \ {0}
    BY <1>3, OpKinds DEF Fits, Appends
  <2>2. CASE op.n < Len(old)
    <3>1. op.n \in 1..Len(now)
      BY <1>0, <2>1, <2>2 DEF NeighboursFound
    <3> QED
      BY <2>1, <2>2, <3>1, WithoutGame DEF Edited, Games
  <2>3. CASE op.n >= Len(old)
    <3>1. op.n - 1 \in Nat /\ op.n - 1 <= Len(now)
      BY <1>0, <2>1, <2>3 DEF NeighboursFound
    <3> QED
      BY <1>0, <2>1, <2>3, <3>1, PartOf DEF Edited, Games
  <2> QED
    BY <1>0, <2>1, <2>2, <2>3
<1> QED
  BY <1>1, <1>2, <1>3 DEF Ops

LEMMA NeighboursOfSame ==
    ASSUME NEW op \in Ops, NEW games \in Games, Fits(op, games)
    PROVE  NeighboursFound(op, games, games)
<1>1. Len(games) \in Nat
  BY DEF Games
<1>2. CASE op \in Appends
  BY <1>2, OpKinds DEF NeighboursFound
<1>3. CASE op \in Replaces
  BY <1>1, <1>3, OpKinds DEF NeighboursFound
<1>4. CASE op \in Deletes
  <2>1. op.kind = "delete" /\ op.n \in 1..Len(games)
    BY <1>4, OpKinds DEF Fits, Appends
  <2> QED
    BY <1>1, <2>1 DEF NeighboursFound
<1> QED
  BY <1>2, <1>3, <1>4 DEF Ops

LEMMA EditedSameType ==
    ASSUME NEW op \in Ops, NEW games \in Games, Fits(op, games)
    PROVE  Edited(op, games, games) \in Games
BY NeighboursOfSame, EditedType

(* What update makes of the old index and the file is games, whatever the  *)
(* file now holds; and it is what the file holds, once the edit is done.   *)
LEMMA UpdatedType ==
    ASSUME NEW op \in Ops, NEW old \in Games, NEW now \in Games, Fits(op, old)
    PROVE  Updated(op, old, now) \in Games
<1> DEFINE kept == IF First(op, old) > 2 THEN First(op, old) - 2 ELSE 0
           next == After(op, old)
           at   == Moved(op, next)
<1>1. /\ Len(old) \in Nat /\ Len(now) \in Nat
      /\ First(op, old) \in 1..(Len(old) + 1) /\ next = First(op, old) + (next - First(op, old))
      /\ next \in Nat \ {0} /\ at \in Nat /\ at >= First(op, old)
  <2>1. Len(old) \in Nat /\ Len(now) \in Nat
    BY DEF Games
  <2>2. CASE op \in Appends
    BY <2>1, <2>2, OpKinds DEF First, After, Moved
  <2>3. CASE op \in Replaces \union Deletes
    <3>1. op.kind # "append" /\ op.n \in 1..Len(old)
      BY <2>3, OpKinds DEF Fits, Appends
    <3> QED
      BY <2>1, <3>1 DEF First, After, Moved
  <2> QED
    BY <2>2, <2>3 DEF Ops
<1>2. kept \in Nat /\ kept <= Len(old) /\ kept + 1 \in Nat \ {0}
  BY <1>1
<1> HIDE DEF kept, next, at
<1>3. SubSeq(old, 1, kept) \in Games
  BY <1>1, <1>2, PartOf DEF Games
<1>4. CASE next <= Len(old) /\ at <= Len(now)
  <2>1. SubSeq(now, kept + 1, at - 1) \in Games
    BY <1>1, <1>2, <1>4, PartOf DEF Games
  <2>2. SubSeq(old, next, Len(old)) \in Games
    BY <1>1, <1>4, PartOf DEF Games
  <2>3. Updated(op, old, now) =
            SubSeq(old, 1, kept) \o (SubSeq(now, kept + 1, at - 1) \o SubSeq(old, next, Len(old)))
    BY <1>4 DEF Updated, kept, next, at
  <2> QED
    BY <1>3, <2>1, <2>2, <2>3, ConcatProperties DEF Games
<1>5. CASE ~(next <= Len(old) /\ at <= Len(now))
  <2>1. SubSeq(now, kept + 1, Len(now)) \in Games
    BY <1>1, <1>2, PartOf DEF Games
  <2>2. Updated(op, old, now) = SubSeq(old, 1, kept) \o SubSeq(now, kept + 1, Len(now))
    BY <1>5 DEF Updated, kept, next, at
  <2> QED
    BY <1>3, <2>1, <2>2, ConcatProperties DEF Games
<1> QED
  BY <1>4, <1>5

LEMMA UpdatedIsEdited ==
    ASSUME NEW op \in Ops, NEW games \in Games, Fits(op, games)
    PROVE  Updated(op, games, Edited(op, games, games)) = Edited(op, games, games)
<1> DEFINE now  == Edited(op, games, games)
           kept == IF First(op, games) > 2 THEN First(op, games) - 2 ELSE 0
<1>1. now \in Games /\ Len(games) \in Nat /\ Len(now) \in Nat
  BY EditedSameType DEF Games
<1>2. CASE op \in Appends
  <2>1. op.kind = "append" /\ op.text \in Texts
    BY ONLY <1>2 DEF Appends
  <2>2. /\ Len(now) = Len(games) + 1
        /\ \A i \in 1..Len(games) : now[i] = games[i]
    BY <1>1, <2>1 DEF Edited, Games
  <2>3. kept \in Nat /\ kept <= Len(games)
    BY <1>1, <2>1 DEF First
  <2> HIDE DEF now
  <2>4. Updated(op, games, now) = SubSeq(games, 1, kept) \o SubSeq(now, kept + 1, Len(now))
    <3>1. ~(After(op, games) <= Len(games))
      BY <1>1, <2>1 DEF After
    <3> QED
      BY <3>1 DEF Updated
  <2> HIDE DEF kept
  <2>5. SubSeq(games, 1, kept) \o SubSeq(now, kept + 1, Len(now)) = now
    <3>1. games \in Seq(Texts \union {Torn}) /\ now \in Seq(Texts \union {Torn}) /\ kept <= Len(now)
      BY <1>1, <2>2, <2>3 DEF Games
    <3>2. \A i \in 1..kept : games[i] = now[i]
      BY <1>1, <2>2, <2>3
    <3> QED
      BY ONLY <2>3, <3>1, <3>2, Spliced
  <2> QED
    BY <2>4, <2>5 DEF now
<1>3. CASE op \in Replaces
  <2>1. /\ op.kind = "replace" /\ op.text \in Texts /\ op.n \in 1..Len(games)
        /\ op.kind # "append" /\ op.kind # "delete"
    BY <1>3, OpKinds DEF Fits, Appends
  <2>2. /\ Len(now) = Len(games)
        /\ \A i \in 1..Len(games) : i # op.n => now[i] = games[i]
    BY <1>1, <2>1 DEF Edited, Games
  <2>3. kept \in Nat /\ kept < op.n /\ kept <= Len(games)
    BY <1>1, <2>1 DEF First
  <2>4. Updated(op, games, now) =
            SubSeq(games, 1, kept) \o
                IF op.n + 1 <= Len(games)
                THEN SubSeq(now, kept + 1, op.n) \o SubSeq(games, op.n + 1, Len(games))
                ELSE SubSeq(now, kept + 1, Len(now))
    <3>1. (op.n + 1) - 1 = op.n
      BY <2>1
    <3> QED
      BY <1>1, <2>1, <2>2, <3>1 DEF Updated, First, After, Moved
  <2> HIDE DEF now, kept
  <2>5. ASSUME op.n + 1 <= Len(games)
        PROVE  SubSeq(now, kept + 1, op.n) \o SubSeq(games, op.n + 1, Len(games))
                   = SubSeq(now, kept + 1, Len(now))
    <3> DEFINE rest == SubSeq(games, op.n + 1, Len(games))
    <3>1. op.n \in Nat /\ op.n <= Len(games) /\ kept <= op.n
      BY <1>1, <2>1, <2>3
    <3>2. /\ rest \in Games /\ Len(rest) = Len(games) - op.n
          /\ \A i \in 1..(Len(games) - op.n) : rest[i] = games[op.n + i]
      BY <1>1, <3>1, PartAfter DEF Games
    <3> HIDE DEF rest
    <3>3. op.n + Len(rest) = Len(now)
      BY <1>1, <2>2, <3>1, <3>2
    <3>4. ASSUME NEW j \in (op.n + 1)..Len(now)
          PROVE  now[j] = rest[j - op.n]
      <4>1. /\ j \in 1..Len(games) /\ j # op.n
            /\ j - op.n \in 1..(Len(games) - op.n) /\ op.n + (j - op.n) = j
        BY <1>1, <2>1, <2>2
      <4> QED
        BY <2>2, <3>2, <4>1
    <3> QED
      BY <1>1, <2>3, <3>1, <3>2, <3>3, <3>4, Rejoined DEF Games, rest
  <2>6. SubSeq(games, 1, kept) \o SubSeq(now, kept + 1, Len(now)) = now
    <3>1. \A i \in 1..kept : games[i] = now[i]
      BY <1>1, <2>1, <2>2, <2>3
    <3> QED
      BY <1>1, <2>2, <2>3, <3>1, Spliced DEF Games
  <2> QED
    BY <2>4, <2>5, <2>6 DEF now
<1>4. CASE op \in Deletes
  <2>1. /\ op.kind = "delete" /\ op.n \in 1..Len(games)
        /\ op.kind # "append" /\ op.kind # "replace"
    BY <1>4, OpKinds DEF Fits, Appends
  <2>2. /\ Len(now) = Len(games) - 1
        /\ \A i \in 1..(op.n - 1) : now[i] = games[i]
        /\ \A i \in op.n..(Len(games) - 1) : now[i] = games[i + 1]
    <3>1. CASE op.n < Len(games)
      <4>1. now = Without(games, op.n)
        BY <2>1, <3>1 DEF Edited
      <4> QED
        BY <2>1, <4>1, WithoutGame DEF Games
    <3>2. CASE op.n = Len(games)
      <4>1. now = SubSeq(games, 1, op.n - 1)
        BY <1>1, <2>1, <3>2 DEF Edited
      <4>2. op.n - 1 \in Nat /\ op.n - 1 <= Len(games) /\ op.n..(Len(games) - 1) = {}
        BY <1>1, <2>1, <3>2
      <4>3. /\ Len(now) = op.n - 1
            /\ \A i \in 1..(op.n - 1) : now[i] = games[i]
        <5> DEFINE k == op.n - 1
        <5>1. k \in Nat /\ k <= Len(games) /\ now = SubSeq(games, 1, k)
          BY <4>1, <4>2
        <5> HIDE DEF k
        <5>2. Len(now) = k /\ \A i \in 1..k : now[i] = games[i]
          BY <1>1, <5>1, PartOf DEF Games
        <5> QED
          BY <5>2 DEF k
      <4> QED
        BY <3>2, <4>2, <4>3
    <3> QED
      BY <1>1, <2>1, <3>1, <3>2
  <2>3. kept \in Nat /\ kept < op.n /\ kept <= Len(games) /\ kept <= op.n - 1
    BY <1>1, <2>1 DEF First
  <2>4. Updated(op, games, now) =
            SubSeq(games, 1, kept) \o
                IF op.n + 1 <= Len(games)
                THEN SubSeq(now, kept + 1, op.n - 1) \o SubSeq(games, op.n + 1, Len(games))
                ELSE SubSeq(now, kept + 1, Len(now))
    <3>1. (op.n + 1) - 1 = op.n /\ (op.n + 1 <= Len(games) => op.n <= Len(now))
      BY <1>1, <2>1, <2>2
    <3> QED
      BY <1>1, <2>1, <3>1 DEF Updated, First, After, Moved
  <2> HIDE DEF now, kept
  <2>5. ASSUME op.n + 1 <= Len(games)
        PROVE  SubSeq(now, kept + 1, op.n - 1) \o SubSeq(games, op.n + 1, Len(games))
                   = SubSeq(now, kept + 1, Len(now))
    <3> DEFINE rest == SubSeq(games, op.n + 1, Len(games))
    <3>1. op.n \in Nat /\ op.n - 1 \in Nat /\ op.n <= Len(games)
      BY <1>1, <2>1
    <3>2. /\ rest \in Games /\ Len(rest) = Len(games) - op.n
          /\ \A i \in 1..(Len(games) - op.n) : rest[i] = games[op.n + i]
      BY <1>1, <3>1, PartAfter DEF Games
    <3> HIDE DEF rest
    <3>3. (op.n - 1) + Len(rest) = Len(now)
      BY <1>1, <2>2, <3>1, <3>2
    <3>4. ASSUME NEW j \in ((op.n - 1) + 1)..Len(now)
          PROVE  now[j] = rest[j - (op.n - 1)]
      <4>1. /\ j \in op.n..(Len(games) - 1)
            /\ j - (op.n - 1) \in 1..(Len(games) - op.n) /\ op.n + (j - (op.n - 1)) = j + 1
        BY <1>1, <2>1, <2>2
      <4> QED
        BY <2>2, <3>2, <4>1
    <3> QED
      BY <1>1, <2>3, <3>1, <3>2, <3>3, <3>4, Rejoined DEF Games, rest
  <2>6. SubSeq(games, 1, kept) \o SubSeq(now, kept + 1, Len(now)) = now
    <3>1. \A i \in 1..kept : games[i] = now[i]
      BY <1>1, <2>1, <2>2, <2>3
    <3>2. kept <= Len(now)
      BY <1>1, <2>1, <2>2, <2>3
    <3> QED
      BY <1>1, <2>3, <3>1, <3>2, Spliced DEF Games
  <2> QED
    BY <2>4, <2>5, <2>6 DEF now
<1> QED
  BY <1>2, <1>3, <1>4 DEF Ops
-----------------------------------------------------------------------------
(* The inductive invariant.                                                *)

OneInside == \A c, d \in Clients : Inside(c) /\ Inside(d) => c = d

(* No generation lies ahead of the file's last.                            *)
HeadsInPast == \A e \in Entries : head[e] # None => head[e].stamp <= clock
SlotsInPast == \A e \in Entries : slot[e] # None => slot[e].gen \in 1..clock
JobsInPast ==
    /\ \A i \in 1..Len(jobs) : jobs[i].gen \in 1..clock
    /\ reading # None => reading.gen \in 1..clock
PageInPast(c) ==
    /\ known[c].gen <= clock
    /\ ~At(c, {"idle"}) => client[c].gen <= clock /\ client[c].new <= clock
    /\ At(c, Opening) => client[c].look \in 1..clock
InPast == HeadsInPast /\ SlotsInPast /\ JobsInPast /\ \A c \in Clients : PageInPast(c)

BuildIsTrue == reading # None => IsTrue(reading.games, reading.gen)

(* Until the index is found damaged, a write names the generation its page *)
(* knows, and a game it knows of.                                          *)
Named(c) ==
    (At(c, Opening \union Writing) /\ client[c].op # None /\ client[c].gen # 0) =>
        client[c].gen = known[c].gen /\ Fits(client[c].op, known[c].games)

(* What the file holds, once the write of a page is done.                  *)
Result(c) == Edited(client[c].op, known[c].games, known[c].games)

Done    == {"stamped", "updating", "installing"}
Planned == {"planned", "tearing", "copying", "copied", "swapping", "written"} \union Done

(* The index a write edits by is that of the file it holds.                *)
IndexFits(c) ==
    /\ At(c, {"opened", "held", "damaged"} \union Planned) => client[c].gen # 0
    /\ At(c, {"opened", "held"}) => IsTrue(client[c].games, client[c].gen)
    /\ At(c, {"held"}) => client[c].games = None \/ Fits(client[c].op, client[c].games)
    /\ At(c, Planned) => /\ client[c].games # None /\ Fits(client[c].op, client[c].games)
                         /\ ~raced => client[c].games = known[c].games
    /\ (At(c, {"planned", "copying"}) /\ Present = client[c].gen) =>
           NeighboursFound(client[c].op, client[c].games, file.games)
    /\ At(c, {"tearing"}) => client[c].op \in Appends
    /\ At(c, Done) => client[c].new # 0

(* The file is at each step of a write as far as the write has come.       *)
FileFits(c) ==
    ~raced =>
        /\ (At(c, {"planned"}) /\ client[c].op \in Appends) =>
               Present = client[c].gen /\ client[c].new = client[c].gen
        /\ At(c, {"tearing"}) => /\ file # None /\ file.gen = client[c].new
                                 /\ file.games = Append(known[c].games, Torn)
        /\ (At(c, {"copied"}) /\ Present = client[c].gen) => temp \in {None, Result(c)}
        /\ At(c, {"swapping"}) => Present = client[c].gen /\ temp \in {None, Result(c)}
        /\ At(c, {"written"}) => file # None /\ file.games = Result(c)
        /\ At(c, Done) => IsTrue(Result(c), client[c].new)

WriteFits(c) == Named(c) /\ IndexFits(c) /\ FileFits(c)

Truth ==
    /\ IndexIsTrue /\ KnownIsTrue /\ BuildIsTrue
    /\ \A c \in Clients : WriteFits(c)

IInv == TypeOK /\ OneInside /\ InPast /\ Truth
-----------------------------------------------------------------------------
(* Type correctness.                                                       *)

USE MaxWritesAssumption, MaxTroubleAssumption, NoneAssumption, PathsOfAssumption

Requests == {AtRest} \union Reads \union Writes

(* What a request is at each of its steps.                                 *)
LEMMA AtStep ==
    ASSUME TypeOK, NEW c \in Clients
    PROVE  /\ At(c, {"idle"}) => client[c] = AtRest
           /\ At(c, Opening) => client[c] \in Reads \union Writes
           /\ At(c, Writing) => client[c] \in Writes
           /\ client[c].pc \in {"idle"} \union Opening \union Writing
BY DEF TypeOK, At, AtRest, Reads, Writes, Opening, Writing, Editing, Holding

LEMMA ReadFields ==
    ASSUME NEW r \in Reads
    PROVE  /\ r.pc \in Opening /\ r.entry \in Entries /\ r.op = None /\ r.gen = 0
           /\ r.look \in Nat /\ r.games = None /\ r.new = 0
BY DEF Reads

LEMMA WriteFields ==
    ASSUME NEW r \in Writes
    PROVE  /\ r.pc \in Opening \union Writing /\ r.entry \in Entries /\ r.op \in Ops
           /\ r.op # None /\ r.gen \in Nat /\ r.look \in Nat
           /\ r.games \in Games \union {None} /\ r.new \in Nat
BY DEF Writes

LEMMA EndsType ==
    ASSUME client \in [Clients -> Requests], NEW c \in Clients, Ends(c)
    PROVE  client' \in [Clients -> Requests]
BY DEF Ends, Requests

LEMMA GoesType ==
    ASSUME TypeOK, NEW c \in Clients, At(c, Writing), NEW pc \in Opening \union Writing,
           Goes(c, pc)
    PROVE  client' \in [Clients -> Requests]
<1>1. client[c] \in Writes
  BY AtStep
<1>2. [client[c] EXCEPT !.pc = pc] \in Writes
  BY <1>1 DEF Writes
<1> QED
  BY <1>2 DEF Goes, TypeOK, Requests

LEMMA PresentType ==
    ASSUME TypeOK
    PROVE  /\ Present \in Nat
           /\ file # None => /\ Present = file.gen /\ file.gen \in 1..clock
                             /\ file.games \in Games
           /\ file = None => Present = 0
           /\ Present # 0 => file # None
BY DEF TypeOK, Present

LEMMA TroubleType ==
    ASSUME TypeOK, Trouble
    PROVE  trouble' \in 0..MaxTrouble
BY DEF TypeOK, Trouble

LEMMA BuildTypes ==
    ASSUME NEW g \in Nat
    PROVE  Idle \in Builds /\ Working \in Builds /\ Failed(g) \in Builds
BY DEF Builds, Idle, Working, Failed

LEMMA SetBuildType ==
    ASSUME TypeOK, NEW e \in Entries, NEW b \in Builds, SetBuild(e, b)
    PROVE  build' \in [Entries -> Builds]
BY DEF TypeOK, SetBuild

LEMMA OpenedType ==
    ASSUME TypeOK, NEW c \in Clients, At(c, Opening), NEW open \in Slots, Opened(c, open)
    PROVE  client' \in [Clients -> Requests] /\ known' \in [Clients -> [gen : Nat, games : Games]]
<1>1. CASE client[c].op = None
  <2>1. client' \in [Clients -> Requests]
    BY <1>1, EndsType DEF Opened, TypeOK, Requests
  <2>2. open.games # None => open \in [gen : Nat, games : Games]
    BY DEF Slots
  <2>3. known \in [Clients -> [gen : Nat, games : Games]]
    BY DEF TypeOK
  <2>4. known' = IF open.games = None THEN known ELSE [known EXCEPT ![c] = open]
    BY <1>1 DEF Opened
  <2>5. known' \in [Clients -> [gen : Nat, games : Games]]
    BY <2>2, <2>3, <2>4
  <2> QED
    BY <2>1, <2>5
<1>2. CASE client[c].op # None
  <2>1. client[c] \in Writes
    BY <1>2, AtStep, ReadFields
  <2>2. open.games \in Games \union {None}
    BY DEF Slots
  <2>3. [client[c] EXCEPT !.pc = "opened", !.games = open.games] \in Writes
    BY <2>1, <2>2 DEF Writes, Writing
  <2>4. client' \in [Clients -> Requests]
    BY <1>2, <2>3, EndsType DEF Opened, TypeOK, Requests
  <2> QED
    BY <1>2, <2>4 DEF Opened, TypeOK
<1> QED
  BY <1>1, <1>2

(* Reads, and what a write does as one.                                    *)
LEMMA LookType ==
    ASSUME TypeOK, NEW c \in Clients, NEW e \in PathsOf[c], Look(c, e)
    PROVE  TypeOK'
<1>1. file.gen \in Nat /\ e \in Entries
  BY PresentType DEF Look
<1>2. [pc |-> "looked", entry |-> e, op |-> None, gen |-> 0, look |-> file.gen,
       games |-> None, new |-> 0] \in Reads
  BY <1>1 DEF Reads, Opening
<1>3. client' \in [Clients -> Requests]
  BY <1>2 DEF Look, TypeOK, Requests
<1> QED
  BY <1>3 DEF Look, TypeOK, Requests, disk, folder, opens, spent

LEMMA LookInSlotType ==
    ASSUME TypeOK, NEW c \in Clients, LookInSlot(c)
    PROVE  TypeOK'
<1> DEFINE e == client[c].entry
           look == IF slot[e] = None \/ OpenAt(e, client[c].look) THEN client[c].look ELSE Present
<1>1. At(c, Opening) /\ client[c] \in Reads \union Writes /\ e \in Entries /\ look \in Nat
  BY AtStep, ReadFields, WriteFields, PresentType DEF LookInSlot, At, Opening
<1> HIDE DEF look
<1>2. CASE Ends(c) /\ known' = known
  BY <1>2, EndsType DEF LookInSlot, TypeOK, Requests, disk, folder, opens, spent
<1>3. CASE OpenAt(e, look) /\ Opened(c, slot[e])
  <2>1. slot[e] \in Slots
    BY <1>1, <1>3 DEF OpenAt, TypeOK
  <2> QED
    BY <1>1, <1>3, <2>1, OpenedType DEF LookInSlot, TypeOK, Requests, disk, folder, opens, spent
<1>4. CASE /\ client' = [client EXCEPT ![c].pc = "opening", ![c].look = look]
           /\ known' = known
  <2>1. [client[c] EXCEPT !.pc = "opening", !.look = look] \in Reads \union Writes
    BY <1>1 DEF Reads, Writes, Opening
  <2>2. client' \in [Clients -> Requests]
    BY <1>4, <2>1 DEF TypeOK, Requests
  <2> QED
    BY <1>4, <2>2 DEF LookInSlot, TypeOK, Requests, disk, folder, opens, spent
<1> QED
  BY <1>2, <1>3, <1>4 DEF LookInSlot, look

LEMMA OpenIndexedType ==
    ASSUME TypeOK, NEW c \in Clients, OpenIndexed(c)
    PROVE  TypeOK'
<1> DEFINE e == client[c].entry
           g == client[c].look
           open == [gen |-> g, games |-> head[e].games]
<1>1. At(c, Opening) /\ e \in Entries /\ g \in Nat
  BY AtStep, ReadFields, WriteFields DEF OpenIndexed, At, Opening
<1>2. head[e] \in Heads
  BY <1>1 DEF OpenIndexed, Opens, TypeOK
<1>3. open \in Slots
  BY <1>1, <1>2 DEF Slots, Heads
<1>4. client' \in [Clients -> Requests] /\ known' \in [Clients -> [gen : Nat, games : Games]]
  BY <1>1, <1>3, OpenedType DEF OpenIndexed
<1>5. slot' \in [Entries -> Slots \union {None}]
  BY <1>3 DEF OpenIndexed, TypeOK
<1>6. build' \in [Entries -> Builds]
  BY <1>1, BuildTypes DEF OpenIndexed, TypeOK
<1> QED
  BY <1>4, <1>5, <1>6 DEF OpenIndexed, TypeOK, Requests, disk, folder, spent

LEMMA OpenOthersType ==
    ASSUME TypeOK, NEW c \in Clients, OpenQueues(c) \/ OpenFails(c) \/ OpenUnready(c)
    PROVE  TypeOK'
<1> DEFINE e == client[c].entry
           g == client[c].look
<1>1. At(c, Opening) /\ e \in Entries /\ g \in Nat
  BY AtStep, ReadFields, WriteFields DEF OpenQueues, OpenFails, OpenUnready, At, Opening
<1>2. client' \in [Clients -> Requests]
  BY EndsType DEF OpenQueues, OpenFails, OpenUnready, TypeOK, Requests
<1>3. CASE OpenQueues(c)
  <2>1. build' \in [Entries -> Builds]
    BY <1>1, <1>3, BuildTypes DEF OpenQueues, TypeOK
  <2>2. [entry |-> e, gen |-> g] \in Jobs
    BY <1>1 DEF Jobs
  <2>3. jobs' \in Seq(Jobs)
    BY <1>3, <2>2 DEF OpenQueues, TypeOK
  <2> QED
    BY <1>2, <1>3, <2>1, <2>3 DEF OpenQueues, TypeOK, Requests, disk, folder, spent
<1>4. CASE OpenFails(c)
  <2>1. build' \in [Entries -> Builds]
    BY <1>1, <1>4, BuildTypes DEF OpenFails, TypeOK
  <2>2. trouble' \in 0..MaxTrouble
    BY <1>4, TroubleType DEF OpenFails
  <2> QED
    BY <1>2, <1>4, <2>1, <2>2 DEF OpenFails, TypeOK, Requests, disk, folder
<1>5. CASE OpenUnready(c)
  BY <1>2, <1>5 DEF OpenUnready, TypeOK, Requests, disk, folder, opens, spent
<1> QED
  BY <1>3, <1>4, <1>5

(* The build of an index.                                                  *)
LEMMA GoneOrFailsType ==
    ASSUME TypeOK, NEW e \in Entries, NEW gone \in BOOLEAN, GoneOrFails(e, gone)
    PROVE  work' \in [Entries -> BOOLEAN] /\ trouble' \in 0..MaxTrouble
<1>1. CASE gone /\ work' = [work EXCEPT ![e] = FALSE] /\ trouble' = trouble
  BY <1>1 DEF TypeOK
<1>2. CASE Trouble /\ work' \in {work, [work EXCEPT ![e] = FALSE]}
  BY <1>2, TroubleType DEF TypeOK
<1> QED
  BY <1>1, <1>2 DEF GoneOrFails

LEMMA BuilderType ==
    ASSUME TypeOK, Builder
    PROVE  TypeOK'
<1>1. reading # None => reading.entry \in Entries /\ reading.gen \in Nat
                        /\ reading.games \in Games \union {None}
  BY DEF TypeOK, Readings
<1>2. CASE BeginBuild
  <2>1. Head(jobs) \in Jobs /\ Tail(jobs) \in Seq(Jobs)
    BY <1>2 DEF BeginBuild, TypeOK
  <2>2. reading' \in Readings
    BY <1>2, <2>1 DEF BeginBuild, Jobs, Readings
  <2> QED
    BY <1>2, <2>1, <2>2 DEF BeginBuild, TypeOK, disk, folder, spent
<1>3. CASE ReadGames
  <2>1. file.games \in Games
    BY <1>3, PresentType DEF ReadGames
  <2>2. reading' \in Readings /\ work' \in [Entries -> BOOLEAN]
    BY <1>1, <1>3, <2>1 DEF ReadGames, TypeOK, Readings
  <2> QED
    BY <1>3, <2>2 DEF ReadGames, TypeOK, disk, spent
<1>4. CASE PublishIndex
  <2>1. Len(reading.games) \in Nat
    BY <1>1, <1>4 DEF PublishIndex, Games
  <2>2. head' \in [Entries -> Heads \union {None}]
    BY <1>1, <1>4, <2>1 DEF PublishIndex, TypeOK, Heads
  <2>3. build' \in [Entries -> Builds]
    BY <1>1, <1>4, BuildTypes, SetBuildType DEF PublishIndex
  <2> QED
    BY <1>4, <2>2, <2>3 DEF PublishIndex, TypeOK, disk, spent
<1>5. CASE BuildFails
  <2>1. build' \in [Entries -> Builds]
    BY <1>1, <1>5, BuildTypes, SetBuildType DEF BuildFails
  <2>2. work' \in [Entries -> BOOLEAN] /\ trouble' \in 0..MaxTrouble
    BY <1>1, <1>5, GoneOrFailsType DEF BuildFails
  <2> QED
    BY <1>5, <2>1, <2>2 DEF BuildFails, TypeOK, disk
<1> QED
  BY <1>2, <1>3, <1>4, <1>5 DEF Builder

(* A write, from its sending to the index of what it left.                 *)
LEMMA SendType ==
    ASSUME TypeOK, NEW c \in Clients, NEW e \in PathsOf[c], Send(c, e)
    PROVE  TypeOK'
<1>1. e \in Entries /\ known[c].gen \in Nat /\ known[c].games \in Games
  BY DEF TypeOK
<1>2. PICK op \in OpsOn(known[c].games) :
          client' = [client EXCEPT ![c] =
              [pc |-> "waiting", entry |-> e, op |-> op, gen |-> known[c].gen, look |-> 0,
               games |-> None, new |-> 0]]
  BY DEF Send
<1>3. op \in Ops
  <2>1. 1..Len(known[c].games) \subseteq Nat \ {0}
    BY <1>1 DEF Games
  <2> QED
    BY <2>1 DEF OpsOn, Ops, Appends, Replaces, Deletes
<1>4. client'[c] \in Writes /\ client' \in [Clients -> Requests]
  BY <1>1, <1>2, <1>3 DEF TypeOK, Writes, Writing, Requests
<1>5. sent' \in 0..MaxWrites
  BY DEF Send, TypeOK
<1> QED
  BY <1>4, <1>5 DEF Send, TypeOK, Requests, disk, folder, opens

LEMMA ReleaseType ==
    ASSUME TypeOK, NEW c \in Clients, At(c, Writing), Release(c)
    PROVE  client' \in [Clients -> Requests] /\ build' \in [Entries -> Builds]
<1>1. client[c].entry \in Entries
  BY AtStep, WriteFields
<1>2. client' \in [Clients -> Requests]
  BY EndsType DEF Release, TypeOK, Requests
<1>3. build' \in [Entries -> Builds]
  BY <1>1, SetBuildType DEF Release, Builds
<1> QED
  BY <1>2, <1>3

(* Of the steps of a write that hold nothing yet, or only let go.          *)
LEMMA WriteBeginsType ==
    ASSUME TypeOK, NEW c \in Clients,
           \/ Enter(c) \/ LookToWrite(c) \/ Decline(c) \/ Hold(c) \/ CheckHeld(c)
           \/ Refuse(c) \/ FindDamaged(c) \/ Forget(c)
    PROVE  TypeOK'
<1>1. At(c, Writing)
  BY DEF Enter, LookToWrite, Decline, Hold, CheckHeld, Refuse, FindDamaged, Forget,
         At, Writing, Editing, Holding
<1>2. client[c] \in Writes /\ client[c].entry \in Entries
  BY <1>1, AtStep, WriteFields
<1>3. Present \in Nat
  BY PresentType
<1>4. Ends(c) => client' \in [Clients -> Requests]
  BY EndsType DEF TypeOK, Requests
<1>5. CASE Enter(c)
  <2>1. client' \in [Clients -> Requests]
    BY <1>1, <1>4, <1>5, GoesType DEF Enter, Writing
  <2> QED
    BY <1>5, <2>1 DEF Enter, TypeOK, Requests, disk, folder, opens, spent
<1>6. CASE LookToWrite(c)
  <2>1. file # None => file.gen \in Nat
    BY PresentType
  <2>2. file # None => [client[c] EXCEPT !.pc = "looked", !.look = file.gen] \in Writes
    BY <1>2, <2>1 DEF Writes, Opening
  <2>3. client' \in [Clients -> Requests]
    BY <1>4, <1>6, <2>2 DEF LookToWrite, TypeOK, Requests
  <2> QED
    BY <1>6, <2>3 DEF LookToWrite, TypeOK, Requests, disk, folder, opens, spent
<1>7. CASE Decline(c)
  BY <1>4, <1>7 DEF Decline, TypeOK, Requests, disk, folder, opens, spent
<1>8. CASE Hold(c)
  <2>1. client' \in [Clients -> Requests]
    BY <1>1, <1>4, <1>8, GoesType DEF Hold, Writing, Editing, Holding
  <2> QED
    BY <1>8, <2>1 DEF Hold, TypeOK, Requests, disk, folder, opens, spent
<1>9. CASE CheckHeld(c)
  <2>1. [client[c] EXCEPT !.pc = "planned", !.new = Present] \in Writes
    BY <1>2, <1>3 DEF Writes, Writing, Editing, Holding
  <2>2. client' \in [Clients -> Requests]
    BY <1>9, <2>1 DEF CheckHeld, TypeOK, Requests
  <2> QED
    BY <1>9, <2>2 DEF CheckHeld, TypeOK, Requests, disk, folder, opens, spent
<1>10. CASE Refuse(c)
  <2>1. client' \in [Clients -> Requests] /\ build' \in [Entries -> Builds]
    BY <1>1, <1>10, ReleaseType DEF Refuse
  <2> QED
    BY <1>10, <2>1 DEF Refuse, TypeOK, Requests, disk, folder, spent
<1>11. CASE FindDamaged(c)
  <2>1. client' \in [Clients -> Requests]
    BY <1>1, <1>11, GoesType DEF FindDamaged, Writing
  <2>2. build' \in [Entries -> Builds]
    BY <1>2, <1>11, SetBuildType DEF FindDamaged, Builds
  <2>3. head' \in [Entries -> Heads \union {None}]
    BY <1>2, <1>11 DEF FindDamaged, TypeOK
  <2> QED
    BY <1>11, <2>1, <2>2, <2>3 DEF FindDamaged, TypeOK, Requests, disk, spent
<1>12. CASE Forget(c)
  <2>1. [client[c] EXCEPT !.pc = "entered", !.gen = 0] \in Writes
    BY <1>2 DEF Writes, Writing
  <2>2. client' \in [Clients -> Requests]
    BY <1>12, <2>1 DEF Forget, TypeOK, Requests
  <2>3. slot' \in [Entries -> Slots \union {None}]
    BY <1>2, <1>12 DEF Forget, TypeOK
  <2> QED
    BY <1>12, <2>2, <2>3 DEF Forget, TypeOK, Requests, disk, folder, spent
<1> QED
  BY <1>5, <1>6, <1>7, <1>8, <1>9, <1>10, <1>11, <1>12

(* A step leaves the file, takes it away, or gives it a new generation.    *)
Same    == UNCHANGED <<file, clock>>
Renewed ==
    \/ file' = None /\ clock' = clock
    \/ file' # None /\ file'.gen = clock + 1 /\ clock' = clock + 1

LEMMA PutType ==
    ASSUME TypeOK, NEW games \in Games, Put(games)
    PROVE  /\ clock' \in Nat \ {0} /\ clock' = clock + 1
           /\ file' \in [gen : 1..clock', games : Games] /\ file'.games = games
           /\ Renewed /\ file' # None /\ ~Same
<1>1. clock' = clock + 1 /\ clock' \in Nat \ {0} /\ clock + 1 \in 1..clock'
  BY DEF Put, TypeOK
<1>2. file' = [gen |-> clock + 1, games |-> games]
  BY DEF Put
<1>3. file' \in [gen : Nat, games : Games]
  BY <1>1, <1>2 DEF TypeOK
<1>4. file'.gen = clock + 1 /\ file' # None /\ clock' # clock
  BY <1>1, <1>2, <1>3 DEF TypeOK
<1> QED
  BY <1>1, <1>2, <1>3, <1>4 DEF Renewed, Same

LEMMA SameFileType ==
    ASSUME TypeOK, Same
    PROVE  clock' \in Nat \ {0} /\ file' \in [gen : 1..clock', games : Games] \union {None}
BY DEF TypeOK, Same

(* What a write that failed part-way leaves, or one that ends.             *)
LEMMA UntornType ==
    ASSUME TypeOK, NEW c \in Clients, file # None
    PROVE  Untorn(c) \in Games
<1>1. file.games \in Games
  BY PresentType
<1>2. Len(file.games) \in Nat
  BY <1>1 DEF Games
<1>3. Len(file.games) - 1 \in Int /\ Len(file.games) - 1 <= Len(file.games)
  BY <1>2
<1> QED
  BY <1>1, <1>3, PartOf DEF Untorn, Games

LEMMA AppendedGames ==
    ASSUME NEW op \in Appends, NEW old, NEW now \in Games
    PROVE  Edited(op, old, now) \in Games /\ Edited(op, old, now) = Append(now, op.text)
BY DEF Edited, Appends, Games

LEMMA LeavesType ==
    ASSUME TypeOK, NEW c \in Clients, NEW games, Leaves(c, games),
           file # None => games \in Games
    PROVE  /\ clock' \in Nat \ {0} /\ file' \in [gen : 1..clock', games : Games] \union {None}
           /\ IF file # None /\ Present = client[c].new
              THEN Renewed /\ ~Same /\ file' # None /\ file'.games = games ELSE Same
<1>1. CASE file # None /\ Present = client[c].new
  BY <1>1, PutType DEF Leaves
<1>2. CASE ~(file # None /\ Present = client[c].new)
  <2>1. Same
    BY <1>2 DEF Leaves, Same
  <2> QED
    BY <1>2, <2>1, SameFileType
<1> QED
  BY <1>1, <1>2

LEMMA WriteAppendsType ==
    ASSUME TypeOK, NEW c \in Clients, IndexFits(c), Tear(c) \/ Appended(c) \/ CutBack(c)
    PROVE  TypeOK' /\ (Same \/ Renewed)
<1>1. At(c, Writing)
  BY DEF Tear, Appended, CutBack, At, Writing, Editing, Holding
<1>2. client[c] \in Writes
  BY <1>1, AtStep
<1>3. CASE Tear(c)
  <2>1. file # None => Append(file.games, Torn) \in Games
    BY PresentType DEF Games
  <2>2. /\ clock' \in Nat \ {0} /\ file' \in [gen : 1..clock', games : Games] \union {None}
        /\ Same \/ Renewed
    BY <1>3, <2>1, LeavesType DEF Tear
  <2>3. (IF file' = file THEN 0 ELSE clock') \in Nat
    BY <2>2
  <2>4. \A n \in Nat : [client[c] EXCEPT !.pc = "tearing", !.new = n] \in Writes
    BY <1>2 DEF Writes, Writing, Editing, Holding
  <2>5. client' \in [Clients -> Requests]
    BY <1>3, <2>3, <2>4 DEF Tear, TypeOK, Requests
  <2> QED
    BY <1>3, <2>2, <2>5 DEF Tear, TypeOK, Requests, folder, opens, spent
<1>4. CASE Appended(c)
  <2>1. client[c].op \in Appends
    BY <1>4 DEF Appended, IndexFits
  <2>2. file # None => Edited(client[c].op, client[c].games, Untorn(c)) \in Games
    BY <2>1, UntornType, AppendedGames
  <2>3. /\ clock' \in Nat \ {0} /\ file' \in [gen : 1..clock', games : Games] \union {None}
        /\ Same \/ Renewed
    BY <1>4, <2>2, LeavesType DEF Appended
  <2>4. client' \in [Clients -> Requests]
    BY <1>1, <1>4, GoesType DEF Appended, Writing, Editing
  <2> QED
    BY <1>4, <2>3, <2>4 DEF Appended, TypeOK, Requests, folder, opens, spent
<1>5. CASE CutBack(c)
  <2>1. /\ clock' \in Nat \ {0} /\ file' \in [gen : 1..clock', games : Games] \union {None}
        /\ Same \/ Renewed
    BY <1>5, UntornType, LeavesType, SameFileType DEF CutBack, Same
  <2>2. client' \in [Clients -> Requests] /\ build' \in [Entries -> Builds]
    BY <1>1, <1>5, ReleaseType DEF CutBack
  <2>3. trouble' \in 0..MaxTrouble
    BY <1>5, TroubleType DEF CutBack
  <2> QED
    BY <1>5, <2>1, <2>2, <2>3 DEF CutBack, TypeOK, Requests, folder
<1> QED
  BY <1>3, <1>4, <1>5

LEMMA WriteCopiesType ==
    ASSUME TypeOK, NEW c \in Clients, IndexFits(c),
           \/ CreateTemp(c) \/ TempTaken(c) \/ Copy(c) \/ CopyFails(c) \/ LookOnceMore(c)
           \/ ChangedMeanwhile(c) \/ Rename(c) \/ NothingToRename(c)
    PROVE  TypeOK' /\ (Same \/ Renewed)
<1>1. At(c, Writing)
  BY DEF CreateTemp, TempTaken, Copy, CopyFails, LookOnceMore, ChangedMeanwhile, Rename,
         NothingToRename, At, Writing, Editing, Holding
<1>2. client[c] \in Writes
  BY <1>1, AtStep
<1>3. CASE CreateTemp(c)
  <2>1. <<Torn>> \in Games
    BY DEF Games
  <2>2. client' \in [Clients -> Requests]
    BY <1>1, <1>3, GoesType DEF CreateTemp, Writing, Editing, Holding
  <2> QED
    BY <1>3, <2>1, <2>2 DEF CreateTemp, TypeOK, Requests, folder, opens, spent, Same
<1>4. CASE TempTaken(c)
  <2>1. client' \in [Clients -> Requests] /\ build' \in [Entries -> Builds]
    BY <1>1, <1>4, ReleaseType DEF TempTaken
  <2> QED
    BY <1>4, <2>1 DEF TempTaken, TypeOK, Requests, disk, folder, spent, Same
<1>5. CASE Copy(c)
  <2>1. ASSUME temp # None, Present = client[c].gen
        PROVE  Edited(client[c].op, client[c].games, file.games) \in Games
    <3>1. /\ client[c].gen # 0 /\ client[c].games # None
          /\ Fits(client[c].op, client[c].games)
          /\ NeighboursFound(client[c].op, client[c].games, file.games)
      BY <1>5, <2>1 DEF Copy, IndexFits, At, Planned
    <3>2. client[c].op \in Ops /\ client[c].games \in Games /\ file.games \in Games
      BY <1>2, <2>1, <3>1, WriteFields, PresentType
    <3> QED
      BY <3>1, <3>2, EditedType
  <2>2. temp' \in Games \union {None}
    BY <1>5, <2>1 DEF Copy, TypeOK
  <2>3. client' \in [Clients -> Requests]
    BY <1>1, <1>5, GoesType DEF Copy, Writing, Editing
  <2> QED
    BY <1>5, <2>2, <2>3 DEF Copy, TypeOK, Requests, folder, opens, spent, Same
<1>6. CASE CopyFails(c)
  <2>1. client' \in [Clients -> Requests] /\ build' \in [Entries -> Builds]
    BY <1>1, <1>6, ReleaseType DEF CopyFails
  <2>2. trouble' \in 0..MaxTrouble
    BY <1>6, TroubleType DEF CopyFails
  <2> QED
    BY <1>6, <2>1, <2>2 DEF CopyFails, TypeOK, Requests, folder, Same
<1>7. CASE LookOnceMore(c)
  <2>1. client' \in [Clients -> Requests]
    BY <1>1, <1>7, GoesType DEF LookOnceMore, Writing, Editing
  <2> QED
    BY <1>7, <2>1 DEF LookOnceMore, TypeOK, Requests, disk, folder, opens, spent, Same
<1>8. CASE Rename(c)
  <2>1. temp \in Games
    BY <1>8 DEF Rename, TypeOK
  <2>2. /\ clock' \in Nat \ {0} /\ file' \in [gen : 1..clock', games : Games] \union {None}
        /\ Renewed
    BY <1>8, <2>1, PutType DEF Rename
  <2>3. client' \in [Clients -> Requests]
    BY <1>1, <1>8, GoesType DEF Rename, Writing, Editing
  <2> QED
    BY <1>8, <2>2, <2>3 DEF Rename, TypeOK, Requests, folder, opens, spent, Same
<1>9. CASE ChangedMeanwhile(c) \/ NothingToRename(c)
  <2>1. RemoveTemp(c) /\ trouble' = trouble
    BY <1>9 DEF ChangedMeanwhile, NothingToRename
  <2>2. client' \in [Clients -> Requests] /\ build' \in [Entries -> Builds]
    BY <1>1, <2>1, ReleaseType DEF RemoveTemp
  <2> QED
    BY <2>1, <2>2 DEF RemoveTemp, TypeOK, Requests, folder, Same
<1> QED
  BY <1>3, <1>4, <1>5, <1>6, <1>7, <1>8, <1>9

(* What a page is told after its write.                                    *)
LEMMA TellType ==
    ASSUME TypeOK, NEW c \in Clients, WriteFits(c), At(c, Done), Tell(c)
    PROVE  /\ Result(c) \in Games
           /\ known' = [known EXCEPT ![c] = [gen |-> client[c].new, games |-> Result(c)]]
           /\ known' \in [Clients -> [gen : Nat, games : Games]]
<1>1. At(c, Writing) /\ At(c, Planned)
  BY DEF At, Done, Planned, Writing, Editing
<1>2. client[c] \in Writes /\ client[c].op \in Ops /\ client[c].op # None /\ client[c].new \in Nat
  BY <1>1, AtStep, WriteFields
<1>3. client[c].gen # 0
  BY <1>1 DEF WriteFits, IndexFits, At
<1>4. Fits(client[c].op, known[c].games)
  BY <1>1, <1>2, <1>3 DEF WriteFits, Named, At
<1>5. known[c].games \in Games
  BY DEF TypeOK
<1>6. Result(c) \in Games
  BY <1>2, <1>4, <1>5, EditedSameType DEF Result
<1>7. known' = [known EXCEPT ![c] = [gen |-> client[c].new, games |-> Result(c)]]
  BY DEF Tell, Result
<1> QED
  BY <1>2, <1>6, <1>7 DEF TypeOK

LEMMA WriteIndexesType ==
    ASSUME TypeOK, NEW c \in Clients, WriteFits(c),
           LookAfter(c) \/ BeginUpdate(c) \/ EndUpdate(c) \/ UpdateFails(c) \/ Install(c)
    PROVE  TypeOK'
<1>1. At(c, Writing) /\ At(c, Planned)
  BY DEF LookAfter, BeginUpdate, EndUpdate, UpdateFails, Install, At, Writing, Editing, Planned, Done
<1>2. /\ client[c] \in Writes /\ client[c].entry \in Entries /\ client[c].op \in Ops
      /\ client[c].new \in Nat /\ client[c].games \in Games \union {None}
  BY <1>1, AtStep, WriteFields
<1>3. CASE LookAfter(c)
  <2>1. CASE file = None
    <3>1. client' \in [Clients -> Requests] /\ build' \in [Entries -> Builds]
      BY <1>1, <1>3, <2>1, ReleaseType DEF LookAfter
    <3> QED
      BY <1>3, <3>1 DEF LookAfter, TypeOK, Requests, disk, folder, spent
  <2>2. CASE file # None
    <3>1. file.gen \in Nat
      BY <2>2, PresentType
    <3>2. [client[c] EXCEPT !.pc = "stamped", !.new = file.gen] \in Writes
      BY <1>2, <3>1 DEF Writes, Writing, Editing
    <3>3. client' \in [Clients -> Requests]
      BY <1>3, <2>2, <3>2 DEF LookAfter, TypeOK, Requests
    <3> QED
      BY <1>3, <2>2, <3>3 DEF LookAfter, TypeOK, Requests, disk, folder, spent
  <2> QED
    BY <2>1, <2>2
<1>4. CASE BeginUpdate(c)
  <2>1. client' \in [Clients -> Requests]
    BY <1>1, <1>4, GoesType DEF BeginUpdate, Writing, Editing
  <2>2. work' \in [Entries -> BOOLEAN]
    BY <1>4 DEF BeginUpdate, TypeOK
  <2> QED
    BY <1>4, <2>1, <2>2 DEF BeginUpdate, TypeOK, Requests, disk, opens, spent
<1>5. CASE EndUpdate(c)
  <2>1. file.games \in Games
    BY <1>5, PresentType DEF EndUpdate
  <2>2. client[c].games \in Games /\ Fits(client[c].op, client[c].games)
    BY <1>1, <1>2 DEF WriteFits, IndexFits
  <2>3. Updated(client[c].op, client[c].games, file.games) \in Games
    BY <1>2, <2>1, <2>2, UpdatedType
  <2>4. PICK games \in {Updated(client[c].op, client[c].games, file.games), file.games} :
            head' = [head EXCEPT ![client[c].entry] =
                [stamp |-> client[c].new, len |-> Len(file.games), games |-> games]]
    BY <1>5 DEF EndUpdate
  <2>5. games \in Games /\ Len(file.games) \in Nat
    BY <2>1, <2>3 DEF Games
  <2>6. head' \in [Entries -> Heads \union {None}]
    BY <1>2, <2>4, <2>5 DEF TypeOK, Heads
  <2>7. client' \in [Clients -> Requests]
    BY <1>1, <1>5, GoesType DEF EndUpdate, Writing
  <2>8. build' \in [Entries -> Builds]
    BY <1>2, <1>5, SetBuildType DEF EndUpdate, Builds
  <2>9. work' \in [Entries -> BOOLEAN]
    BY <1>5 DEF EndUpdate, TypeOK
  <2> QED
    BY <1>5, <2>6, <2>7, <2>8, <2>9 DEF EndUpdate, TypeOK, Requests, disk, spent
<1>6. CASE UpdateFails(c)
  <2>1. known' \in [Clients -> [gen : Nat, games : Games]]
    BY <1>6, TellType DEF UpdateFails, At, Done
  <2>2. client' \in [Clients -> Requests] /\ build' \in [Entries -> Builds]
    BY <1>1, <1>6, ReleaseType DEF UpdateFails
  <2>3. work' \in [Entries -> BOOLEAN] /\ trouble' \in 0..MaxTrouble
    BY <1>2, <1>6, GoneOrFailsType DEF UpdateFails
  <2> QED
    BY <1>6, <2>1, <2>2, <2>3 DEF UpdateFails, TypeOK, Requests, disk
<1>7. CASE Install(c)
  <2>1. known' \in [Clients -> [gen : Nat, games : Games]]
    BY <1>7, TellType DEF Install, At, Done
  <2>2. client' \in [Clients -> Requests]
    BY <1>7, EndsType DEF Install, TypeOK, Requests
  <2>3. Opens(client[c].entry, client[c].new) => head[client[c].entry].games \in Games \union {None}
    BY <1>2 DEF Opens, TypeOK, Heads
  <2>4. Opens(client[c].entry, client[c].new) =>
            [gen |-> client[c].new, games |-> head[client[c].entry].games] \in Slots
    BY <1>2, <2>3 DEF Slots
  <2>5. slot' \in [Entries -> Slots \union {None}]
    BY <1>2, <1>7, <2>4 DEF Install, TypeOK
  <2> QED
    BY <1>7, <2>1, <2>2, <2>5 DEF Install, TypeOK, Requests, disk, folder, spent
<1> QED
  BY <1>3, <1>4, <1>5, <1>6, <1>7

(* What other programs do.                                                 *)
LEMMA OpsOnFit ==
    ASSUME NEW games \in Games, NEW op \in OpsOn(games)
    PROVE  op \in Ops /\ Fits(op, games)
<1>1. 1..Len(games) \subseteq Nat \ {0}
  BY DEF Games
<1> QED
  BY <1>1 DEF OpsOn, Ops, Fits, Appends, Replaces, Deletes

LEMMA ForeignType ==
    ASSUME TypeOK, ChangeGames \/ ReplaceFile
    PROVE  TypeOK' /\ Renewed
<1>1. trouble' \in 0..MaxTrouble
  BY TroubleType DEF ChangeGames, ReplaceFile
<1>2. raced' \in BOOLEAN
  BY DEF ChangeGames, ReplaceFile, Races
<1>3. /\ clock' \in Nat \ {0} /\ file' \in [gen : 1..clock', games : Games] \union {None}
      /\ Renewed
  <2>1. CASE ChangeGames
    <3>1. file.games \in Games
      BY <2>1, PresentType DEF ChangeGames
    <3>2. PICK op \in OpsOn(file.games) : Put(Edited(op, file.games, file.games))
      BY <2>1 DEF ChangeGames
    <3>3. Edited(op, file.games, file.games) \in Games
      BY <3>1, OpsOnFit, EditedSameType
    <3> QED
      BY <3>2, <3>3, PutType
  <2>2. CASE ReplaceFile
    <3>1. CASE file' = None /\ clock' = clock
      BY <3>1 DEF TypeOK, Renewed
    <3>2. CASE \E t \in Texts : Put(<<t>>)
      <4>1. PICK t \in Texts : Put(<<t>>)
        BY <3>2
      <4>2. <<t>> \in Games
        BY DEF Games
      <4> QED
        BY <4>1, <4>2, PutType
    <3> QED
      BY <2>2, <3>1, <3>2 DEF ReplaceFile
  <2> QED
    BY <2>1, <2>2
<1> QED
  BY <1>1, <1>2, <1>3 DEF ChangeGames, ReplaceFile, Others, TypeOK, Requests

LEMMA SurroundingsType ==
    ASSUME TypeOK,
           Restart \/ \E e \in Entries : \/ DamageHead(e) \/ List(e) \/ Unlist(e)
                                         \/ Sweep(e) \/ MinutePasses(e)
    PROVE  TypeOK'
<1>1. CASE Restart
  <2>1. trouble' \in 0..MaxTrouble
    BY <1>1, TroubleType DEF Restart
  <2>2. client' \in [Clients -> Requests]
    BY <1>1 DEF Restart, Requests
  <2>3. build' \in [Entries -> Builds]
    BY <1>1 DEF Restart, Builds
  <2> QED
    BY <1>1, <2>1, <2>2, <2>3 DEF Restart, TypeOK, Requests, disk, folder
<1>2. ASSUME NEW e \in Entries, DamageHead(e)
      PROVE  TypeOK'
  <2>1. trouble' \in 0..MaxTrouble
    BY <1>2, TroubleType DEF DamageHead
  <2>2. head[e] \in Heads
    BY <1>2 DEF DamageHead, TypeOK
  <2>3. [head[e] EXCEPT !.games = None] \in Heads
    BY <2>2 DEF Heads
  <2>4. head' \in [Entries -> Heads \union {None}]
    BY <1>2, <2>3 DEF DamageHead, TypeOK
  <2> QED
    BY <1>2, <2>1, <2>4 DEF DamageHead, TypeOK, Requests, disk, opens
<1>3. ASSUME NEW e \in Entries, List(e)
      PROVE  TypeOK'
  <2>1. trouble' \in 0..MaxTrouble
    <3>1. CASE trouble' = trouble
      BY <3>1 DEF TypeOK
    <3>2. CASE Trouble
      BY <3>2, TroubleType
    <3> QED
      BY <1>3, <3>1, <3>2 DEF List
  <2>2. temp' \in Games \union {None}
    BY <1>3 DEF List, TypeOK
  <2>3. listed' \in [Entries -> {"new", "listed", "removed"}]
    BY <1>3 DEF List, TypeOK
  <2> QED
    BY <1>3, <2>1, <2>2, <2>3 DEF List, TypeOK, Requests, folder, opens
<1>4. ASSUME NEW e \in Entries, Unlist(e)
      PROVE  TypeOK'
  <2>1. trouble' \in 0..MaxTrouble
    BY <1>4, TroubleType DEF Unlist
  <2>2. listed' \in [Entries -> {"new", "listed", "removed"}]
    BY <1>4 DEF Unlist, TypeOK
  <2> QED
    BY <1>4, <2>1, <2>2 DEF Unlist, TypeOK, Requests, disk, folder, opens
<1>5. ASSUME NEW e \in Entries, Sweep(e)
      PROVE  TypeOK'
  <2>1. head' \in [Entries -> Heads \union {None}] /\ work' \in [Entries -> BOOLEAN]
    BY <1>5 DEF Sweep, TypeOK
  <2> QED
    BY <1>5, <2>1 DEF Sweep, TypeOK, Requests, disk, opens, spent
<1>6. ASSUME NEW e \in Entries, MinutePasses(e)
      PROVE  TypeOK'
  <2>1. build' \in [Entries -> Builds]
    BY <1>6, SetBuildType DEF MinutePasses, Builds
  <2> QED
    BY <1>6, <2>1 DEF MinutePasses, TypeOK, Requests, disk, folder, spent
<1> QED
  BY <1>1, <1>2, <1>3, <1>4, <1>5, <1>6

LEMMA InitType ==
    ASSUME Init
    PROVE  TypeOK
<1>1. file \in [gen : 1..clock, games : Games]
  BY DEF Init, Games
<1>2. client \in [Clients -> Requests] /\ build \in [Entries -> Builds]
  BY DEF Init, Requests, Builds
<1>3. known \in [Clients -> [gen : Nat, games : Games]]
  BY DEF Init, Unread, Games
<1>4. sent \in 0..MaxWrites /\ trouble \in 0..MaxTrouble
  BY DEF Init
<1>5. jobs \in Seq(Jobs) /\ reading \in Readings \union {None} /\ temp \in Games \union {None}
  BY DEF Init
<1>6. /\ head \in [Entries -> Heads \union {None}] /\ work \in [Entries -> BOOLEAN]
      /\ listed \in [Entries -> {"new", "listed", "removed"}]
      /\ slot \in [Entries -> Slots \union {None}] /\ clock \in Nat \ {0}
  BY DEF Init
<1>7. raced \in BOOLEAN
  BY DEF Init
<1> QED
  BY <1>1, <1>2, <1>3, <1>4, <1>5, <1>6, <1>7 DEF TypeOK, Requests

LEMMA StepType ==
    ASSUME TypeOK, \A c \in Clients : WriteFits(c), [Next]_vars
    PROVE  TypeOK'
<1>1. CASE UNCHANGED vars
  BY <1>1 DEF vars, TypeOK, Requests
<1>2. ASSUME NEW c \in Clients, Read(c)
      PROVE  TypeOK'
  BY <1>2, LookType, LookInSlotType, OpenIndexedType, OpenOthersType DEF Read
<1>3. ASSUME NEW c \in Clients, Write(c)
      PROVE  TypeOK'
  <2>1. WriteFits(c) /\ IndexFits(c)
    BY DEF WriteFits
  <2> QED
    BY <1>3, <2>1, WriteBeginsType, WriteAppendsType, WriteCopiesType, WriteIndexesType DEF Write
<1>4. ASSUME NEW c \in Clients, NEW e \in PathsOf[c], Send(c, e)
      PROVE  TypeOK'
  BY <1>4, SendType
<1>5. CASE Builder
  BY <1>5, BuilderType
<1>6. CASE Environment
  BY <1>6, ForeignType, SurroundingsType DEF Environment
<1> QED
  BY <1>1, <1>2, <1>3, <1>4, <1>5, <1>6 DEF Next
-----------------------------------------------------------------------------
(* One write at a time.                                                    *)

LEMMA GoesOn ==
    ASSUME TypeOK, NEW c \in Clients, At(c, Writing), NEW pc, Goes(c, pc)
    PROVE  /\ client'[c] = [client[c] EXCEPT !.pc = pc]
           /\ client'[c].pc = pc /\ client'[c].entry = client[c].entry
           /\ client'[c].op = client[c].op /\ client'[c].gen = client[c].gen
           /\ client'[c].games = client[c].games /\ client'[c].new = client[c].new
           /\ \A d \in Clients : d # c => client'[d] = client[d]
<1>1. client[c] \in Writes
  BY AtStep
<1>2. client' = [client EXCEPT ![c] = [client[c] EXCEPT !.pc = pc]]
  BY DEF Goes
<1>3. client'[c] = [client[c] EXCEPT !.pc = pc]
  BY <1>2 DEF TypeOK
<1> QED
  BY <1>1, <1>2, <1>3 DEF Writes, TypeOK

LEMMA EndsHere ==
    ASSUME TypeOK, NEW c \in Clients, Ends(c)
    PROVE  /\ client'[c].pc = "idle" /\ ~Inside(c)'
           /\ \A d \in Clients : d # c => client'[d] = client[d]
<1>1. client'[c] = AtRest /\ \A d \in Clients : d # c => client'[d] = client[d]
  BY DEF Ends, TypeOK
<1>2. client'[c].pc = "idle"
  BY <1>1 DEF AtRest
<1> QED
  BY <1>1, <1>2 DEF Inside, At, Writing, Editing, Holding, Opening

(* What a step of one request leaves of the others; and a request is       *)
(* inside only by entering.                                                *)
LEMMA ReadActs ==
    ASSUME TypeOK, NEW c \in Clients, Read(c)
    PROVE  /\ \A d \in Clients : d # c => client'[d] = client[d] /\ known'[d] = known[d]
           /\ raced' = raced
           /\ Inside(c)' => Inside(c)
<1> USE DEF disk, folder, opens, spent
<1>1. ASSUME NEW e \in PathsOf[c], Look(c, e)
      PROVE  /\ \A d \in Clients : d # c => client'[d] = client[d] /\ known'[d] = known[d]
             /\ raced' = raced
             /\ Inside(c)' => Inside(c)
  BY <1>1 DEF Look, TypeOK, Inside, At, Writing, Editing, Holding, Opening
<1>2. ASSUME At(c, Opening), NEW open, Opened(c, open)
      PROVE  /\ \A d \in Clients : d # c => client'[d] = client[d] /\ known'[d] = known[d]
             /\ Inside(c)' => Inside(c)
  <2>1. CASE client[c].op = None
    <3>1. /\ Ends(c)
          /\ known' = IF open.games = None THEN known ELSE [known EXCEPT ![c] = open]
      BY <1>2, <2>1 DEF Opened
    <3>2. \A d \in Clients : d # c => known'[d] = known[d]
      BY <3>1 DEF TypeOK
    <3> QED
      BY <3>1, <3>2, EndsHere
  <2>2. CASE client[c].op # None
    <3>1. Inside(c)
      BY <1>2, <2>2 DEF Inside
    <3>2. \A d \in Clients : d # c => client'[d] = client[d]
      BY <1>2, <2>2, EndsHere DEF Opened, TypeOK
    <3> QED
      BY <1>2, <2>2, <3>1, <3>2 DEF Opened
  <2> QED
    BY <2>1, <2>2
<1>3. CASE LookInSlot(c)
  <2> DEFINE e == client[c].entry
             look == IF slot[e] = None \/ OpenAt(e, client[c].look) THEN client[c].look ELSE Present
  <2>0. At(c, Opening) /\ raced' = raced /\ client[c] \in Reads \union Writes
    BY <1>3, AtStep DEF LookInSlot, At, Opening
  <2> HIDE DEF look
  <2>1. CASE Ends(c) /\ known' = known
    BY <2>0, <2>1, EndsHere
  <2>2. CASE Opened(c, slot[e])
    BY <1>2, <2>0, <2>2
  <2>3. CASE /\ client' = [client EXCEPT ![c].pc = "opening", ![c].look = look]
             /\ known' = known
    <3>1. /\ client'[c] = [client[c] EXCEPT !.pc = "opening", !.look = look]
          /\ \A d \in Clients : d # c => client'[d] = client[d]
      BY <2>3 DEF TypeOK
    <3>2. client'[c].op = client[c].op /\ client'[c].pc = "opening"
      BY <2>0, <3>1 DEF Reads, Writes
    <3>3. Inside(c)' => Inside(c)
      BY <2>0, <3>2 DEF Inside, At, Writing, Editing, Holding, Opening
    <3> QED
      BY <2>0, <2>3, <3>1, <3>3
  <2> QED
    BY <1>3, <2>1, <2>2, <2>3 DEF LookInSlot, look
<1>4. CASE OpenIndexed(c)
  <2>1. At(c, Opening) /\ raced' = raced
    BY <1>4 DEF OpenIndexed, At, Opening
  <2>2. \E open : Opened(c, open)
    BY <1>4 DEF OpenIndexed
  <2> QED
    BY <1>2, <2>1, <2>2
<1>5. CASE OpenQueues(c) \/ OpenFails(c) \/ OpenUnready(c)
  <2>1. Ends(c) /\ known' = known /\ raced' = raced
    BY <1>5 DEF OpenQueues, OpenFails, OpenUnready
  <2> QED
    BY <2>1, EndsHere
<1> QED
  BY <1>1, <1>3, <1>4, <1>5 DEF Read

LEMMA WriteActs ==
    ASSUME TypeOK, NEW c \in Clients, Write(c)
    PROVE  /\ \A d \in Clients : d # c => client'[d] = client[d] /\ known'[d] = known[d]
           /\ raced' = raced /\ At(c, Writing)
           /\ Inside(c) \/ Enter(c)
<1> USE DEF disk, folder, opens, spent
<1>1. At(c, Writing) /\ (Inside(c) \/ Enter(c))
  BY DEF Write, Enter, LookToWrite, Decline, Hold, CheckHeld, Refuse, FindDamaged, Forget,
         Tear, Appended, CutBack, CreateTemp, TempTaken, Copy, CopyFails, LookOnceMore,
         ChangedMeanwhile, Rename, NothingToRename, LookAfter, BeginUpdate, EndUpdate,
         UpdateFails, Install, Inside, At, Writing, Editing, Holding
<1>2. raced' = raced
  BY DEF Write, Enter, LookToWrite, Decline, Hold, CheckHeld, Refuse, FindDamaged, Forget,
         Tear, Appended, CutBack, CreateTemp, TempTaken, Copy, CopyFails, LookOnceMore,
         ChangedMeanwhile, RemoveTemp, Rename, NothingToRename, LookAfter, BeginUpdate, EndUpdate,
         UpdateFails, Install
<1>3. \A d \in Clients : d # c => known'[d] = known[d]
  <2>1. known' = known \/ Tell(c)
    BY DEF Write, Enter, LookToWrite, Decline, Hold, CheckHeld, Refuse, FindDamaged, Forget,
           Tear, Appended, CutBack, CreateTemp, TempTaken, Copy, CopyFails, LookOnceMore,
           ChangedMeanwhile, RemoveTemp, Rename, NothingToRename, LookAfter, BeginUpdate, EndUpdate,
           UpdateFails, Install
  <2> QED
    BY <2>1 DEF Tell, TypeOK
<1>4. \A d \in Clients : d # c => client'[d] = client[d]
  <2>1. \E r : client' = [client EXCEPT ![c] = r]
    BY DEF Write, Enter, LookToWrite, Decline, Hold, CheckHeld, Refuse, FindDamaged, Forget,
           Tear, Appended, CutBack, CreateTemp, TempTaken, Copy, CopyFails, LookOnceMore,
           ChangedMeanwhile, RemoveTemp, Rename, NothingToRename, LookAfter, BeginUpdate, EndUpdate,
           UpdateFails, Install, Goes, Ends, Release
  <2> QED
    BY <2>1 DEF TypeOK
<1> QED
  BY <1>1, <1>2, <1>3, <1>4

LEMMA SendActs ==
    ASSUME TypeOK, NEW c \in Clients, NEW e \in PathsOf[c], Send(c, e)
    PROVE  /\ \A d \in Clients : d # c => client'[d] = client[d] /\ known'[d] = known[d]
           /\ raced' = raced
           /\ ~Inside(c)'
<1>1. PICK r : r.pc = "waiting" /\ client' = [client EXCEPT ![c] = r]
  BY DEF Send
<1>2. client'[c].pc = "waiting" /\ \A d \in Clients : d # c => client'[d] = client[d]
  BY <1>1 DEF TypeOK
<1>3. ~Inside(c)'
  BY <1>2 DEF Inside, At, Writing, Editing, Holding, Opening
<1> QED
  BY <1>2, <1>3 DEF Send

LEMMA OneInsideStep ==
    ASSUME TypeOK, OneInside, [Next]_vars
    PROVE  OneInside'
<1>1. ASSUME NEW c \in Clients, \A d \in Clients : d # c => client'[d] = client[d],
             Inside(c)' => Inside(c) \/ Enter(c)
      PROVE  OneInside'
  <2>1. \A d \in Clients : d # c => (Inside(d)' <=> Inside(d))
    BY <1>1 DEF Inside, At
  <2>2. Enter(c) => \A d \in Clients : ~Inside(d)
    BY DEF Enter
  <2> QED
    BY <1>1, <2>1, <2>2 DEF OneInside
<1>2. ASSUME client' = client
      PROVE  OneInside'
  BY <1>2 DEF OneInside, Inside, At
<1>3. CASE UNCHANGED vars
  BY <1>2, <1>3 DEF vars
<1>4. ASSUME NEW c \in Clients, Read(c)
      PROVE  OneInside'
  BY <1>1, <1>4, ReadActs
<1>5. ASSUME NEW c \in Clients, Write(c)
      PROVE  OneInside'
  BY <1>1, <1>5, WriteActs
<1>6. ASSUME NEW c \in Clients, NEW e \in PathsOf[c], Send(c, e)
      PROVE  OneInside'
  BY <1>1, <1>6, SendActs
<1>7. CASE Builder
  BY <1>2, <1>7 DEF Builder, BeginBuild, ReadGames, PublishIndex, BuildFails
<1>8. CASE Environment
  <2>1. CASE Restart
    <3>1. \A c \in Clients : client'[c].pc = "idle"
      BY <2>1 DEF Restart, AtRest
    <3>2. \A c \in Clients : ~Inside(c)'
      BY <3>1 DEF Inside, At, Writing, Editing, Holding, Opening
    <3> QED
      BY <3>2 DEF OneInside
  <2>2. CASE ~Restart
    <3>1. client' = client
      BY <1>8, <2>2 DEF Environment, ChangeGames, ReplaceFile, Others, DamageHead, List, Unlist,
                        Sweep, MinutePasses
    <3> QED
      BY <1>2, <3>1
  <2> QED
    BY <2>1, <2>2
<1> QED
  BY <1>3, <1>4, <1>5, <1>6, <1>7, <1>8 DEF Next
-----------------------------------------------------------------------------
(* The generations of the file, and what they name.                        *)

LEMMA FileStep ==
    ASSUME TypeOK, \A c \in Clients : WriteFits(c), [Next]_vars
    PROVE  Same \/ Renewed
<1>1. CASE UNCHANGED vars
  BY <1>1 DEF vars, Same
<1>2. ASSUME NEW c \in Clients, Read(c)
      PROVE  Same
  BY <1>2 DEF Read, Look, LookInSlot, OpenIndexed, OpenQueues, OpenFails, OpenUnready, disk, Same
<1>3. ASSUME NEW c \in Clients, Write(c)
      PROVE  Same \/ Renewed
  <2>1. IndexFits(c)
    BY DEF WriteFits
  <2>2. CASE Tear(c) \/ Appended(c) \/ CutBack(c)
    BY <2>1, <2>2, WriteAppendsType
  <2>3. CASE \/ CreateTemp(c) \/ TempTaken(c) \/ Copy(c) \/ CopyFails(c) \/ LookOnceMore(c)
             \/ ChangedMeanwhile(c) \/ Rename(c) \/ NothingToRename(c)
    BY <2>1, <2>3, WriteCopiesType
  <2>4. CASE \/ Enter(c) \/ LookToWrite(c) \/ Decline(c) \/ Hold(c) \/ CheckHeld(c) \/ Refuse(c)
             \/ FindDamaged(c) \/ Forget(c) \/ LookAfter(c) \/ BeginUpdate(c) \/ EndUpdate(c)
             \/ UpdateFails(c) \/ Install(c)
    BY <2>4 DEF Enter, LookToWrite, Decline, Hold, CheckHeld, Refuse, FindDamaged, Forget,
                LookAfter, BeginUpdate, EndUpdate, UpdateFails, Install, disk, Same
  <2> QED
    BY <1>3, <2>2, <2>3, <2>4 DEF Write
<1>4. ASSUME NEW c \in Clients, NEW e \in PathsOf[c], Send(c, e)
      PROVE  Same
  BY <1>4 DEF Send, disk, Same
<1>5. CASE Builder
  BY <1>5 DEF Builder, BeginBuild, ReadGames, PublishIndex, BuildFails, disk, Same
<1>6. CASE Environment
  <2>1. CASE ChangeGames \/ ReplaceFile
    BY <2>1, ForeignType
  <2>2. CASE ~(ChangeGames \/ ReplaceFile)
    BY <1>6, <2>2 DEF Environment, Restart, DamageHead, List, Unlist, Sweep, MinutePasses, disk, Same
  <2> QED
    BY <2>1, <2>2
<1> QED
  BY <1>1, <1>2, <1>3, <1>4, <1>5, <1>6 DEF Next

LEMMA ClockStep ==
    ASSUME TypeOK, Same \/ Renewed
    PROVE  clock' \in Nat \ {0} /\ clock <= clock'
BY DEF TypeOK, Same, Renewed

(* What changes the index files, the slots and the queue of builds.        *)
LEMMA HeadChanges ==
    ASSUME [Next]_vars
    PROVE  \/ head' = head \/ PublishIndex
           \/ \E c \in Clients : EndUpdate(c) \/ FindDamaged(c)
           \/ \E e \in Entries : DamageHead(e) \/ Sweep(e)
<1>1. ASSUME NEW c \in Clients, Write(c)
      PROVE  head' = head \/ EndUpdate(c) \/ FindDamaged(c)
  BY <1>1 DEF Write, Enter, LookToWrite, Decline, Hold, CheckHeld, Refuse, Forget,
         Tear, Appended, CutBack, CreateTemp, TempTaken, Copy, CopyFails, LookOnceMore,
         ChangedMeanwhile, RemoveTemp, Rename, NothingToRename, LookAfter, BeginUpdate,
         UpdateFails, Install, folder
<1>2. ASSUME NEW c \in Clients, Read(c) \/ \E e \in PathsOf[c] : Send(c, e)
      PROVE  head' = head
  BY <1>2 DEF Read, Look, LookInSlot, OpenIndexed, OpenQueues, OpenFails, OpenUnready, Send, folder
<1>3. CASE Builder
  BY <1>3 DEF Builder, BeginBuild, ReadGames, BuildFails, folder
<1>4. CASE Environment
  BY <1>4 DEF Environment, ChangeGames, ReplaceFile, Others, Restart, List,
         Unlist, MinutePasses, folder
<1>5. CASE UNCHANGED vars
  BY <1>5 DEF vars
<1> QED
  BY <1>1, <1>2, <1>3, <1>4, <1>5 DEF Next

LEMMA SlotChanges ==
    ASSUME [Next]_vars
    PROVE  \/ slot' = slot \/ Restart
           \/ \E c \in Clients : OpenIndexed(c) \/ Forget(c) \/ Install(c)
<1>1. ASSUME NEW c \in Clients, Write(c)
      PROVE  slot' = slot \/ Forget(c) \/ Install(c)
  BY <1>1 DEF Write, Enter, LookToWrite, Decline, Hold, CheckHeld, Refuse, FindDamaged,
         Tear, Appended, CutBack, CreateTemp, TempTaken, Copy, CopyFails, LookOnceMore,
         ChangedMeanwhile, RemoveTemp, Rename, NothingToRename, LookAfter, BeginUpdate,
         EndUpdate, UpdateFails, opens
<1>2. ASSUME NEW c \in Clients, Read(c) \/ \E e \in PathsOf[c] : Send(c, e)
      PROVE  slot' = slot \/ OpenIndexed(c)
  BY <1>2 DEF Read, Look, LookInSlot, OpenQueues, OpenFails, OpenUnready, Send, opens
<1>3. CASE Builder
  BY <1>3 DEF Builder, BeginBuild, ReadGames, PublishIndex, BuildFails
<1>4. CASE Environment
  BY <1>4 DEF Environment, ChangeGames, ReplaceFile, Others, DamageHead, List,
         Unlist, Sweep, MinutePasses, opens
<1>5. CASE UNCHANGED vars
  BY <1>5 DEF vars
<1> QED
  BY <1>1, <1>2, <1>3, <1>4, <1>5 DEF Next

LEMMA QueueChanges ==
    ASSUME [Next]_vars
    PROVE  \/ jobs' = jobs /\ reading' = reading
           \/ Restart \/ BeginBuild \/ ReadGames \/ PublishIndex \/ BuildFails
           \/ \E c \in Clients : OpenQueues(c)
<1>1. ASSUME NEW c \in Clients, Write(c)
      PROVE  jobs' = jobs /\ reading' = reading
  BY <1>1 DEF Write, Enter, LookToWrite, Decline, Hold, CheckHeld, Refuse, FindDamaged, Forget,
         Tear, Appended, CutBack, CreateTemp, TempTaken, Copy, CopyFails, LookOnceMore,
         ChangedMeanwhile, RemoveTemp, Rename, NothingToRename, LookAfter, BeginUpdate,
         EndUpdate, UpdateFails, Install, opens
<1>2. ASSUME NEW c \in Clients, Read(c) \/ \E e \in PathsOf[c] : Send(c, e)
      PROVE  (jobs' = jobs /\ reading' = reading) \/ OpenQueues(c)
  BY <1>2 DEF Read, Look, LookInSlot, OpenIndexed, OpenFails, OpenUnready, Send, opens
<1>3. CASE Environment
  BY <1>3 DEF Environment, ChangeGames, ReplaceFile, Others, DamageHead, List,
         Unlist, Sweep, MinutePasses, opens
<1>4. CASE UNCHANGED vars
  BY <1>4 DEF vars
<1> QED
  BY <1>1, <1>2, <1>3, <1>4 DEF Next, Builder

(* What changes what a page knows: an answer, or the end of its write.     *)
LEMMA KnownChanges ==
    ASSUME [Next]_vars
    PROVE  \/ known' = known
           \/ \E c \in Clients : \/ LookInSlot(c) \/ OpenIndexed(c)
                                 \/ (UpdateFails(c) \/ Install(c)) /\ Tell(c)
<1>1. ASSUME NEW c \in Clients, Write(c)
      PROVE  known' = known \/ ((UpdateFails(c) \/ Install(c)) /\ Tell(c))
  BY <1>1 DEF Write, Enter, LookToWrite, Decline, Hold, CheckHeld, Refuse, FindDamaged, Forget,
         Tear, Appended, CutBack, CreateTemp, TempTaken, Copy, CopyFails, LookOnceMore,
         ChangedMeanwhile, RemoveTemp, Rename, NothingToRename, LookAfter, BeginUpdate,
         EndUpdate, UpdateFails, Install
<1>2. ASSUME NEW c \in Clients, Read(c) \/ \E e \in PathsOf[c] : Send(c, e)
      PROVE  known' = known \/ LookInSlot(c) \/ OpenIndexed(c)
  BY <1>2 DEF Read, Look, OpenQueues, OpenFails, OpenUnready, Send
<1>3. CASE Builder
  BY <1>3 DEF Builder, BeginBuild, ReadGames, PublishIndex, BuildFails
<1>4. CASE Environment
  BY <1>4 DEF Environment, ChangeGames, ReplaceFile, Others, DamageHead, List, Restart,
         Unlist, Sweep, MinutePasses
<1>5. CASE UNCHANGED vars
  BY <1>5 DEF vars
<1> QED
  BY <1>1, <1>2, <1>3, <1>4, <1>5 DEF Next

(* No generation lies ahead of the file's last.                            *)
LEMMA HeadsInPastStep ==
    ASSUME TypeOK, InPast, Same \/ Renewed, [Next]_vars
    PROVE  HeadsInPast'
<1>1. clock \in Nat /\ clock' \in Nat /\ clock <= clock'
  BY ClockStep DEF TypeOK
<1>2. ASSUME NEW e \in Entries, NEW stamp \in Nat, NEW games, NEW len, stamp <= clock,
             head' = [head EXCEPT ![e] = [stamp |-> stamp, games |-> games, len |-> len]]
      PROVE  HeadsInPast'
  BY <1>1, <1>2 DEF InPast, HeadsInPast, TypeOK, Heads
<1>3. ASSUME \A e \in Entries : head'[e] \in {head[e], None}
      PROVE  HeadsInPast'
  BY <1>1, <1>3 DEF InPast, HeadsInPast, TypeOK, Heads
<1>4. CASE PublishIndex
  <2>1. reading.entry \in Entries /\ reading.gen \in Nat /\ reading.gen <= clock
    BY <1>4 DEF PublishIndex, TypeOK, Readings, InPast, JobsInPast
  <2> QED
    BY <1>2, <1>4, <2>1 DEF PublishIndex
<1>5. ASSUME NEW c \in Clients, EndUpdate(c)
      PROVE  HeadsInPast'
  <2>1. At(c, Writing) /\ ~At(c, {"idle"})
    BY <1>5 DEF EndUpdate, At, Writing, Editing
  <2>2. client[c].entry \in Entries /\ client[c].new \in Nat /\ client[c].new <= clock
    BY <2>1, AtStep, WriteFields DEF InPast, PageInPast
  <2>3. \E games : head' = [head EXCEPT ![client[c].entry] =
                         [stamp |-> client[c].new, games |-> games, len |-> Len(file.games)]]
    BY <1>5 DEF EndUpdate
  <2> QED
    BY <1>2, <2>2, <2>3
<1>6. ASSUME NEW e \in Entries, DamageHead(e)
      PROVE  HeadsInPast'
  <2>1. head[e] \in Heads
    BY <1>6 DEF DamageHead, TypeOK
  <2>2. head'[e].stamp = head[e].stamp /\ \A d \in Entries : d # e => head'[d] = head[d]
    BY <1>6, <2>1 DEF DamageHead, TypeOK, Heads
  <2> QED
    BY <1>1, <2>1, <2>2 DEF InPast, HeadsInPast, TypeOK, Heads
<1>7. ASSUME NEW e \in Entries, Sweep(e)
      PROVE  HeadsInPast'
  <2>1. head' = head \/ head' = [head EXCEPT ![e] = None]
    BY <1>7 DEF Sweep
  <2> QED
    BY <1>3, <2>1 DEF TypeOK
<1>8. ASSUME NEW c \in Clients, FindDamaged(c)
      PROVE  HeadsInPast'
  BY <1>3, <1>8 DEF FindDamaged, TypeOK
<1>9. CASE head' = head
  BY <1>3, <1>9
<1> QED
  BY <1>4, <1>5, <1>6, <1>7, <1>8, <1>9, HeadChanges

LEMMA SlotsInPastStep ==
    ASSUME TypeOK, InPast, \A c \in Clients : IndexFits(c), Same \/ Renewed, [Next]_vars
    PROVE  SlotsInPast'
<1>1. clock \in Nat /\ clock' \in Nat /\ clock <= clock'
  BY ClockStep DEF TypeOK
<1>2. ASSUME NEW e \in Entries, NEW gen \in 1..clock, NEW games,
             slot' = [slot EXCEPT ![e] = [gen |-> gen, games |-> games]]
      PROVE  SlotsInPast'
  BY <1>1, <1>2 DEF InPast, SlotsInPast, TypeOK, Slots
<1>3. ASSUME \A e \in Entries : slot'[e] \in {slot[e], None}
      PROVE  SlotsInPast'
  BY <1>1, <1>3 DEF InPast, SlotsInPast, TypeOK, Slots
<1>4. ASSUME NEW c \in Clients, OpenIndexed(c)
      PROVE  SlotsInPast'
  <2>1. At(c, Opening)
    BY <1>4 DEF OpenIndexed, At, Opening
  <2>2. client[c].entry \in Entries /\ client[c].look \in 1..clock
    BY <2>1, AtStep, ReadFields, WriteFields DEF InPast, PageInPast
  <2> QED
    BY <1>2, <1>4, <2>2 DEF OpenIndexed
<1>5. ASSUME NEW c \in Clients, Forget(c)
      PROVE  SlotsInPast'
  BY <1>3, <1>5 DEF Forget, TypeOK
<1>6. ASSUME NEW c \in Clients, Install(c)
      PROVE  SlotsInPast'
  <2>1. At(c, Writing) /\ ~At(c, {"idle"}) /\ At(c, Done)
    BY <1>6 DEF Install, At, Writing, Editing, Done
  <2>2. client[c].entry \in Entries /\ client[c].new \in Nat /\ client[c].new # 0
        /\ client[c].new <= clock
    BY <2>1, AtStep, WriteFields DEF InPast, PageInPast, IndexFits
  <2>3. client[c].new \in 1..clock
    BY <1>1, <2>2
  <2>4. CASE slot' = slot
    BY <1>3, <2>4
  <2>5. CASE slot' # slot
    BY <1>2, <1>6, <2>2, <2>3, <2>5 DEF Install
  <2> QED
    BY <2>4, <2>5
<1>7. CASE Restart
  BY <1>3, <1>7 DEF Restart
<1>8. CASE slot' = slot
  BY <1>3, <1>8
<1> QED
  BY <1>4, <1>5, <1>6, <1>7, <1>8, SlotChanges

LEMMA JobsInPastStep ==
    ASSUME TypeOK, InPast, Same \/ Renewed, [Next]_vars
    PROVE  JobsInPast'
<1>1. clock \in Nat /\ clock' \in Nat /\ clock <= clock'
  BY ClockStep DEF TypeOK
<1>2. /\ \A i \in 1..Len(jobs) : jobs[i].gen \in 1..clock'
      /\ reading # None => reading.gen \in 1..clock'
  <2>1. \A n \in 1..clock : n \in 1..clock'
    BY <1>1
  <2> QED
    BY <2>1 DEF InPast, JobsInPast
<1>3. CASE jobs' = jobs /\ reading' = reading
  BY <1>2, <1>3 DEF JobsInPast
<1>4. CASE Restart
  BY <1>4 DEF Restart, JobsInPast
<1>5. CASE BeginBuild
  <2>1. /\ Len(jobs) \in Nat \ {0} /\ Head(jobs) = jobs[1] /\ Len(Tail(jobs)) = Len(jobs) - 1
        /\ \A i \in 1..(Len(jobs) - 1) : Tail(jobs)[i] = jobs[i + 1]
    BY <1>5 DEF BeginBuild, TypeOK
  <2>2. \A i \in 1..Len(jobs') : jobs'[i].gen \in 1..clock'
    <3>1. \A i \in 1..(Len(jobs) - 1) : i + 1 \in 1..Len(jobs)
      BY <2>1
    <3> QED
      BY <1>2, <1>5, <2>1, <3>1 DEF BeginBuild
  <2>3. reading'.gen \in 1..clock'
    <3>1. 1 \in 1..Len(jobs)
      BY <2>1
    <3> QED
      BY <1>2, <1>5, <2>1, <3>1 DEF BeginBuild
  <2> QED
    BY <2>2, <2>3 DEF JobsInPast
<1>6. CASE ReadGames
  <2>1. reading \in Readings /\ reading' = [reading EXCEPT !.games = file.games] /\ jobs' = jobs
    BY <1>6 DEF ReadGames, TypeOK
  <2>2. reading'.gen = reading.gen
    BY <2>1 DEF Readings
  <2> QED
    BY <1>2, <1>6, <2>1, <2>2 DEF ReadGames, JobsInPast
<1>7. CASE PublishIndex \/ BuildFails
  BY <1>2, <1>7 DEF PublishIndex, BuildFails, JobsInPast
<1>8. ASSUME NEW c \in Clients, OpenQueues(c)
      PROVE  JobsInPast'
  <2>1. At(c, Opening)
    BY <1>8 DEF OpenQueues, At, Opening
  <2>2. client[c].entry \in Entries /\ client[c].look \in 1..clock'
    BY <1>1, <2>1, AtStep, ReadFields, WriteFields DEF InPast, PageInPast
  <2> DEFINE job == [entry |-> client[c].entry, gen |-> client[c].look]
  <2>3. job \in Jobs /\ job.gen \in 1..clock'
    BY <2>2 DEF Jobs
  <2>4. jobs' = Append(jobs, job) /\ reading' = reading
    BY <1>8 DEF OpenQueues
  <2> HIDE DEF job
  <2>5. \A i \in 1..Len(jobs') : jobs'[i].gen \in 1..clock'
    <3>1. /\ Len(jobs') = Len(jobs) + 1 /\ jobs'[Len(jobs) + 1] = job
          /\ \A i \in 1..Len(jobs) : jobs'[i] = jobs[i]
      BY <2>3, <2>4, AppendProperties DEF TypeOK
    <3>2. Len(jobs) \in Nat
      BY DEF TypeOK
    <3> QED
      BY <1>2, <2>3, <3>1, <3>2
  <2> QED
    BY <1>2, <2>4, <2>5 DEF JobsInPast
<1> QED
  BY <1>3, <1>4, <1>5, <1>6, <1>7, <1>8, QueueChanges

LEMMA PageStays ==
    ASSUME TypeOK, Same \/ Renewed, NEW c \in Clients, PageInPast(c),
           client'[c] = client[c], known'[c] = known[c]
    PROVE  PageInPast(c)'
<1>1. clock \in Nat /\ clock' \in Nat /\ clock <= clock'
  BY ClockStep DEF TypeOK
<1>2. \A n \in 1..clock : n \in 1..clock'
  BY <1>1
<1>3. known[c].gen \in Nat /\ (~At(c, {"idle"}) => client[c].gen \in Nat /\ client[c].new \in Nat)
  <2>1. known[c].gen \in Nat
    BY DEF TypeOK
  <2>2. ~At(c, {"idle"}) => At(c, Opening) \/ At(c, Writing)
    BY AtStep DEF At
  <2> QED
    BY <2>1, <2>2, AtStep, ReadFields, WriteFields
<1> QED
  BY <1>1, <1>2, <1>3 DEF PageInPast, At

LEMMA EndsInPast ==
    ASSUME TypeOK, NEW c \in Clients, Ends(c), known'[c].gen <= clock'
    PROVE  PageInPast(c)'
BY EndsHere DEF PageInPast, At, Opening

LEMMA OpenedInPast ==
    ASSUME TypeOK, Same, NEW c \in Clients, PageInPast(c), At(c, Opening),
           NEW open \in Slots, open.gen \in 1..clock, Opened(c, open)
    PROVE  PageInPast(c)'
<1>1. clock' = clock /\ clock \in Nat
  BY DEF Same, TypeOK
<1>2. CASE client[c].op = None
  <2>1. Ends(c) /\ known'[c] \in {open, known[c]}
    BY <1>2 DEF Opened, TypeOK
  <2>2. known'[c].gen <= clock
    BY <1>1, <2>1 DEF PageInPast
  <2> QED
    BY <1>1, <2>1, <2>2, EndsInPast
<1>3. CASE client[c].op # None
  <2>1. known' = known /\ known'[c].gen <= clock'
    BY <1>1, <1>3 DEF Opened, PageInPast
  <2>2. CASE Ends(c)
    BY <2>1, <2>2, EndsInPast
  <2>3. CASE client' = [client EXCEPT ![c].pc = "opened", ![c].games = open.games]
    <3>1. client[c] \in Writes
      BY <1>3, AtStep, ReadFields
    <3>2. client'[c] = [client[c] EXCEPT !.pc = "opened", !.games = open.games]
      BY <2>3 DEF TypeOK
    <3>3. client'[c].pc = "opened" /\ client'[c].gen = client[c].gen /\ client'[c].new = client[c].new
      BY <3>1, <3>2 DEF Writes
    <3>4. ~At(c, {"idle"})
      BY DEF At, Opening
    <3> QED
      BY <1>1, <2>1, <3>3, <3>4 DEF PageInPast, At, Opening
  <2> QED
    BY <1>3, <2>2, <2>3 DEF Opened
<1> QED
  BY <1>2, <1>3

LEMMA ReadInPast ==
    ASSUME TypeOK, InPast, NEW c \in Clients, Read(c)
    PROVE  PageInPast(c)'
<1>0. Same /\ PageInPast(c)
  BY DEF Read, Look, LookInSlot, OpenIndexed, OpenQueues, OpenFails, OpenUnready, disk, Same, InPast
<1>1. clock' = clock /\ clock \in Nat /\ known[c].gen <= clock
  BY <1>0 DEF Same, TypeOK, PageInPast
<1>2. ASSUME NEW e \in PathsOf[c], Look(c, e)
      PROVE  PageInPast(c)'
  <2>1. file.gen \in 1..clock /\ known' = known
    BY <1>2, PresentType DEF Look
  <2>2. client'[c] = [pc |-> "looked", entry |-> e, op |-> None, gen |-> 0, look |-> file.gen,
                      games |-> None, new |-> 0]
    BY <1>2 DEF Look, TypeOK
  <2> QED
    BY <1>1, <2>1, <2>2 DEF PageInPast, At, Opening
<1>3. CASE LookInSlot(c)
  <2> DEFINE e == client[c].entry
             look == IF slot[e] = None \/ OpenAt(e, client[c].look) THEN client[c].look ELSE Present
  <2>1. At(c, Opening) /\ client[c] \in Reads \union Writes /\ e \in Entries
        /\ client[c].look \in 1..clock /\ ~At(c, {"idle"})
    BY <1>0, <1>3, AtStep, ReadFields, WriteFields DEF LookInSlot, At, Opening, PageInPast
  <2>2. look # 0 => look \in 1..clock
    BY <2>1, PresentType
  <2> HIDE DEF look
  <2>3. CASE Ends(c) /\ known' = known
    BY <1>1, <2>3, EndsInPast
  <2>4. CASE OpenAt(e, look) /\ Opened(c, slot[e])
    <3>1. slot[e] \in Slots /\ slot[e].gen \in 1..clock
      BY <2>1, <2>4 DEF OpenAt, TypeOK, InPast, SlotsInPast
    <3> QED
      BY <1>0, <2>1, <2>4, <3>1, OpenedInPast
  <2>5. CASE /\ look # 0
             /\ client' = [client EXCEPT ![c].pc = "opening", ![c].look = look]
             /\ known' = known
    <3>1. client'[c] = [client[c] EXCEPT !.pc = "opening", !.look = look]
      BY <2>5 DEF TypeOK
    <3>2. /\ client'[c].pc = "opening" /\ client'[c].look = look
          /\ client'[c].gen = client[c].gen /\ client'[c].new = client[c].new
      BY <2>1, <3>1 DEF Reads, Writes
    <3> QED
      BY <1>0, <1>1, <2>1, <2>2, <2>5, <3>2 DEF PageInPast, At, Opening
  <2> QED
    BY <1>3, <2>3, <2>4, <2>5 DEF LookInSlot, look
<1>4. CASE OpenIndexed(c)
  <2> DEFINE e == client[c].entry
             g == client[c].look
             open == [gen |-> g, games |-> head[e].games]
  <2>1. At(c, Opening) /\ e \in Entries /\ g \in 1..clock
    BY <1>0, <1>4, AtStep, ReadFields, WriteFields DEF OpenIndexed, At, Opening, PageInPast
  <2>2. head[e] \in Heads
    BY <1>4, <2>1 DEF OpenIndexed, Opens, TypeOK
  <2>3. open \in Slots /\ open.gen \in 1..clock
    BY <1>1, <2>1, <2>2 DEF Slots, Heads
  <2>4. Opened(c, open)
    BY <1>4 DEF OpenIndexed
  <2> HIDE DEF open
  <2> QED
    BY <1>0, <2>1, <2>3, <2>4, OpenedInPast
<1>5. CASE OpenQueues(c) \/ OpenFails(c) \/ OpenUnready(c)
  <2>1. Ends(c) /\ known' = known
    BY <1>5 DEF OpenQueues, OpenFails, OpenUnready
  <2> QED
    BY <1>1, <2>1, EndsInPast
<1> QED
  BY <1>2, <1>3, <1>4, <1>5 DEF Read

LEMMA SendInPast ==
    ASSUME TypeOK, InPast, NEW c \in Clients, NEW e \in PathsOf[c], Send(c, e)
    PROVE  PageInPast(c)'
<1>1. clock' = clock /\ known' = known /\ known[c].gen <= clock /\ clock \in Nat
  BY DEF Send, disk, InPast, PageInPast, TypeOK
<1>2. PICK op \in OpsOn(known[c].games) :
          client' = [client EXCEPT ![c] =
              [pc |-> "waiting", entry |-> e, op |-> op, gen |-> known[c].gen, look |-> 0,
               games |-> None, new |-> 0]]
  BY DEF Send
<1>3. client'[c].pc = "waiting" /\ client'[c].gen = known[c].gen /\ client'[c].new = 0
  BY <1>2 DEF TypeOK
<1> QED
  BY <1>1, <1>3 DEF PageInPast, At, Opening

LEMMA WriteInPast ==
    ASSUME TypeOK, InPast, NEW c \in Clients, WriteFits(c), Same \/ Renewed, Write(c)
    PROVE  PageInPast(c)'
<1>0. PageInPast(c) /\ At(c, Writing) /\ client[c] \in Writes /\ ~At(c, {"idle"})
  BY WriteActs, AtStep DEF InPast, At, Writing, Editing, Holding
<1>1. /\ clock \in Nat /\ clock' \in Nat /\ clock <= clock'
      /\ known[c].gen \in Nat /\ known[c].gen <= clock'
      /\ client[c].gen \in Nat /\ client[c].gen <= clock'
      /\ client[c].new \in Nat /\ client[c].new <= clock'
  BY <1>0, ClockStep, WriteFields DEF TypeOK, PageInPast
<1>2. ASSUME known' = known, Ends(c)
      PROVE  PageInPast(c)'
  BY <1>1, <1>2, EndsInPast
<1>3. ASSUME known' = known, NEW pc \in Writing, Goes(c, pc)
      PROVE  PageInPast(c)'
  BY <1>0, <1>1, <1>3, GoesOn DEF PageInPast, At, Opening, Writing, Editing, Holding
<1>4. ASSUME known' = known, NEW pc \in Writing, NEW new \in Nat, new <= clock',
             client' = [client EXCEPT ![c].pc = pc, ![c].new = new]
      PROVE  PageInPast(c)'
  <2>1. client'[c] = [client[c] EXCEPT !.pc = pc, !.new = new]
    BY <1>4 DEF TypeOK
  <2>2. client'[c].pc = pc /\ client'[c].gen = client[c].gen /\ client'[c].new = new
    BY <1>0, <2>1 DEF Writes
  <2> QED
    BY <1>1, <1>4, <2>2 DEF PageInPast, At, Opening, Writing, Editing, Holding
<1>5. CASE Enter(c) \/ Hold(c) \/ FindDamaged(c) \/ Appended(c) \/ CreateTemp(c) \/ Copy(c)
           \/ LookOnceMore(c) \/ Rename(c) \/ BeginUpdate(c) \/ EndUpdate(c)
  <2>1. known' = known
    BY <1>5 DEF Enter, Hold, FindDamaged, Appended, CreateTemp, Copy, LookOnceMore, Rename,
                BeginUpdate, EndUpdate
  <2>2. Ends(c) \/ \E pc \in Writing : Goes(c, pc)
    BY <1>5 DEF Enter, Hold, FindDamaged, Appended, CreateTemp, Copy, LookOnceMore, Rename,
                BeginUpdate, EndUpdate, Writing, Editing, Holding
  <2> QED
    BY <1>2, <1>3, <2>1, <2>2
<1>6. CASE Decline(c) \/ Refuse(c) \/ CutBack(c) \/ TempTaken(c) \/ CopyFails(c)
           \/ ChangedMeanwhile(c) \/ NothingToRename(c)
  BY <1>2, <1>6 DEF Decline, Refuse, CutBack, TempTaken, CopyFails, ChangedMeanwhile,
                    NothingToRename, RemoveTemp, Release
<1>7. CASE LookToWrite(c)
  <2>1. CASE Ends(c)
    BY <1>2, <1>7, <2>1 DEF LookToWrite
  <2>2. CASE file # None /\ client' = [client EXCEPT ![c].pc = "looked", ![c].look = file.gen]
    <3>1. client'[c] = [client[c] EXCEPT !.pc = "looked", !.look = file.gen]
      BY <2>2 DEF TypeOK
    <3>2. /\ client'[c].pc = "looked" /\ client'[c].look = file.gen
          /\ client'[c].gen = client[c].gen /\ client'[c].new = client[c].new
      BY <1>0, <3>1 DEF Writes
    <3>3. file.gen \in 1..clock'
      BY <1>1, <2>2, PresentType
    <3>4. known' = known
      BY <1>7 DEF LookToWrite
    <3> QED
      BY <1>1, <3>2, <3>3, <3>4 DEF PageInPast, At, Opening
  <2> QED
    BY <1>7, <2>1, <2>2 DEF LookToWrite
<1>8. CASE CheckHeld(c)
  <2>1. Present \in Nat /\ Present <= clock
    BY <1>1, PresentType
  <2> QED
    BY <1>1, <1>4, <1>8, <2>1 DEF CheckHeld, Writing, Editing, Holding
<1>9. CASE Forget(c)
  <2>1. client'[c] = [client[c] EXCEPT !.pc = "entered", !.gen = 0] /\ known' = known
    BY <1>9 DEF Forget, TypeOK
  <2>2. client'[c].pc = "entered" /\ client'[c].gen = 0 /\ client'[c].new = client[c].new
    BY <1>0, <2>1 DEF Writes
  <2> QED
    BY <1>1, <2>1, <2>2 DEF PageInPast, At, Opening
<1>10. CASE Tear(c)
  <2>1. (IF file' = file THEN 0 ELSE clock') \in Nat /\ (IF file' = file THEN 0 ELSE clock') <= clock'
    BY <1>1
  <2> QED
    BY <1>4, <1>10, <2>1 DEF Tear, Writing, Editing, Holding
<1>11. CASE LookAfter(c)
  <2>1. known' = known
    BY <1>11 DEF LookAfter
  <2>2. CASE file = None
    BY <1>2, <1>11, <2>1, <2>2 DEF LookAfter, Release
  <2>3. CASE file # None
    <3>1. file.gen \in Nat /\ file.gen <= clock'
      BY <1>1, <2>3, PresentType
    <3> QED
      BY <1>4, <1>11, <2>1, <2>3, <3>1 DEF LookAfter, Writing, Editing
  <2> QED
    BY <2>2, <2>3
<1>12. CASE UpdateFails(c) \/ Install(c)
  <2>1. Tell(c) /\ Ends(c) /\ At(c, Done)
    BY <1>12 DEF UpdateFails, Install, Release, At, Done
  <2>2. known'[c] = [gen |-> client[c].new, games |-> Result(c)]
    BY <2>1, TellType DEF TypeOK
  <2> QED
    BY <1>1, <2>1, <2>2, EndsInPast
<1> QED
  BY <1>5, <1>6, <1>7, <1>8, <1>9, <1>10, <1>11, <1>12 DEF Write

LEMMA InPastStep ==
    ASSUME TypeOK, InPast, \A c \in Clients : WriteFits(c), [Next]_vars
    PROVE  InPast'
<1>1. Same \/ Renewed
  BY FileStep
<1>2. HeadsInPast' /\ SlotsInPast' /\ JobsInPast'
  BY <1>1, HeadsInPastStep, SlotsInPastStep, JobsInPastStep DEF WriteFits
<1>3. ASSUME NEW c \in Clients, PageInPast(c)',
             \A d \in Clients : d # c => client'[d] = client[d] /\ known'[d] = known[d]
      PROVE  \A d \in Clients : PageInPast(d)'
  BY <1>1, <1>3, PageStays DEF InPast
<1>4. CASE client' = client /\ known' = known
  <2>1. \A d \in Clients : PageInPast(d)'
    BY <1>1, <1>4, PageStays DEF InPast
  <2> QED
    BY <1>2, <2>1 DEF InPast
<1>5. ASSUME NEW c \in Clients, Read(c)
      PROVE  \A d \in Clients : PageInPast(d)'
  BY <1>3, <1>5, ReadInPast, ReadActs
<1>6. ASSUME NEW c \in Clients, Write(c)
      PROVE  \A d \in Clients : PageInPast(d)'
  BY <1>1, <1>3, <1>6, WriteInPast, WriteActs
<1>7. ASSUME NEW c \in Clients, NEW e \in PathsOf[c], Send(c, e)
      PROVE  \A d \in Clients : PageInPast(d)'
  BY <1>3, <1>7, SendInPast, SendActs
<1>8. CASE Restart
  <2>1. clock' = clock /\ known' = known /\ \A c \in Clients : client'[c].pc = "idle"
    BY <1>8 DEF Restart, disk, AtRest
  <2>2. \A c \in Clients : PageInPast(c)'
    BY <2>1 DEF InPast, PageInPast, At, Opening
  <2> QED
    BY <1>2, <2>2 DEF InPast
<1>9. CASE Builder \/ (Environment /\ ~Restart) \/ UNCHANGED vars
  BY <1>4, <1>9 DEF Builder, BeginBuild, ReadGames, PublishIndex, BuildFails, Environment,
         ChangeGames, ReplaceFile, Others, DamageHead, List, Unlist, Sweep, MinutePasses, vars
<1> QED
  BY <1>2, <1>5, <1>6, <1>7, <1>8, <1>9 DEF Next, InPast
-----------------------------------------------------------------------------
(* What is indexed and known is true.                                      *)

(* IsTrue, of an index and a generation of this state, in the next.        *)
StillTrue(index, gen) ==
    (~raced' /\ file' # None /\ gen = Present' /\ index # None) => index = file'.games

LEMMA RacedStep ==
    ASSUME TypeOK, [Next]_vars
    PROVE  raced => raced'
<1>1. ASSUME NEW c \in Clients, Read(c) \/ Write(c)
      PROVE  raced' = raced
  BY <1>1, ReadActs, WriteActs
<1>2. ASSUME NEW c \in Clients, NEW e \in PathsOf[c], Send(c, e)
      PROVE  raced' = raced
  BY <1>2 DEF Send
<1>3. CASE Builder \/ UNCHANGED vars
  BY <1>3 DEF Builder, BeginBuild, ReadGames, PublishIndex, BuildFails, vars, spent
<1>4. CASE Environment
  <2>1. CASE ChangeGames \/ ReplaceFile
    BY <2>1 DEF ChangeGames, ReplaceFile, Races
  <2>2. CASE ~(ChangeGames \/ ReplaceFile)
    BY <1>4, <2>2 DEF Environment, DamageHead, List, Unlist, Sweep, MinutePasses, Restart, spent
  <2> QED
    BY <2>1, <2>2
<1> QED
  BY <1>1, <1>2, <1>3, <1>4 DEF Next

(* An index of a generation there was is true as long as it is of the      *)
(* file's: a new one is none there was.                                    *)
LEMMA StaysTrue ==
    ASSUME TypeOK, Same \/ Renewed, raced => raced', NEW index, NEW gen \in Nat, gen <= clock,
           IsTrue(index, gen)
    PROVE  StillTrue(index, gen)
<1>1. CASE Same
  BY <1>1 DEF Same, IsTrue, StillTrue, Present
<1>2. CASE Renewed
  <2>1. clock \in Nat
    BY DEF TypeOK
  <2>2. file' # None => Present' = clock + 1
    BY <1>2, <2>1 DEF Renewed, Present, TypeOK
  <2> QED
    BY <2>1, <2>2 DEF StillTrue
<1> QED
  BY <1>1, <1>2

(* The index of a write is of what the write left.                         *)
LEMMA UpdateIsTrue ==
    ASSUME TypeOK, NEW c \in Clients, WriteFits(c), At(c, {"updating"}), file # None,
           NEW games \in {Updated(client[c].op, client[c].games, file.games), file.games}
    PROVE  IsTrue(games, client[c].new)
<1>1. CASE games = file.games
  BY <1>1 DEF IsTrue
<1>2. ASSUME games = Updated(client[c].op, client[c].games, file.games),
             ~raced, client[c].new = Present
      PROVE  games = file.games
  <2>1. At(c, Writing) /\ At(c, Planned) /\ At(c, Done)
    BY DEF At, Writing, Editing, Planned, Done
  <2>2. client[c].games \in Games /\ client[c].op \in Ops
    BY <2>1, AtStep, WriteFields DEF WriteFits, IndexFits
  <2>3. client[c].games = known[c].games /\ Fits(client[c].op, client[c].games)
    BY <1>2, <2>1 DEF WriteFits, IndexFits
  <2>4. Result(c) \in Games
    BY <2>2, <2>3, EditedSameType DEF Result
  <2>5. Result(c) = file.games
    BY <1>2, <2>1, <2>4 DEF WriteFits, FileFits, IsTrue
  <2> QED
    BY <1>2, <2>2, <2>3, <2>5, UpdatedIsEdited DEF Result
<1> QED
  BY <1>1, <1>2 DEF IsTrue

LEMMA HeadsTrueStep ==
    ASSUME TypeOK, InPast, Truth, [Next]_vars, NEW e \in Entries, head'[e] # None
    PROVE  StillTrue(head'[e].games, head'[e].stamp)
<1>1. (Same \/ Renewed) /\ (raced => raced')
  BY FileStep, RacedStep DEF Truth
<1>2. CASE head'[e] = head[e]
  <2>1. head[e].stamp \in Nat /\ head[e].stamp <= clock /\ IsTrue(head[e].games, head[e].stamp)
    BY <1>2 DEF TypeOK, Heads, InPast, HeadsInPast, Truth, IndexIsTrue
  <2> QED
    BY <1>1, <1>2, <2>1, StaysTrue
<1>3. CASE PublishIndex /\ head'[e] # head[e]
  <2>1. /\ reading \in Readings /\ reading.gen \in Nat /\ reading.gen <= clock
        /\ IsTrue(reading.games, reading.gen)
    BY <1>3 DEF PublishIndex, TypeOK, Readings, InPast, JobsInPast, Truth, BuildIsTrue
  <2>2. head'[e].games = reading.games /\ head'[e].stamp = reading.gen
    BY <1>3 DEF PublishIndex, TypeOK
  <2> QED
    BY <1>1, <2>1, <2>2, StaysTrue
<1>4. ASSUME NEW c \in Clients, EndUpdate(c), head'[e] # head[e]
      PROVE  StillTrue(head'[e].games, head'[e].stamp)
  <2>1. At(c, Writing) /\ ~At(c, {"idle"}) /\ At(c, {"updating"}) /\ file # None
    BY <1>4 DEF EndUpdate, At, Writing, Editing
  <2>2. client[c].new \in Nat /\ client[c].new <= clock
    BY <2>1, AtStep, WriteFields DEF InPast, PageInPast
  <2>3. PICK games \in {Updated(client[c].op, client[c].games, file.games), file.games} :
            head' = [head EXCEPT ![client[c].entry] =
                [stamp |-> client[c].new, len |-> Len(file.games), games |-> games]]
    BY <1>4 DEF EndUpdate
  <2>4. head'[e].games = games /\ head'[e].stamp = client[c].new
    BY <1>4, <2>3 DEF TypeOK
  <2>5. IsTrue(games, client[c].new)
    BY <2>1, UpdateIsTrue DEF Truth
  <2> QED
    BY <1>1, <2>2, <2>4, <2>5, StaysTrue
<1>5. ASSUME NEW c \in Clients, FindDamaged(c)
      PROVE  head'[e] = head[e]
  BY <1>5 DEF FindDamaged, TypeOK
<1>6. ASSUME NEW d \in Entries, DamageHead(d), head'[e] # head[e]
      PROVE  StillTrue(head'[e].games, head'[e].stamp)
  <2>1. head[e] \in Heads /\ head'[e] = [head[e] EXCEPT !.games = None]
    BY <1>6 DEF DamageHead, TypeOK
  <2>2. head'[e].games = None
    BY <2>1 DEF Heads
  <2> QED
    BY <2>2 DEF StillTrue
<1>7. ASSUME NEW d \in Entries, Sweep(d)
      PROVE  head'[e] = head[e]
  BY <1>7 DEF Sweep, TypeOK
<1> QED
  BY <1>2, <1>3, <1>4, <1>5, <1>6, <1>7, HeadChanges

LEMMA SlotsTrueStep ==
    ASSUME TypeOK, InPast, Truth, [Next]_vars, NEW e \in Entries, slot'[e] # None
    PROVE  StillTrue(slot'[e].games, slot'[e].gen)
<1>1. (Same \/ Renewed) /\ (raced => raced')
  BY FileStep, RacedStep DEF Truth
<1>2. CASE slot'[e] = slot[e]
  <2>1. slot[e].gen \in Nat /\ slot[e].gen <= clock /\ IsTrue(slot[e].games, slot[e].gen)
    BY <1>2 DEF TypeOK, Slots, InPast, SlotsInPast, Truth, IndexIsTrue
  <2> QED
    BY <1>1, <1>2, <2>1, StaysTrue
<1>3. ASSUME NEW g, Opens(e, g), slot'[e] = [gen |-> g, games |-> head[e].games]
      PROVE  StillTrue(slot'[e].games, slot'[e].gen)
  <2>1. /\ head[e].stamp \in Nat /\ head[e].stamp <= clock
        /\ IsTrue(head[e].games, head[e].stamp) /\ head[e].stamp = g
    BY <1>3 DEF Opens, TypeOK, Heads, InPast, HeadsInPast, Truth, IndexIsTrue
  <2> QED
    BY <1>1, <1>3, <2>1, StaysTrue
<1>4. ASSUME NEW c \in Clients, OpenIndexed(c) \/ Install(c), slot'[e] # slot[e]
      PROVE  \E g : Opens(e, g) /\ slot'[e] = [gen |-> g, games |-> head[e].games]
  BY <1>4 DEF OpenIndexed, Install, TypeOK
<1>5. ASSUME NEW c \in Clients, Forget(c)
      PROVE  slot'[e] = slot[e]
  BY <1>5 DEF Forget, TypeOK
<1>6. ~Restart
  BY DEF Restart
<1> QED
  BY <1>2, <1>3, <1>4, <1>5, <1>6, SlotChanges

LEMMA BuildTrueStep ==
    ASSUME TypeOK, InPast, Truth, [Next]_vars, reading' # None
    PROVE  StillTrue(reading'.games, reading'.gen)
<1>1. (Same \/ Renewed) /\ (raced => raced')
  BY FileStep, RacedStep DEF Truth
<1>2. CASE reading' = reading
  <2>1. /\ reading.gen \in Nat /\ reading.gen <= clock
        /\ IsTrue(reading.games, reading.gen)
    BY <1>2 DEF TypeOK, Readings, InPast, JobsInPast, Truth, BuildIsTrue
  <2> QED
    BY <1>1, <1>2, <2>1, StaysTrue
<1>3. CASE BeginBuild
  BY <1>3 DEF BeginBuild, StillTrue
<1>4. CASE ReadGames
  <2>1. reading \in Readings /\ reading' = [reading EXCEPT !.games = file.games] /\ file' = file
    BY <1>4 DEF ReadGames, TypeOK, disk
  <2>2. reading'.games = file'.games
    BY <2>1 DEF Readings
  <2> QED
    BY <2>2 DEF StillTrue
<1>5. ~Restart /\ ~PublishIndex /\ ~BuildFails
  BY DEF Restart, PublishIndex, BuildFails
<1>6. ASSUME NEW c \in Clients, OpenQueues(c)
      PROVE  reading' = reading
  BY <1>6 DEF OpenQueues
<1> QED
  BY <1>2, <1>3, <1>4, <1>5, <1>6, QueueChanges

LEMMA KnownTrueStep ==
    ASSUME TypeOK, InPast, Truth, [Next]_vars, NEW c \in Clients
    PROVE  StillTrue(known'[c].games, known'[c].gen)
<1>1. (Same \/ Renewed) /\ (raced => raced')
  BY FileStep, RacedStep DEF Truth
<1>2. CASE known'[c] = known[c]
  <2>1. known[c].gen \in Nat /\ known[c].gen <= clock /\ IsTrue(known[c].games, known[c].gen)
    BY DEF TypeOK, InPast, PageInPast, Truth, KnownIsTrue
  <2> QED
    BY <1>1, <1>2, <2>1, StaysTrue
<1>3. ASSUME NEW d \in Clients, LookInSlot(d) \/ OpenIndexed(d), known'[c] # known[c]
      PROVE  StillTrue(known'[c].games, known'[c].gen)
  <2>1. client[d].entry \in Entries
    BY <1>3, AtStep, ReadFields, WriteFields DEF LookInSlot, OpenIndexed, At, Opening
  <2> DEFINE e == client[d].entry
  <2>2. CASE known'[c] = slot[e] /\ slot[e] # None
    <3>1. slot[e].gen \in Nat /\ slot[e].gen <= clock /\ IsTrue(slot[e].games, slot[e].gen)
      BY <2>1, <2>2 DEF TypeOK, Slots, InPast, SlotsInPast, Truth, IndexIsTrue
    <3> QED
      BY <1>1, <2>2, <3>1, StaysTrue
  <2>3. CASE \E g : Opens(e, g) /\ known'[c] = [gen |-> g, games |-> head[e].games]
    <3>1. PICK g : Opens(e, g) /\ known'[c] = [gen |-> g, games |-> head[e].games]
      BY <2>3
    <3>2. /\ head[e].stamp \in Nat /\ head[e].stamp <= clock
          /\ IsTrue(head[e].games, head[e].stamp) /\ head[e].stamp = g
      BY <2>1, <3>1 DEF Opens, TypeOK, Heads, InPast, HeadsInPast, Truth, IndexIsTrue
    <3> QED
      BY <1>1, <3>1, <3>2, StaysTrue
  <2>4. ASSUME NEW open, Opened(d, open)
        PROVE  known'[c] = open
    BY <1>3, <2>4 DEF Opened, TypeOK
  <2>5. CASE OpenIndexed(d)
    <3>1. /\ Opens(e, client[d].look)
          /\ Opened(d, [gen |-> client[d].look, games |-> head[e].games])
      BY <2>5 DEF OpenIndexed
    <3>2. known'[c] = [gen |-> client[d].look, games |-> head[e].games]
      BY <2>4, <3>1
    <3> QED
      BY <2>3, <3>1, <3>2
  <2>6. CASE LookInSlot(d)
    <3>1. slot[e] # None /\ Opened(d, slot[e])
      BY <1>3, <2>6 DEF LookInSlot, OpenAt
    <3> QED
      BY <2>2, <2>4, <3>1
  <2> QED
    BY <1>3, <2>5, <2>6
<1>4. ASSUME NEW d \in Clients, UpdateFails(d) \/ Install(d), Tell(d), known'[c] # known[c]
      PROVE  StillTrue(known'[c].games, known'[c].gen)
  <2>1. At(d, Done) /\ At(d, Writing) /\ ~At(d, {"idle"}) /\ WriteFits(d)
    BY <1>4 DEF UpdateFails, Install, At, Done, Writing, Editing, Truth
  <2>2. known'[c].gen = client[d].new /\ known'[c].games = Result(d)
    BY <1>4, <2>1, TellType DEF TypeOK
  <2>3. client[d].new \in Nat /\ client[d].new <= clock
    BY <2>1, AtStep, WriteFields DEF InPast, PageInPast
  <2>4. IsTrue(Result(d), client[d].new)
    BY <2>1 DEF WriteFits, FileFits, IsTrue
  <2> QED
    BY <1>1, <2>2, <2>3, <2>4, StaysTrue
<1> QED
  BY <1>2, <1>3, <1>4, KnownChanges

LEMMA TrueStep ==
    ASSUME TypeOK, InPast, Truth, [Next]_vars
    PROVE  IndexIsTrue' /\ KnownIsTrue' /\ BuildIsTrue'
<1>1. IndexIsTrue'
  BY HeadsTrueStep, SlotsTrueStep DEF IndexIsTrue, IsTrue, StillTrue
<1>2. KnownIsTrue'
  BY KnownTrueStep DEF KnownIsTrue, IsTrue, StillTrue
<1>3. BuildIsTrue'
  BY BuildTrueStep DEF BuildIsTrue, IsTrue, StillTrue
<1> QED
  BY <1>1, <1>2, <1>3
-----------------------------------------------------------------------------
(* A write keeps to what its page had read.                                *)

Edits == {"opened", "held", "damaged"} \union Planned

LEMMA OutsideFits ==
    ASSUME NEW c \in Clients, ~At(c, Edits)', Named(c)'
    PROVE  WriteFits(c)'
<1>1. client'[c].pc \notin {"opened", "held", "damaged"} \union Planned
  BY DEF At, Edits
<1> QED
  BY <1>1 DEF WriteFits, IndexFits, FileFits, At, Planned, Done

LEMMA EditsInside ==
    ASSUME NEW c \in Clients, At(c, Edits)
    PROVE  Inside(c) /\ At(c, Writing)
BY DEF At, Edits, Planned, Done, Inside, Writing, Editing, Holding

LEMMA EndsFits ==
    ASSUME TypeOK, NEW c \in Clients, Ends(c)
    PROVE  WriteFits(c)'
<1>1. client'[c].pc = "idle"
  BY EndsHere
<1>2. ~At(c, Edits)'
  BY <1>1 DEF At, Edits, Planned, Done
<1>3. Named(c)'
  BY <1>1 DEF Named, At, Opening, Writing, Editing, Holding
<1> QED
  BY <1>2, <1>3, OutsideFits

LEMMA NamedStays ==
    ASSUME NEW c \in Clients, Named(c), At(c, Opening \union Writing), known'[c] = known[c],
           client'[c].op = client[c].op, client'[c].gen = client[c].gen
    PROVE  Named(c)'
BY DEF Named, At

(* What others do to a request.                                            *)
LEMMA StillFits ==
    ASSUME NEW c \in Clients, WriteFits(c), client'[c] = client[c], known'[c] = known[c],
           Same, raced' = raced, temp' \in {temp, None}
    PROVE  WriteFits(c)'
<1>1. Named(c)'
  BY DEF WriteFits, Named, At
<1>2. Present' = Present /\ file' = file
  BY DEF Same, Present
<1>3. Result(c)' = Result(c)
  BY DEF Result
<1>4. IndexFits(c)'
  BY <1>2 DEF WriteFits, IndexFits, At, IsTrue
<1>5. FileFits(c)'
  BY <1>2, <1>3 DEF WriteFits, FileFits, At, IsTrue
<1> QED
  BY <1>1, <1>4, <1>5 DEF WriteFits

LEMMA OutsiderFits ==
    ASSUME NEW c \in Clients, WriteFits(c), client'[c] = client[c], known'[c] = known[c], ~Inside(c)
    PROVE  WriteFits(c)'
<1>1. Named(c)'
  BY DEF WriteFits, Named, At
<1>2. ~At(c, Edits)'
  BY EditsInside DEF At
<1> QED
  BY <1>1, <1>2, OutsideFits

LEMMA ForeignFits ==
    ASSUME TypeOK, InPast, NEW c \in Clients, WriteFits(c), ChangeGames \/ ReplaceFile
    PROVE  WriteFits(c)'
<1>1. /\ client' = client /\ known' = known /\ temp' = temp
      /\ raced' = (raced \/ \E d \in Clients : Unlooked(d))
  BY DEF ChangeGames, ReplaceFile, Others, Races
<1>2. Named(c)'
  BY <1>1 DEF WriteFits, Named, At
<1>3. CASE ~At(c, Edits)
  <2>1. ~At(c, Edits)'
    BY <1>1, <1>3 DEF At
  <2> QED
    BY <1>2, <2>1, OutsideFits
<1>4. CASE At(c, Edits)
  <2>1. client[c] \in Writes /\ ~At(c, {"idle"}) /\ client[c].gen # 0
    BY <1>4, EditsInside, AtStep DEF WriteFits, IndexFits, Edits, At, Planned, Done
  <2>2. /\ client[c].gen \in Nat /\ client[c].gen <= clock
        /\ client[c].new \in Nat /\ client[c].new <= clock /\ clock \in Nat
    BY <2>1, WriteFields DEF InPast, PageInPast, TypeOK
  <2>3. Renewed
    BY ForeignType
  <2>4. file' # None => Present' = clock + 1
    BY <2>3 DEF Renewed, Present, TypeOK
  <2>5. file' = None => Present' = 0
    BY DEF Present
  <2>6. Present' # client[c].gen /\ (file' # None => Present' # client[c].new)
    BY <2>1, <2>2, <2>4, <2>5
  <2>7. IndexFits(c)'
    <3>1. IsTrue(client[c].games, client[c].gen)'
      BY <1>1, <2>6 DEF IsTrue
    <3> QED
      BY <1>1, <2>6, <3>1 DEF WriteFits, IndexFits, At
  <2>8. FileFits(c)'
    <3>1. SUFFICES ASSUME ~raced'
                   PROVE  FileFits(c)'
      BY DEF FileFits
    <3>2. ~Unlooked(c)
      BY <1>1, <3>1
    <3>3. /\ ~At(c, {"tearing", "swapping", "written"})
          /\ ~(At(c, {"planned"}) /\ client[c].op \in Appends)
      BY <3>2 DEF Unlooked
    <3>4. IsTrue(Result(c), client[c].new)'
      BY <1>1, <2>6 DEF IsTrue
    <3> QED
      BY <1>1, <2>6, <3>3, <3>4 DEF FileFits, At
  <2> QED
    BY <1>2, <2>7, <2>8 DEF WriteFits
<1> QED
  BY <1>3, <1>4

(* What a request's own steps do: it is opened by a true index.            *)
LEMMA OpenedFits ==
    ASSUME TypeOK, Same, raced' = raced, NEW c \in Clients, WriteFits(c), At(c, Opening),
           NEW open \in Slots, open.gen # 0, IsTrue(open.games, open.gen), Opened(c, open)
    PROVE  WriteFits(c)'
<1>1. CASE Ends(c)
  BY <1>1, EndsFits
<1>2. CASE ~Ends(c)
  <2>1. /\ client[c].op # None /\ known' = known /\ open.gen = client[c].gen
        /\ client' = [client EXCEPT ![c].pc = "opened", ![c].games = open.games]
    BY <1>2 DEF Opened
  <2>2. client[c] \in Writes
    BY <2>1, AtStep, ReadFields
  <2>3. client'[c] = [client[c] EXCEPT !.pc = "opened", !.games = open.games]
    BY <2>1 DEF TypeOK
  <2>4. /\ client'[c].pc = "opened" /\ client'[c].games = open.games
        /\ client'[c].gen = open.gen /\ client'[c].op = client[c].op
    <3> DEFINE was == client[c]
    <3>1. was \in Writes /\ client'[c] = [was EXCEPT !.pc = "opened", !.games = open.games]
      BY <2>2, <2>3
    <3>2. open.gen = was.gen
      BY <2>1
    <3> HIDE DEF was
    <3>3. client'[c] = [pc |-> "opened", entry |-> was.entry, op |-> was.op, gen |-> was.gen,
                        look |-> was.look, games |-> open.games, new |-> was.new]
      BY ONLY <3>1 DEF Writes
    <3>4. client'[c].pc = "opened" /\ client'[c].games = open.games
          /\ client'[c].gen = was.gen /\ client'[c].op = was.op
      BY ONLY <3>3
    <3> QED
      BY <3>2, <3>4 DEF was
  <2>5. Named(c)'
    BY <2>1, <2>4, NamedStays DEF WriteFits, At, Opening
  <2>6. IsTrue(open.games, open.gen)'
    BY DEF IsTrue, Same, Present
  <2>7. IsTrue(client[c].games, client[c].gen)'
    BY <2>4, <2>6 DEF IsTrue
  <2>8. IndexFits(c)'
    BY <2>4, <2>7 DEF IndexFits, At, Planned, Done
  <2>9. FileFits(c)'
    BY <2>4 DEF FileFits, At, Done
  <2> QED
    BY <2>5, <2>8, <2>9 DEF WriteFits
<1> QED
  BY <1>1, <1>2

LEMMA ReadFits ==
    ASSUME TypeOK, InPast, Truth, NEW c \in Clients, Read(c)
    PROVE  WriteFits(c)'
<1>0. Same /\ raced' = raced /\ WriteFits(c)
  BY DEF Read, Look, LookInSlot, OpenIndexed, OpenQueues, OpenFails, OpenUnready, disk, spent, Same, Truth
<1>1. ASSUME NEW e \in PathsOf[c], Look(c, e)
      PROVE  WriteFits(c)'
  <2>1. client'[c] = [pc |-> "looked", entry |-> e, op |-> None, gen |-> 0, look |-> file.gen,
                      games |-> None, new |-> 0]
    BY <1>1 DEF Look, TypeOK
  <2>2. client'[c].pc = "looked" /\ client'[c].op = None
    BY <2>1
  <2>3. ~At(c, Edits)' /\ Named(c)'
    BY <2>2 DEF At, Edits, Planned, Done, Named
  <2> QED
    BY <2>3, OutsideFits
<1>2. CASE LookInSlot(c)
  <2> DEFINE e == client[c].entry
             look == IF slot[e] = None \/ OpenAt(e, client[c].look) THEN client[c].look ELSE Present
  <2>1. At(c, Opening) /\ client[c] \in Reads \union Writes /\ e \in Entries
    BY <1>2, AtStep, ReadFields, WriteFields DEF LookInSlot, At, Opening
  <2> HIDE DEF look
  <2>2. CASE Ends(c)
    BY <2>2, EndsFits
  <2>3. CASE OpenAt(e, look) /\ Opened(c, slot[e])
    <3>1. slot[e] \in Slots /\ slot[e].gen # 0 /\ IsTrue(slot[e].games, slot[e].gen)
      BY <2>1, <2>3 DEF OpenAt, TypeOK, InPast, SlotsInPast, Truth, IndexIsTrue
    <3> QED
      BY <1>0, <2>1, <2>3, <3>1, OpenedFits
  <2>4. CASE /\ client' = [client EXCEPT ![c].pc = "opening", ![c].look = look]
             /\ known' = known
    <3>1. client'[c] = [client[c] EXCEPT !.pc = "opening", !.look = look]
      BY <2>4 DEF TypeOK
    <3>2. client'[c].pc = "opening" /\ client'[c].op = client[c].op /\ client'[c].gen = client[c].gen
      BY <2>1, <3>1 DEF Reads, Writes
    <3>3. Named(c)'
      BY <1>0, <2>1, <2>4, <3>2, NamedStays DEF WriteFits, At, Opening
    <3>4. ~At(c, Edits)'
      BY <3>2 DEF At, Edits, Planned, Done
    <3> QED
      BY <3>3, <3>4, OutsideFits
  <2> QED
    BY <1>2, <2>2, <2>3, <2>4 DEF LookInSlot, look
<1>3. CASE OpenIndexed(c)
  <2> DEFINE e == client[c].entry
             g == client[c].look
             open == [gen |-> g, games |-> head[e].games]
  <2>1. At(c, Opening) /\ e \in Entries /\ g \in 1..clock
    BY <1>3, AtStep, ReadFields, WriteFields DEF OpenIndexed, At, Opening, InPast, PageInPast
  <2>2. head[e] \in Heads /\ head[e].stamp = g /\ IsTrue(head[e].games, head[e].stamp)
    BY <1>3, <2>1 DEF OpenIndexed, Opens, TypeOK, Truth, IndexIsTrue
  <2>3. /\ open \in Slots /\ open.gen # 0 /\ open.gen = head[e].stamp
        /\ open.games = head[e].games
    BY <2>1, <2>2 DEF Slots, Heads, TypeOK
  <2>4. Opened(c, open)
    BY <1>3 DEF OpenIndexed
  <2> HIDE DEF open
  <2> QED
    BY <1>0, <2>1, <2>2, <2>3, <2>4, OpenedFits
<1>4. CASE OpenQueues(c) \/ OpenFails(c) \/ OpenUnready(c)
  BY <1>4, EndsFits DEF OpenQueues, OpenFails, OpenUnready
<1> QED
  BY <1>1, <1>2, <1>3, <1>4 DEF Read

LEMMA SendFits ==
    ASSUME TypeOK, NEW c \in Clients, NEW e \in PathsOf[c], Send(c, e)
    PROVE  WriteFits(c)'
<1>1. PICK op \in OpsOn(known[c].games) :
          client' = [client EXCEPT ![c] =
              [pc |-> "waiting", entry |-> e, op |-> op, gen |-> known[c].gen, look |-> 0,
               games |-> None, new |-> 0]]
  BY DEF Send
<1>2. client'[c].pc = "waiting" /\ client'[c].gen = known[c].gen /\ client'[c].op = op
  BY <1>1 DEF TypeOK
<1>3. known' = known /\ known[c].games \in Games
  BY DEF Send, TypeOK
<1>4. Fits(op, known[c].games)
  BY <1>3, OpsOnFit
<1>5. Named(c)' /\ ~At(c, Edits)'
  BY <1>2, <1>3, <1>4 DEF Named, At, Edits, Planned, Done
<1> QED
  BY <1>5, OutsideFits

(* What a request that edits knows of itself.                              *)
LEMMA EditFacts ==
    ASSUME TypeOK, InPast, Truth, NEW c \in Clients, At(c, Edits)
    PROVE  /\ At(c, Writing) /\ client[c] \in Writes
           /\ client[c].op \in Ops /\ client[c].op # None
           /\ client[c].games \in Games \union {None}
           /\ client[c].gen \in Nat \ {0} /\ client[c].gen = known[c].gen
           /\ client[c].new \in Nat /\ client[c].new <= clock
           /\ known[c].games \in Games /\ Fits(client[c].op, known[c].games)
           /\ Result(c) \in Games
           /\ (~raced /\ Present = client[c].gen) => file.games = known[c].games
           /\ WriteFits(c)
<1>1. At(c, Writing) /\ client[c] \in Writes /\ WriteFits(c) /\ ~At(c, {"idle"})
  BY EditsInside, AtStep DEF Truth, At, Edits, Planned, Done
<1>2. /\ client[c].op \in Ops /\ client[c].op # None
      /\ client[c].games \in Games \union {None}
      /\ client[c].gen \in Nat /\ client[c].new \in Nat /\ client[c].new <= clock
  BY <1>1, WriteFields DEF InPast, PageInPast
<1>3. client[c].gen # 0
  BY <1>1 DEF WriteFits, IndexFits, At, Edits
<1>4. client[c].gen = known[c].gen /\ Fits(client[c].op, known[c].games)
  BY <1>1, <1>2, <1>3 DEF WriteFits, Named, At
<1>5. known[c].games \in Games
  BY DEF TypeOK
<1>6. Result(c) \in Games
  BY <1>2, <1>4, <1>5, EditedSameType DEF Result
<1>7. (~raced /\ Present = client[c].gen) => file.games = known[c].games
  BY <1>3, <1>4, <1>5, PresentType DEF Truth, KnownIsTrue, IsTrue
<1> QED
  BY <1>1, <1>2, <1>3, <1>4, <1>5, <1>6, <1>7

(* A step of a write that changes nothing but itself and the temporary     *)
(* file.                                                                   *)
LEMMA GoesNamed ==
    ASSUME TypeOK, NEW c \in Clients, WriteFits(c), At(c, Writing), NEW pc, Goes(c, pc),
           known' = known
    PROVE  Named(c)' /\ Result(c)' = Result(c)
<1>1. client'[c].op = client[c].op /\ client'[c].gen = client[c].gen
  BY GoesOn
<1> QED
  BY <1>1, NamedStays DEF WriteFits, At, Result

LEMMA EnterFits ==
    ASSUME TypeOK, InPast, Truth, NEW c \in Clients,
           Enter(c) \/ LookToWrite(c) \/ Forget(c)
    PROVE  WriteFits(c)'
<1>0. At(c, Writing) /\ client[c] \in Writes /\ WriteFits(c) /\ known' = known
  BY AtStep DEF Enter, LookToWrite, Forget, At, Writing, Truth
<1>1. CASE Enter(c)
  <2>1. CASE Ends(c)
    BY <2>1, EndsFits
  <2>2. CASE Goes(c, "entered")
    <3>1. Named(c)' /\ client'[c].pc = "entered"
      BY <1>0, <2>2, GoesNamed, GoesOn
    <3> QED
      BY <3>1, OutsideFits DEF At, Edits, Planned, Done
  <2> QED
    BY <1>1, <2>1, <2>2 DEF Enter
<1>2. CASE LookToWrite(c)
  <2>1. CASE Ends(c)
    BY <2>1, EndsFits
  <2>2. CASE client' = [client EXCEPT ![c].pc = "looked", ![c].look = file.gen]
    <3>1. client'[c] = [client[c] EXCEPT !.pc = "looked", !.look = file.gen]
      BY <2>2 DEF TypeOK
    <3>2. client'[c].pc = "looked" /\ client'[c].op = client[c].op /\ client'[c].gen = client[c].gen
      BY <1>0, <3>1 DEF Writes
    <3>3. Named(c)'
      BY <1>0, <3>2, NamedStays DEF WriteFits, At
    <3> QED
      BY <3>2, <3>3, OutsideFits DEF At, Edits, Planned, Done
  <2> QED
    BY <1>2, <2>1, <2>2 DEF LookToWrite
<1>3. CASE Forget(c)
  <2>1. client'[c] = [client[c] EXCEPT !.pc = "entered", !.gen = 0]
    BY <1>3 DEF Forget, TypeOK
  <2>2. client'[c].pc = "entered" /\ client'[c].gen = 0
    BY <1>0, <2>1 DEF Writes
  <2>3. Named(c)' /\ ~At(c, Edits)'
    BY <2>2 DEF Named, At, Edits, Planned, Done
  <2> QED
    BY <2>3, OutsideFits
<1> QED
  BY <1>1, <1>2, <1>3

LEMMA HoldFits ==
    ASSUME TypeOK, InPast, Truth, NEW c \in Clients,
           Hold(c) \/ CheckHeld(c) \/ FindDamaged(c)
    PROVE  WriteFits(c)'
<1>0. At(c, Edits) /\ Same /\ raced' = raced /\ known' = known
  BY DEF Hold, CheckHeld, FindDamaged, At, Edits, disk, Same, spent
<1>1. /\ At(c, Writing) /\ client[c] \in Writes
      /\ client[c].op \in Ops /\ client[c].op # None
      /\ client[c].games \in Games \union {None}
      /\ client[c].gen \in Nat \ {0} /\ client[c].gen = known[c].gen
      /\ (~raced /\ Present = client[c].gen) => file.games = known[c].games
      /\ Fits(client[c].op, known[c].games)
      /\ WriteFits(c)
  BY <1>0, EditFacts
<1>2. CASE Hold(c)
  <2>1. CASE Ends(c)
    BY <2>1, EndsFits
  <2>2. CASE Goes(c, "held")
    <3>1. /\ client'[c].pc = "held" /\ client'[c].games = client[c].games
          /\ client'[c].gen = client[c].gen /\ client'[c].op = client[c].op
      BY <1>1, <2>2, GoesOn
    <3>2. Named(c)'
      BY <1>0, <1>1, <2>2, GoesNamed
    <3>3. IsTrue(client[c].games, client[c].gen)
      BY <1>1, <1>2 DEF Hold, WriteFits, IndexFits, At
    <3>4. IsTrue(client[c].games, client[c].gen)'
      BY <1>0, <3>1, <3>3 DEF IsTrue, Same, Present
    <3>5. client[c].games = None \/ Fits(client[c].op, client[c].games)
      <4>1. CASE client[c].op \in Appends
        BY <4>1 DEF Fits
      <4>2. CASE client[c].games # None /\ client[c].op \notin Appends
        <5>1. client[c].op.n \in Nat \ {0} /\ client[c].op.n <= Len(client[c].games)
          BY <1>1, <1>2, <4>2, OpKinds DEF Hold, Ops
        <5>2. Len(client[c].games) \in Nat
          BY <1>1, <4>2 DEF Games
        <5> QED
          BY <5>1, <5>2 DEF Fits
      <4> QED
        BY <4>1, <4>2
    <3>6. IndexFits(c)'
      BY <1>1, <3>1, <3>4, <3>5 DEF IndexFits, At, Planned, Done
    <3>7. FileFits(c)'
      BY <3>1 DEF FileFits, At, Done
    <3> QED
      BY <3>2, <3>6, <3>7 DEF WriteFits
  <2> QED
    BY <1>2, <2>1, <2>2 DEF Hold
<1>3. CASE CheckHeld(c)
  <2>1. client'[c] = [client[c] EXCEPT !.pc = "planned", !.new = Present]
    BY <1>3 DEF CheckHeld, TypeOK
  <2>2. /\ client'[c].pc = "planned" /\ client'[c].games = client[c].games
        /\ client'[c].gen = client[c].gen /\ client'[c].op = client[c].op
        /\ client'[c].new = Present
    BY <1>1, <2>1 DEF Writes
  <2>3. Named(c)'
    BY <1>0, <1>1, <2>2, NamedStays DEF WriteFits, At
  <2>4. /\ Present = client[c].gen /\ client[c].games # None /\ At(c, {"held"})
        /\ NeighboursFound(client[c].op, client[c].games, file.games)
    BY <1>3 DEF CheckHeld
  <2>5. file # None
    BY <1>1, <2>4, PresentType
  <2>6. Fits(client[c].op, client[c].games) /\ (~raced => client[c].games = file.games)
    BY <1>1, <2>4, <2>5 DEF WriteFits, IndexFits, At, IsTrue
  <2>7. file' = file /\ Present' = Present
    BY <1>0 DEF Same, Present
  <2>8. IndexFits(c)'
    BY <1>0, <1>1, <2>2, <2>4, <2>6, <2>7 DEF IndexFits, At, Planned, Done
  <2>9. FileFits(c)'
    BY <2>2, <2>4, <2>7 DEF FileFits, At, Done
  <2> QED
    BY <2>3, <2>8, <2>9 DEF WriteFits
<1>4. CASE FindDamaged(c)
  <2>1. Goes(c, "damaged")
    BY <1>4 DEF FindDamaged
  <2>2. client'[c].pc = "damaged" /\ client'[c].gen = client[c].gen
    BY <1>1, <2>1, GoesOn
  <2>3. Named(c)'
    BY <1>0, <1>1, <2>1, GoesNamed
  <2>4. IndexFits(c)' /\ FileFits(c)'
    BY <1>1, <2>2 DEF IndexFits, FileFits, At, Planned, Done
  <2> QED
    BY <2>3, <2>4 DEF WriteFits
<1> QED
  BY <1>2, <1>3, <1>4

(* An append: what it leaves, whole, is its page's games and one more.     *)
LEMMA AppendFits ==
    ASSUME TypeOK, InPast, Truth, NEW c \in Clients, Tear(c) \/ Appended(c)
    PROVE  WriteFits(c)'
<1>0. At(c, Edits) /\ At(c, Planned) /\ raced' = raced /\ known' = known
  BY DEF Tear, Appended, At, Edits, Planned, spent
<1>1. /\ At(c, Writing) /\ client[c] \in Writes
      /\ client[c].games \in Games \union {None}
      /\ client[c].gen \in Nat \ {0}
      /\ (~raced /\ Present = client[c].gen) => file.games = known[c].games
      /\ known[c].games \in Games
      /\ WriteFits(c)
  BY <1>0, EditFacts
<1>2. /\ client[c].games # None /\ Fits(client[c].op, client[c].games)
      /\ ~raced => client[c].games = known[c].games
  BY <1>0, <1>1 DEF WriteFits, IndexFits
<1>3. CASE Tear(c)
  <2> DEFINE new == IF file' = file THEN 0 ELSE clock'
  <2>1. client'[c] = [client[c] EXCEPT !.pc = "tearing", !.new = new]
    BY <1>3 DEF Tear, TypeOK
  <2>2. /\ client'[c].pc = "tearing" /\ client'[c].games = client[c].games
        /\ client'[c].gen = client[c].gen /\ client'[c].op = client[c].op
        /\ client'[c].new = new
    BY <1>1, <2>1 DEF Writes
  <2>3. Named(c)'
    BY <1>0, <1>1, <2>2, NamedStays DEF WriteFits, At
  <2>4. client[c].op \in Appends
    BY <1>3 DEF Tear
  <2>5. IndexFits(c)'
    BY <1>0, <1>1, <1>2, <2>2, <2>4 DEF IndexFits, At, Planned, Done
  <2>6. ASSUME ~raced
        PROVE  file' # None /\ file'.gen = new /\ file'.games = Append(known[c].games, Torn)
    <3>1. Present = client[c].gen /\ client[c].new = Present
      BY <1>1, <1>3, <2>4, <2>6 DEF Tear, WriteFits, FileFits
    <3>2. file # None /\ file.games = known[c].games /\ file.gen \in 1..clock
      BY <1>1, <2>6, <3>1, PresentType
    <3>3. Append(file.games, Torn) \in Games
      BY <1>1, <3>2 DEF Games
    <3>4. Leaves(c, Append(file.games, Torn))
      BY <1>3 DEF Tear
    <3>5. Renewed /\ file' # None /\ file'.games = Append(file.games, Torn)
      BY <3>1, <3>2, <3>3, <3>4, LeavesType
    <3>6. file'.gen = clock + 1 /\ clock' = clock + 1 /\ clock \in Nat
      BY <3>5 DEF Renewed, TypeOK
    <3>7. file' # file
      BY <3>2, <3>6
    <3> QED
      BY <3>2, <3>5, <3>6, <3>7
  <2> HIDE DEF new
  <2>7. FileFits(c)'
    BY <1>0, <2>2, <2>6 DEF FileFits, At, Done
  <2> QED
    BY <2>3, <2>5, <2>7 DEF WriteFits
<1>4. CASE Appended(c)
  <2>1. Goes(c, "written") /\ At(c, {"tearing"})
    BY <1>4 DEF Appended
  <2>2. /\ client'[c].pc = "written" /\ client'[c].games = client[c].games
        /\ client'[c].gen = client[c].gen /\ client'[c].op = client[c].op
    BY <1>1, <2>1, GoesOn
  <2>3. Named(c)' /\ Result(c)' = Result(c)
    BY <1>0, <1>1, <2>1, GoesNamed
  <2>4. client[c].op \in Appends
    BY <1>1, <2>1 DEF WriteFits, IndexFits
  <2>5. IndexFits(c)'
    BY <1>0, <1>1, <1>2, <2>2 DEF IndexFits, At, Planned, Done
  <2>6. ASSUME ~raced
        PROVE  file' # None /\ file'.games = Result(c)
    <3>1. file # None /\ file.gen = client[c].new /\ file.games = Append(known[c].games, Torn)
      BY <1>1, <2>1, <2>6 DEF WriteFits, FileFits
    <3>2. Present = client[c].new
      BY <3>1 DEF Present
    <3>3. Untorn(c) = known[c].games
      <4> DEFINE g == known[c].games
      <4>1. Append(g, Torn) \in Games /\ Len(Append(g, Torn)) = Len(g) + 1 /\ Len(g) \in Nat
            /\ \A i \in 1..Len(g) : Append(g, Torn)[i] = g[i]
        BY <1>1 DEF Games
      <4>2. Untorn(c) = SubSeq(Append(g, Torn), 1, Len(g))
        BY <3>1, <4>1 DEF Untorn
      <4>3. SubSeq(Append(g, Torn), 1, Len(g)) = g
        BY <1>1, <4>1 DEF Games
      <4> QED
        BY <4>2, <4>3
    <3>4. Edited(client[c].op, client[c].games, Untorn(c)) = Result(c)
      BY <1>1, <2>4, <3>3, AppendedGames DEF Result
    <3>5. Result(c) \in Games
      BY <1>1, <2>4, AppendedGames DEF Result
    <3>6. Leaves(c, Edited(client[c].op, client[c].games, Untorn(c)))
      BY <1>4 DEF Appended
    <3> QED
      BY <3>1, <3>2, <3>4, <3>5, <3>6, LeavesType
  <2>7. FileFits(c)'
    BY <1>0, <2>2, <2>3, <2>6 DEF FileFits, At, Done
  <2> QED
    BY <2>3, <2>5, <2>7 DEF WriteFits
<1> QED
  BY <1>3, <1>4

(* A copy: what it leaves is its page's games, edited.                     *)
LEMMA CopyFits ==
    ASSUME TypeOK, InPast, Truth, NEW c \in Clients,
           CreateTemp(c) \/ Copy(c) \/ LookOnceMore(c) \/ Rename(c)
    PROVE  WriteFits(c)'
<1>0. At(c, Edits) /\ At(c, Planned) /\ raced' = raced /\ known' = known
  BY DEF CreateTemp, Copy, LookOnceMore, Rename, At, Edits, Planned, spent
<1>1. /\ At(c, Writing) /\ client[c] \in Writes
      /\ client[c].gen \in Nat \ {0}
      /\ (~raced /\ Present = client[c].gen) => file.games = known[c].games
      /\ Result(c) \in Games
      /\ WriteFits(c)
  BY <1>0, EditFacts
<1>2. /\ client[c].games # None /\ Fits(client[c].op, client[c].games)
      /\ ~raced => client[c].games = known[c].games
  BY <1>0, <1>1 DEF WriteFits, IndexFits
<1>3. ASSUME NEW pc \in {"copying", "copied", "swapping", "written"}, Goes(c, pc),
             (pc = "copying" /\ Present' = client[c].gen) =>
                 NeighboursFound(client[c].op, client[c].games, file'.games)
      PROVE  /\ Named(c)' /\ IndexFits(c)' /\ Result(c)' = Result(c)
             /\ client'[c].pc = pc /\ client'[c].gen = client[c].gen
  <2>1. /\ client'[c].pc = pc /\ client'[c].games = client[c].games
        /\ client'[c].gen = client[c].gen /\ client'[c].op = client[c].op
    BY <1>1, <1>3, GoesOn
  <2>2. Named(c)' /\ Result(c)' = Result(c)
    BY <1>0, <1>1, <1>3, GoesNamed
  <2>3. IndexFits(c)'
    BY <1>0, <1>1, <1>2, <1>3, <2>1 DEF IndexFits, At, Planned, Done
  <2> QED
    BY <2>1, <2>2, <2>3
<1>4. CASE CreateTemp(c)
  <2>1. Goes(c, "copying") /\ At(c, {"planned"}) /\ file' = file
    BY <1>4 DEF CreateTemp
  <2>2. Present' = client[c].gen => NeighboursFound(client[c].op, client[c].games, file'.games)
    BY <1>1, <2>1 DEF WriteFits, IndexFits, At, Present
  <2>3. Named(c)' /\ IndexFits(c)' /\ client'[c].pc = "copying"
    BY <1>3, <2>1, <2>2
  <2>4. FileFits(c)'
    BY <2>3 DEF FileFits, At, Done
  <2> QED
    BY <2>3, <2>4 DEF WriteFits
<1>5. CASE Copy(c)
  <2>1. Goes(c, "copied") /\ file' = file
    BY <1>5 DEF Copy
  <2>2. /\ Named(c)' /\ IndexFits(c)' /\ Result(c)' = Result(c)
        /\ client'[c].pc = "copied" /\ client'[c].gen = client[c].gen
    BY <1>3, <2>1
  <2>3. ASSUME ~raced, Present = client[c].gen
        PROVE  temp' \in {None, Result(c)}
    BY <1>1, <1>2, <1>5, <2>3 DEF Copy, Result
  <2>4. FileFits(c)'
    BY <1>0, <2>1, <2>2, <2>3 DEF FileFits, At, Done, Present
  <2> QED
    BY <2>2, <2>4 DEF WriteFits
<1>6. CASE LookOnceMore(c)
  <2>1. Goes(c, "swapping") /\ file' = file /\ temp' = temp /\ At(c, {"copied"}) /\ Present = client[c].gen
    BY <1>6 DEF LookOnceMore, disk
  <2>2. /\ Named(c)' /\ IndexFits(c)' /\ Result(c)' = Result(c)
        /\ client'[c].pc = "swapping" /\ client'[c].gen = client[c].gen
    BY <1>3, <2>1
  <2>3. ~raced => temp \in {None, Result(c)}
    BY <1>1, <2>1 DEF WriteFits, FileFits
  <2>4. FileFits(c)'
    BY <1>0, <2>1, <2>2, <2>3 DEF FileFits, At, Done, Present
  <2> QED
    BY <2>2, <2>4 DEF WriteFits
<1>7. CASE Rename(c)
  <2>1. Goes(c, "written") /\ At(c, {"swapping"}) /\ temp # None /\ Put(temp)
    BY <1>7 DEF Rename
  <2>2. /\ Named(c)' /\ IndexFits(c)' /\ Result(c)' = Result(c) /\ client'[c].pc = "written"
    BY <1>3, <2>1
  <2>3. temp \in Games /\ (~raced => temp = Result(c))
    BY <1>1, <2>1 DEF WriteFits, FileFits, TypeOK
  <2>4. file' # None /\ file'.games = temp
    BY <2>1, <2>3, PutType
  <2>5. FileFits(c)'
    BY <1>0, <2>2, <2>3, <2>4 DEF FileFits, At, Done
  <2> QED
    BY <2>2, <2>5 DEF WriteFits
<1> QED
  BY <1>4, <1>5, <1>6, <1>7

(* The generation and the index of what was left.                          *)
LEMMA IndexingFits ==
    ASSUME TypeOK, InPast, Truth, NEW c \in Clients,
           LookAfter(c) \/ BeginUpdate(c) \/ EndUpdate(c)
    PROVE  WriteFits(c)'
<1>0. At(c, Edits) /\ At(c, Planned) /\ raced' = raced /\ known' = known /\ Same
  BY DEF LookAfter, BeginUpdate, EndUpdate, At, Edits, Planned, Done, spent, disk, Same
<1>1. /\ At(c, Writing) /\ client[c] \in Writes
      /\ client[c].gen \in Nat \ {0}
      /\ WriteFits(c)
  BY <1>0, EditFacts
<1>2. /\ client[c].games # None /\ Fits(client[c].op, client[c].games)
      /\ ~raced => client[c].games = known[c].games
  BY <1>0, <1>1 DEF WriteFits, IndexFits
<1>3. ASSUME NEW pc \in Done, client'[c].pc = pc, client'[c].games = client[c].games,
             client'[c].gen = client[c].gen, client'[c].op = client[c].op,
             client'[c].new # 0, IsTrue(Result(c), client'[c].new) \/ raced
      PROVE  WriteFits(c)'
  <2>1. Named(c)'
    BY <1>0, <1>1, <1>3, NamedStays DEF WriteFits, At
  <2>2. Result(c)' = Result(c)
    BY <1>0, <1>3 DEF Result
  <2>3. IndexFits(c)'
    BY <1>0, <1>1, <1>2, <1>3 DEF IndexFits, At, Planned, Done
  <2>4. ~raced => IsTrue(Result(c), client[c].new)'
    BY <1>0, <1>3, <2>2 DEF IsTrue, Same, Present
  <2>5. FileFits(c)'
    BY <1>0, <1>3, <2>4 DEF FileFits, At, Done
  <2> QED
    BY <2>1, <2>3, <2>5 DEF WriteFits
<1>4. CASE LookAfter(c)
  <2>1. CASE file = None
    BY <1>4, <2>1, EndsFits DEF LookAfter, Release
  <2>2. CASE file # None
    <3>1. client'[c] = [client[c] EXCEPT !.pc = "stamped", !.new = file.gen] /\ At(c, {"written"})
      BY <1>4, <2>2 DEF LookAfter, TypeOK
    <3>2. /\ client'[c].pc = "stamped" /\ client'[c].games = client[c].games
          /\ client'[c].gen = client[c].gen /\ client'[c].op = client[c].op
          /\ client'[c].new = file.gen
      BY <1>1, <3>1 DEF Writes
    <3>3. file.gen # 0
      BY <2>2, PresentType DEF TypeOK
    <3>4. IsTrue(Result(c), file.gen) \/ raced
      BY <1>1, <3>1 DEF WriteFits, FileFits, IsTrue
    <3> QED
      BY <1>3, <3>2, <3>3, <3>4 DEF Done
  <2> QED
    BY <2>1, <2>2
<1>5. ASSUME NEW pc \in {"updating", "installing"}, Goes(c, pc), At(c, Done)
      PROVE  WriteFits(c)'
  <2>1. /\ client'[c].pc = pc /\ client'[c].games = client[c].games
        /\ client'[c].gen = client[c].gen /\ client'[c].op = client[c].op
        /\ client'[c].new = client[c].new
    BY <1>1, <1>5, GoesOn
  <2>2. client[c].new # 0 /\ (IsTrue(Result(c), client[c].new) \/ raced)
    BY <1>1, <1>5 DEF WriteFits, IndexFits, FileFits
  <2> QED
    BY <1>3, <1>5, <2>1, <2>2 DEF Done
<1>6. CASE BeginUpdate(c)
  BY <1>5, <1>6 DEF BeginUpdate, At, Done
<1>7. CASE EndUpdate(c)
  BY <1>5, <1>7 DEF EndUpdate, At, Done
<1> QED
  BY <1>4, <1>6, <1>7

LEMMA WriteFitsStep ==
    ASSUME TypeOK, OneInside, InPast, Truth, [Next]_vars
    PROVE  \A c \in Clients : WriteFits(c)'
<1>1. ASSUME NEW c \in Clients, Read(c) \/ \E e \in PathsOf[c] : Send(c, e), NEW d \in Clients
      PROVE  WriteFits(d)'
  <2>1. CASE d = c
    BY <1>1, <2>1, ReadFits, SendFits
  <2>2. CASE d # c
    <3>1. client'[d] = client[d] /\ known'[d] = known[d] /\ raced' = raced
      BY <1>1, <2>2, ReadActs, SendActs
    <3>2. Same /\ temp' = temp
      BY <1>1 DEF Read, Look, LookInSlot, OpenIndexed, OpenQueues, OpenFails, OpenUnready, Send, disk, Same
    <3> QED
      BY <3>1, <3>2, StillFits DEF Truth
  <2> QED
    BY <2>1, <2>2
<1>2. ASSUME NEW c \in Clients, Write(c), NEW d \in Clients
      PROVE  WriteFits(d)'
  <2>1. CASE d = c
    <3>1. CASE Ends(c)
      BY <2>1, <3>1, EndsFits
    <3>2. CASE ~Ends(c)
      <4>1. \/ Enter(c) \/ LookToWrite(c) \/ Forget(c) \/ Hold(c) \/ CheckHeld(c) \/ FindDamaged(c)
            \/ Tear(c) \/ Appended(c) \/ CreateTemp(c) \/ Copy(c) \/ LookOnceMore(c) \/ Rename(c)
            \/ LookAfter(c) \/ BeginUpdate(c) \/ EndUpdate(c)
        BY <1>2, <3>2 DEF Write, Decline, Refuse, CutBack, TempTaken, CopyFails, ChangedMeanwhile,
                          NothingToRename, RemoveTemp, Release, UpdateFails, Install
      <4> QED
        BY <2>1, <4>1, EnterFits, HoldFits, AppendFits, CopyFits, IndexingFits
    <3> QED
      BY <3>1, <3>2
  <2>2. CASE d # c
    <3>1. client'[d] = client[d] /\ known'[d] = known[d] /\ raced' = raced /\ (Inside(c) \/ Enter(c))
      BY <1>2, <2>2, WriteActs
    <3>2. CASE Inside(c)
      <4>1. ~Inside(d)
        BY <2>2, <3>2 DEF OneInside
      <4> QED
        BY <3>1, <4>1, OutsiderFits DEF Truth
    <3>3. CASE Enter(c)
      <4>1. Same /\ temp' = temp
        BY <3>3 DEF Enter, disk, Same
      <4> QED
        BY <3>1, <4>1, StillFits DEF Truth
    <3> QED
      BY <3>1, <3>2, <3>3
  <2> QED
    BY <2>1, <2>2
<1>3. CASE Builder \/ UNCHANGED vars
  <2>1. client' = client /\ known' = known /\ raced' = raced /\ Same /\ temp' = temp
    BY <1>3 DEF Builder, BeginBuild, ReadGames, PublishIndex, BuildFails, vars, disk, spent, Same
  <2> QED
    BY <2>1, StillFits DEF Truth
<1>4. CASE Environment
  <2>1. CASE ChangeGames \/ ReplaceFile
    BY <2>1, ForeignFits DEF Truth
  <2>2. CASE Restart
    <3>1. \A c \in Clients : client'[c].pc = "idle"
      BY <2>2 DEF Restart, AtRest
    <3>2. \A c \in Clients : ~At(c, Edits)' /\ Named(c)'
      BY <3>1 DEF At, Edits, Planned, Done, Named, Opening, Writing, Editing, Holding
    <3> QED
      BY <3>2, OutsideFits
  <2>3. CASE ~(ChangeGames \/ ReplaceFile) /\ ~Restart
    <3>1. client' = client /\ known' = known /\ raced' = raced /\ Same /\ temp' \in {temp, None}
      BY <1>4, <2>3 DEF Environment, DamageHead, List, Unlist, Sweep, MinutePasses, disk, spent, Same
    <3> QED
      BY <3>1, StillFits DEF Truth
  <2> QED
    BY <2>1, <2>2, <2>3
<1> QED
  BY <1>1, <1>2, <1>3, <1>4 DEF Next
-----------------------------------------------------------------------------
(* The invariant, and what follows from it.                                *)

LEMMA InitIInv ==
    ASSUME Init
    PROVE  IInv
<1>1. TypeOK
  BY InitType
<1>2. \A c \in Clients : client[c].pc = "idle"
  BY DEF Init, AtRest
<1>3. \A c \in Clients : ~Inside(c) /\ ~At(c, Opening \union Writing) /\ ~At(c, Edits)
  BY <1>2 DEF Inside, At, Opening, Writing, Editing, Holding, Edits, Planned, Done
<1>4. \A c \in Clients : WriteFits(c)
  BY <1>3 DEF WriteFits, Named, IndexFits, FileFits, At, Edits, Planned, Done
<1>5. file.gen = 1 /\ Present # 0 /\ clock = 1
  <2>1. PICK t1, t2 \in Texts : file = [gen |-> 1, games |-> <<t1, t2>>] /\ clock = 1
    BY DEF Init
  <2>2. file \in [gen : Nat, games : Games]
    BY <2>1 DEF Games
  <2>3. file # None
    BY <2>2
  <2> QED
    BY <2>1, <2>3 DEF Present
<1>6. \A c \in Clients : known[c].gen = 0
  BY DEF Init, Unread
<1>7. InPast
  BY <1>2, <1>5, <1>6 DEF Init, InPast, HeadsInPast, SlotsInPast, JobsInPast, PageInPast, At, Opening
<1>8. IndexIsTrue /\ KnownIsTrue /\ BuildIsTrue
  BY <1>5, <1>6 DEF Init, IndexIsTrue, KnownIsTrue, BuildIsTrue, IsTrue
<1> QED
  BY <1>1, <1>3, <1>4, <1>7, <1>8 DEF IInv, OneInside, Truth

LEMMA StepIInv ==
    ASSUME IInv, [Next]_vars
    PROVE  IInv'
<1>1. TypeOK /\ OneInside /\ InPast /\ Truth /\ \A c \in Clients : WriteFits(c)
  BY DEF IInv, Truth
<1>2. TypeOK'
  BY <1>1, StepType
<1>3. OneInside'
  BY <1>1, OneInsideStep
<1>4. InPast'
  BY <1>1, InPastStep
<1>5. IndexIsTrue' /\ KnownIsTrue' /\ BuildIsTrue'
  BY <1>1, TrueStep
<1>6. \A c \in Clients : WriteFits(c)'
  BY <1>1, WriteFitsStep
<1> QED
  BY <1>2, <1>3, <1>4, <1>5, <1>6 DEF IInv, Truth

(* The inductive invariant: from the first state on, and by every step.    *)
THEOREM Invariance == Spec => []IInv
BY InitIInv, StepIInv, PTL DEF Spec

(* Every variable keeps its type: no edit and no update of an index leaves *)
(* anything but games, whatever the file became meanwhile.                 *)
THEOREM TypeCorrect == Spec => []TypeOK
<1>1. IInv => TypeOK
  BY DEF IInv
<1> QED
  BY <1>1, Invariance, PTL

(* pgnfile/edit.rs, catalog.rs: no index, on the disk or in a slot, that   *)
(* names the file's generation tells of other games than the file's.       *)
THEOREM IndexAlwaysTrue == Spec => []IndexIsTrue
<1>1. IInv => IndexIsTrue
  BY DEF IInv, Truth
<1> QED
  BY <1>1, Invariance, PTL

(* write.rs: no page is told the file's generation with other games.       *)
THEOREM KnownAlwaysTrue == Spec => []KnownIsTrue
<1>1. IInv => KnownIsTrue
  BY DEF IInv, Truth
<1> QED
  BY <1>1, Invariance, PTL

(* A write comes to have written by ending its append or its copy only.    *)
LEMMA OpenedPlaces ==
    ASSUME TypeOK, NEW c \in Clients, At(c, Opening), NEW open, Opened(c, open)
    PROVE  client'[c].pc \in {"idle", "opened"}
<1>1. CASE Ends(c)
  BY <1>1, EndsHere
<1>2. CASE ~Ends(c)
  <2>1. client[c] \in Writes /\ client'[c] = [client[c] EXCEPT !.pc = "opened", !.games = open.games]
    BY <1>2, AtStep, ReadFields DEF Opened, TypeOK
  <2> QED
    BY <2>1 DEF Writes
<1> QED
  BY <1>1, <1>2

LEMMA ReadPlaces ==
    ASSUME TypeOK, NEW c \in Clients, Read(c)
    PROVE  client'[c].pc \in {"idle", "opened"} \union Opening
<1>1. ASSUME NEW e \in PathsOf[c], Look(c, e)
      PROVE  client'[c].pc = "looked"
  BY <1>1 DEF Look, TypeOK
<1>2. CASE LookInSlot(c)
  <2>1. At(c, Opening) /\ client[c] \in Reads \union Writes
    BY <1>2, AtStep DEF LookInSlot, At, Opening
  <2>2. \/ Ends(c) \/ (\E open : Opened(c, open))
        \/ \E look : client' = [client EXCEPT ![c].pc = "opening", ![c].look = look]
    BY <1>2 DEF LookInSlot
  <2>3. ASSUME NEW look, client' = [client EXCEPT ![c].pc = "opening", ![c].look = look]
        PROVE  client'[c].pc = "opening"
    <3>1. client'[c] = [client[c] EXCEPT !.pc = "opening", !.look = look]
      BY <2>3 DEF TypeOK
    <3> QED
      BY <2>1, <3>1 DEF Reads, Writes
  <2> QED
    BY <2>1, <2>2, <2>3, EndsHere, OpenedPlaces DEF Opening
<1>3. CASE OpenIndexed(c)
  <2>1. At(c, Opening) /\ \E open : Opened(c, open)
    BY <1>3 DEF OpenIndexed, At, Opening
  <2> QED
    BY <2>1, OpenedPlaces
<1>4. CASE OpenQueues(c) \/ OpenFails(c) \/ OpenUnready(c)
  BY <1>4, EndsHere DEF OpenQueues, OpenFails, OpenUnready
<1> QED
  BY <1>1, <1>2, <1>3, <1>4 DEF Read, Opening

LEMMA WritePlaces ==
    ASSUME TypeOK, NEW c \in Clients, Write(c), client'[c].pc = "written"
    PROVE  Appended(c) \/ Rename(c)
<1>1. At(c, Writing) /\ client[c] \in Writes
  BY WriteActs, AtStep
<1>2. ~Ends(c)
  BY EndsHere
<1>3. ASSUME NEW pc, Goes(c, pc)
      PROVE  pc = "written"
  BY <1>1, <1>3, GoesOn
<1>4. ASSUME NEW pc, NEW gen, client' = [client EXCEPT ![c].pc = pc, ![c].gen = gen]
      PROVE  pc = "written"
  <2>1. client'[c] = [client[c] EXCEPT !.pc = pc, !.gen = gen]
    BY <1>4 DEF TypeOK
  <2> QED
    BY <1>1, <2>1 DEF Writes
<1>5. ASSUME NEW pc, NEW new, client' = [client EXCEPT ![c].pc = pc, ![c].new = new]
      PROVE  pc = "written"
  <2>1. client'[c] = [client[c] EXCEPT !.pc = pc, !.new = new]
    BY <1>5 DEF TypeOK
  <2> QED
    BY <1>1, <2>1 DEF Writes
<1>6. ASSUME NEW look, client' = [client EXCEPT ![c].pc = "looked", ![c].look = look]
      PROVE  FALSE
  <2>1. client'[c] = [client[c] EXCEPT !.pc = "looked", !.look = look]
    BY <1>6 DEF TypeOK
  <2> QED
    BY <1>1, <2>1 DEF Writes
<1>7. ~Enter(c) /\ ~LookToWrite(c) /\ ~Hold(c) /\ ~CheckHeld(c) /\ ~FindDamaged(c) /\ ~Forget(c)
  BY <1>2, <1>3, <1>4, <1>5, <1>6 DEF Enter, LookToWrite, Hold, CheckHeld, FindDamaged, Forget
<1>8. ~Tear(c) /\ ~CreateTemp(c) /\ ~Copy(c) /\ ~LookOnceMore(c) /\ ~LookAfter(c)
      /\ ~BeginUpdate(c) /\ ~EndUpdate(c)
  BY <1>2, <1>3, <1>5 DEF Tear, CreateTemp, Copy, LookOnceMore, LookAfter, Release,
                          BeginUpdate, EndUpdate
<1>9. /\ ~Decline(c) /\ ~Refuse(c) /\ ~CutBack(c) /\ ~TempTaken(c) /\ ~CopyFails(c)
      /\ ~ChangedMeanwhile(c) /\ ~NothingToRename(c) /\ ~UpdateFails(c) /\ ~Install(c)
  BY <1>2 DEF Decline, Refuse, CutBack, TempTaken, CopyFails, ChangedMeanwhile, NothingToRename,
              RemoveTemp, Release, UpdateFails, Install
<1> QED
  BY <1>7, <1>8, <1>9 DEF Write

LEMMA ComesToHaveWritten ==
    ASSUME TypeOK, [Next]_vars, NEW c \in Clients,
           client'[c].pc = "written", ~At(c, {"written"})
    PROVE  Appended(c) \/ Rename(c)
<1>1. client'[c] # client[c]
  BY DEF At
<1>2. ASSUME NEW d \in Clients, Read(d)
      PROVE  FALSE
  BY <1>1, <1>2, ReadActs, ReadPlaces DEF Opening
<1>3. ASSUME NEW d \in Clients, NEW e \in PathsOf[d], Send(d, e)
      PROVE  FALSE
  <2>1. d = c
    BY <1>1, <1>3, SendActs
  <2>2. PICK r : r.pc = "waiting" /\ client' = [client EXCEPT ![c] = r]
    BY <1>3, <2>1 DEF Send
  <2> QED
    BY <2>2 DEF TypeOK
<1>4. ASSUME NEW d \in Clients, Write(d)
      PROVE  Appended(c) \/ Rename(c)
  <2>1. d = c
    BY <1>1, <1>4, WriteActs
  <2> QED
    BY <1>4, <2>1, WritePlaces
<1>5. ~(Builder \/ UNCHANGED vars)
  BY <1>1 DEF Builder, BeginBuild, ReadGames, PublishIndex, BuildFails, vars
<1>6. ~Environment
  <2>1. ~Restart
    BY DEF Restart, AtRest
  <2> QED
    BY <1>1, <2>1 DEF Environment, ChangeGames, ReplaceFile, Others, DamageHead, List, Unlist,
                      Sweep, MinutePasses
<1> QED
  BY <1>2, <1>3, <1>4, <1>5, <1>6 DEF Next

(* write.rs: what a write leaves is what its page had read, edited.        *)
THEOREM WritesAreOfWhatWasRead == Spec => WritesWhatWasRead
<1>1. ASSUME IInv, [Next]_vars, NEW c \in Clients,
             client'[c].pc = "written", ~At(c, {"written"}), ~raced
      PROVE  file'.games = Edited(client[c].op, known[c].games, known[c].games)
  <2>1. TypeOK /\ WriteFits(c) /\ IInv'
    BY <1>1, StepIInv DEF IInv, Truth
  <2>2. Appended(c) \/ Rename(c)
    BY <1>1, <2>1, ComesToHaveWritten
  <2>3. At(c, Writing) /\ Goes(c, "written") /\ known' = known /\ raced' = raced
    BY <2>2 DEF Appended, Rename, At, Writing, Editing, Holding, spent
  <2>4. Result(c)' = Result(c)
    BY <2>1, <2>3, GoesNamed
  <2>5. FileFits(c)'
    BY <2>1 DEF IInv, Truth, WriteFits
  <2>6. file'.games = Result(c)'
    BY <1>1, <2>3, <2>5 DEF FileFits, At
  <2> QED
    BY <2>4, <2>6 DEF Result
<1>2. IInv /\ [Next]_vars =>
          [\A c \in Clients : (client'[c].pc = "written" /\ ~At(c, {"written"}) /\ ~raced) =>
               file'.games = Edited(client[c].op, known[c].games, known[c].games)]_vars
  BY <1>1
<1> QED
  BY <1>2, Invariance, PTL DEF Spec, WritesWhatWasRead
-----------------------------------------------------------------------------
(* A database that is opening has a build.                                 *)

Waits(queue, e) == \E i \in 1..Len(queue) : queue[i].entry = e
Once(queue, e) == \A i, j \in 1..Len(queue) : queue[i].entry = e /\ queue[j].entry = e => i = j
Runs(turn, e) == turn # None /\ turn.entry = e

HasJob(builds, queue, turn, e) ==
    /\ builds[e] = Working <=> Waits(queue, e) \/ Runs(turn, e)
    /\ ~(Waits(queue, e) /\ Runs(turn, e))
    /\ Once(queue, e)

(* While a write holds the build of its entry, no build of it is asked for.*)
HeldIsIdle == \A c \in Clients : At(c, Editing) => build[client[c].entry] # Working

LEMMA WorkingHasJobMeans ==
    ASSUME jobs \in Seq(Jobs)
    PROVE  WorkingHasJob <=> \A e \in Entries : HasJob(build, jobs, reading, e)
<1>1. DOMAIN jobs = 1..Len(jobs)
  OBVIOUS
<1> QED
  BY <1>1 DEF WorkingHasJob, HasJob, Waits, Once, Runs

LEMMA TagsDiffer ==
    ASSUME NEW g
    PROVE  Idle # Working /\ Failed(g) # Working
BY DEF Idle, Working, Failed

LEMMA EditingEntry ==
    ASSUME TypeOK, NEW c \in Clients, At(c, Editing)
    PROVE  client[c].entry \in Entries /\ At(c, Writing) /\ Inside(c)
BY AtStep, WriteFields DEF At, Writing, Editing, Holding, Inside

(* What makes a database working, and what makes it no more so.            *)
LEMMA BuildChanges ==
    ASSUME TypeOK, HeldIsIdle, [Next]_vars, NEW e \in Entries
    PROVE  \/ build'[e] = Working <=> build[e] = Working
           \/ \E c \in Clients : OpenQueues(c) /\ client[c].entry = e
           \/ (PublishIndex \/ BuildFails) /\ reading.entry = e
           \/ Restart
<1>1. ASSUME build' = build
      PROVE  build'[e] = Working <=> build[e] = Working
  BY <1>1
<1>2. ASSUME NEW d \in Entries, build[d] # Working, NEW b, b # Working,
             build' = [build EXCEPT ![d] = b]
      PROVE  build'[e] = Working <=> build[e] = Working
  BY <1>2 DEF TypeOK
<1>3. ASSUME NEW c \in Clients, OpenIndexed(c) \/ OpenFails(c)
      PROVE  build'[e] = Working <=> build[e] = Working
  <2>1. client[c].entry \in Entries
    BY <1>3, AtStep, ReadFields, WriteFields DEF OpenIndexed, OpenFails, At, Opening
  <2>2. /\ build[client[c].entry] # Working
        /\ \/ build' = [build EXCEPT ![client[c].entry] = Idle]
           \/ build' = [build EXCEPT ![client[c].entry] = Failed(client[c].look)]
    BY <1>3 DEF OpenIndexed, OpenFails
  <2> QED
    BY <1>2, <2>1, <2>2, TagsDiffer
<1>4. ASSUME NEW c \in Clients, OpenQueues(c)
      PROVE  (build'[e] = Working <=> build[e] = Working) \/ client[c].entry = e
  BY <1>4 DEF OpenQueues, TypeOK
<1>5. ASSUME NEW c \in Clients, Look(c, e) \/ LookInSlot(c) \/ OpenUnready(c)
      PROVE  build' = build
  BY <1>5 DEF Look, LookInSlot, OpenUnready, opens
<1>6. ASSUME NEW c \in Clients, At(c, Editing), SetBuild(client[c].entry, Idle)
      PROVE  build'[e] = Working <=> build[e] = Working
  <2>1. client[c].entry \in Entries /\ build[client[c].entry] # Working
    BY <1>6, EditingEntry DEF HeldIsIdle
  <2> QED
    BY <1>2, <1>6, <2>1, TagsDiffer DEF SetBuild
<1>7. ASSUME NEW c \in Clients, Write(c)
      PROVE  build' = build \/ (At(c, Editing) /\ SetBuild(client[c].entry, Idle))
  BY <1>7 DEF Write, Enter, LookToWrite, Decline, Hold, CheckHeld, Refuse, FindDamaged, Forget,
         Tear, Appended, CutBack, CreateTemp, TempTaken, Copy, CopyFails, LookOnceMore,
         ChangedMeanwhile, RemoveTemp, Rename, NothingToRename, LookAfter, BeginUpdate,
         EndUpdate, UpdateFails, Install, Release, opens, At, Editing, Holding
<1>8. ASSUME NEW c \in Clients, NEW d \in PathsOf[c], Look(c, d) \/ Send(c, d)
      PROVE  build' = build
  BY <1>8 DEF Look, Send, opens
<1>9. CASE Builder
  <2>1. CASE BeginBuild \/ ReadGames
    BY <2>1 DEF BeginBuild, ReadGames
  <2>2. CASE PublishIndex \/ BuildFails
    <3>1. reading.entry # e => build'[e] = build[e]
      BY <2>2 DEF PublishIndex, BuildFails, SetBuild, TypeOK
    <3> QED
      BY <2>2, <3>1
  <2> QED
    BY <1>9, <2>1, <2>2 DEF Builder
<1>10. ASSUME NEW d \in Entries, MinutePasses(d)
       PROVE  build'[e] = Working <=> build[e] = Working
  BY <1>2, <1>10, TagsDiffer DEF MinutePasses, SetBuild
<1>11. CASE Environment
  <2>1. ASSUME NEW d \in Entries, DamageHead(d) \/ List(d) \/ Unlist(d) \/ Sweep(d)
        PROVE  build' = build
    BY <2>1 DEF DamageHead, List, Unlist, Sweep, opens
  <2>2. CASE ChangeGames \/ ReplaceFile
    BY <2>2 DEF ChangeGames, ReplaceFile, Others
  <2> QED
    BY <1>1, <1>10, <1>11, <2>1, <2>2 DEF Environment
<1>12. CASE UNCHANGED vars
  BY <1>12 DEF vars
<1>13. ASSUME NEW c \in Clients, Read(c)
       PROVE  \/ build'[e] = Working <=> build[e] = Working
              \/ OpenQueues(c) /\ client[c].entry = e
  BY <1>3, <1>4, <1>5, <1>8, <1>13 DEF Read
<1> QED
  BY <1>6, <1>7, <1>8, <1>9, <1>11, <1>12, <1>13 DEF Next

(* The queue, when a build joins it or begins.                             *)
LEMMA QueueJoined ==
    ASSUME NEW S, NEW q \in Seq(S), NEW job \in S, NEW e
    PROVE  /\ Waits(Append(q, job), e) <=> Waits(q, e) \/ job.entry = e
           /\ (Once(q, e) /\ ~(Waits(q, e) /\ job.entry = e)) => Once(Append(q, job), e)
<1>1. /\ Len(Append(q, job)) = Len(q) + 1 /\ Append(q, job)[Len(q) + 1] = job
      /\ \A i \in 1..Len(q) : Append(q, job)[i] = q[i]
  BY AppendProperties
<1>2. Len(q) \in Nat
  OBVIOUS
<1> DEFINE all == Append(q, job)
<1> HIDE DEF all
<1>3. \A i \in 1..(Len(q) + 1) : i \in 1..Len(q) \/ i = Len(q) + 1
  BY <1>2
<1>4. Waits(all, e) <=> Waits(q, e) \/ job.entry = e
  BY <1>1, <1>2, <1>3 DEF Waits, all
<1>5. ASSUME Once(q, e), ~(Waits(q, e) /\ job.entry = e)
      PROVE  Once(all, e)
  BY <1>1, <1>2, <1>3, <1>5 DEF Once, Waits, all
<1> QED
  BY <1>4, <1>5 DEF all

LEMMA QueueBegun ==
    ASSUME NEW S, NEW q \in Seq(S), q # <<>>, NEW e
    PROVE  /\ Waits(q, e) <=> Head(q).entry = e \/ Waits(Tail(q), e)
           /\ Once(q, e) => Once(Tail(q), e) /\ ~(Head(q).entry = e /\ Waits(Tail(q), e))
<1> DEFINE n == Len(q) - 1
<1>1. /\ Len(q) \in Nat \ {0} /\ n \in Nat /\ Head(q) = q[1] /\ Len(Tail(q)) = n
      /\ \A i \in 1..n : Tail(q)[i] = q[i + 1] /\ i + 1 \in 1..Len(q) /\ i + 1 # 1
      /\ 1 \in 1..Len(q)
  BY HeadTailProperties
<1>2. \A i \in 1..Len(q) : i # 1 => i - 1 \in 1..n /\ (i - 1) + 1 = i
  BY <1>1
<1>3. \A i \in 1..Len(q) : i # 1 => Tail(q)[i - 1] = q[i]
  BY <1>1, <1>2
<1> HIDE DEF n
<1>4. Waits(q, e) <=> Head(q).entry = e \/ Waits(Tail(q), e)
  BY <1>1, <1>2, <1>3 DEF Waits
<1>5. ASSUME Once(q, e)
      PROVE  Once(Tail(q), e) /\ ~(Head(q).entry = e /\ Waits(Tail(q), e))
  <2>1. Once(Tail(q), e)
    <3>1. ASSUME NEW i \in 1..n, NEW j \in 1..n, Tail(q)[i].entry = e, Tail(q)[j].entry = e
          PROVE  i = j
      <4>1. i + 1 = j + 1
        BY <1>1, <1>5, <3>1 DEF Once
      <4> QED
        BY <4>1
    <3> QED
      BY <1>1, <3>1 DEF Once
  <2>2. ~(Head(q).entry = e /\ Waits(Tail(q), e))
    BY <1>1, <1>5 DEF Once, Waits
  <2> QED
    BY <2>1, <2>2
<1> QED
  BY <1>4, <1>5

LEMMA HasJobStep ==
    ASSUME TypeOK, HeldIsIdle, [Next]_vars, NEW e \in Entries, HasJob(build, jobs, reading, e)
    PROVE  HasJob(build', jobs', reading', e)
<1>1. CASE jobs' = jobs /\ (Runs(reading', e) <=> Runs(reading, e))
                        /\ (build'[e] = Working <=> build[e] = Working)
  BY <1>1 DEF HasJob
<1>2. ASSUME NEW c \in Clients, OpenQueues(c)
      PROVE  HasJob(build', jobs', reading', e)
  <2> DEFINE job == [entry |-> client[c].entry, gen |-> client[c].look]
  <2>1. job \in Jobs /\ job.entry = client[c].entry /\ client[c].entry \in Entries
    BY <1>2, AtStep, ReadFields, WriteFields DEF OpenQueues, At, Opening, Jobs
  <2>2. /\ jobs' = Append(jobs, job) /\ reading' = reading
        /\ build' = [build EXCEPT ![client[c].entry] = Working]
        /\ build[client[c].entry] # Working
    BY <1>2 DEF OpenQueues
  <2> HIDE DEF job
  <2>3. /\ Waits(jobs', e) <=> Waits(jobs, e) \/ job.entry = e
        /\ (Once(jobs, e) /\ ~(Waits(jobs, e) /\ job.entry = e)) => Once(jobs', e)
    BY <2>1, <2>2, QueueJoined DEF TypeOK
  <2>4. build'[e] = Working <=> build[e] = Working \/ job.entry = e
    BY <2>1, <2>2 DEF TypeOK
  <2>5. job.entry = e => ~Waits(jobs, e) /\ ~Runs(reading, e)
    BY <2>1, <2>2 DEF HasJob
  <2> QED
    BY <2>2, <2>3, <2>4, <2>5 DEF HasJob
<1>3. CASE BeginBuild
  <2>1. /\ reading = None /\ jobs # <<>> /\ jobs' = Tail(jobs) /\ build' = build
        /\ reading' = [entry |-> Head(jobs).entry, gen |-> Head(jobs).gen, games |-> None]
    BY <1>3 DEF BeginBuild
  <2>2. Head(jobs) \in Jobs
    BY <2>1 DEF TypeOK
  <2>3. reading' \in Readings /\ reading'.entry = Head(jobs).entry
    BY <2>1, <2>2 DEF Jobs, Readings
  <2>4. Runs(reading', e) <=> Head(jobs).entry = e
    BY <2>3 DEF Runs
  <2>5. /\ Waits(jobs, e) <=> Head(jobs).entry = e \/ Waits(jobs', e)
        /\ Once(jobs, e) => Once(jobs', e) /\ ~(Head(jobs).entry = e /\ Waits(jobs', e))
    BY <2>1, QueueBegun DEF TypeOK
  <2>6. ~Runs(reading, e)
    BY <2>1 DEF Runs
  <2> QED
    BY <2>1, <2>4, <2>5, <2>6 DEF HasJob
<1>4. CASE ReadGames
  <2>1. reading \in Readings /\ reading' = [reading EXCEPT !.games = file.games]
        /\ jobs' = jobs /\ build' = build
    BY <1>4 DEF ReadGames, TypeOK
  <2>2. file.games \in Games
    BY <1>4, PresentType DEF ReadGames
  <2>3. reading' \in Readings /\ reading'.entry = reading.entry
    BY <2>1, <2>2 DEF Readings
  <2> QED
    BY <1>1, <2>1, <2>3 DEF Runs
<1>5. CASE PublishIndex \/ BuildFails
  <2>1. /\ reading # None /\ reading' = None /\ jobs' = jobs
        /\ \E b : b # Working /\ build' = [build EXCEPT ![reading.entry] = b]
    BY <1>5, TagsDiffer DEF PublishIndex, BuildFails, SetBuild
  <2>2. IF reading.entry = e THEN build'[e] # Working ELSE build'[e] = build[e]
    BY <2>1 DEF TypeOK
  <2>3. ~Runs(reading', e) /\ (Runs(reading, e) <=> reading.entry = e)
    BY <2>1 DEF Runs
  <2> QED
    BY <2>1, <2>2, <2>3 DEF HasJob
<1>6. CASE Restart
  <2>1. jobs' = <<>> /\ reading' = None /\ build'[e] = Idle
    BY <1>6 DEF Restart
  <2>2. ~Waits(jobs', e) /\ Once(jobs', e) /\ ~Runs(reading', e)
    BY <2>1 DEF Waits, Once, Runs
  <2> QED
    BY <2>1, <2>2, TagsDiffer DEF HasJob
<1> QED
  BY <1>1, <1>2, <1>3, <1>4, <1>5, <1>6, QueueChanges, BuildChanges

(* A request comes to hold a build by Hold only, when none runs.           *)
LEMMA WriteKeepsEntry ==
    ASSUME TypeOK, NEW c \in Clients, Write(c), At(c, Editing)'
    PROVE  client'[c].entry = client[c].entry /\ (At(c, Editing) \/ Hold(c))
<1>1. At(c, Writing) /\ client[c] \in Writes
  BY WriteActs, AtStep
<1>2. ~Ends(c)
  BY EndsHere DEF At, Editing, Holding
<1>3. ASSUME NEW pc, Goes(c, pc)
      PROVE  client'[c].entry = client[c].entry /\ pc \in Editing
  BY <1>1, <1>3, GoesOn DEF At
<1>4. ASSUME NEW pc, NEW new, client' = [client EXCEPT ![c].pc = pc, ![c].new = new]
      PROVE  client'[c].entry = client[c].entry
  <2>1. client'[c] = [client[c] EXCEPT !.pc = pc, !.new = new]
    BY <1>4 DEF TypeOK
  <2> QED
    BY <1>1, <2>1 DEF Writes
<1>5. ASSUME NEW gen, client' = [client EXCEPT ![c].pc = "entered", ![c].gen = gen]
      PROVE  FALSE
  <2>1. client'[c] = [client[c] EXCEPT !.pc = "entered", !.gen = gen]
    BY <1>5 DEF TypeOK
  <2> QED
    BY <1>1, <2>1 DEF Writes, At, Editing, Holding
<1>6. ASSUME NEW look, client' = [client EXCEPT ![c].pc = "looked", ![c].look = look]
      PROVE  FALSE
  <2>1. client'[c] = [client[c] EXCEPT !.pc = "looked", !.look = look]
    BY <1>6 DEF TypeOK
  <2> QED
    BY <1>1, <2>1 DEF Writes, At, Editing, Holding
<1>7. ~Enter(c) /\ ~LookToWrite(c) /\ ~Decline(c) /\ ~Forget(c) /\ ~Install(c)
  BY <1>2, <1>3, <1>5, <1>6 DEF Enter, LookToWrite, Decline, Forget, Install, Editing, Holding
<1>8. At(c, Editing) \/ Hold(c)
  BY <1>7 DEF Write, CheckHeld, Refuse, FindDamaged, Tear, Appended, CutBack, CreateTemp,
              TempTaken, Copy, CopyFails, LookOnceMore, ChangedMeanwhile, Rename,
              NothingToRename, LookAfter, BeginUpdate, EndUpdate, UpdateFails,
              At, Editing, Holding
<1>9. /\ ~Refuse(c) /\ ~CutBack(c) /\ ~TempTaken(c) /\ ~CopyFails(c)
      /\ ~ChangedMeanwhile(c) /\ ~NothingToRename(c) /\ ~UpdateFails(c)
  BY <1>2 DEF Refuse, CutBack, TempTaken, CopyFails, ChangedMeanwhile, NothingToRename,
              RemoveTemp, Release, UpdateFails
<1>10. client'[c].entry = client[c].entry
  BY <1>2, <1>3, <1>4, <1>7, <1>9
     DEF Write, Hold, CheckHeld, FindDamaged, Tear, Appended, CreateTemp, Copy, LookOnceMore,
         Rename, LookAfter, Release, BeginUpdate, EndUpdate
<1> QED
  BY <1>8, <1>10

LEMMA EditingStep ==
    ASSUME TypeOK, [Next]_vars, NEW c \in Clients, At(c, Editing)'
    PROVE  /\ client'[c].entry = client[c].entry
           /\ At(c, Editing) \/ Hold(c)
<1>1. CASE client'[c] = client[c]
  BY <1>1 DEF At
<1>2. ASSUME NEW d \in Clients, Read(d), d = c
      PROVE  FALSE
  BY <1>2, ReadPlaces DEF At, Editing, Holding, Opening
<1>3. ASSUME NEW d \in Clients, NEW e \in PathsOf[d], Send(d, e), d = c
      PROVE  FALSE
  <2>1. PICK r : r.pc = "waiting" /\ client' = [client EXCEPT ![c] = r]
    BY <1>3 DEF Send
  <2>2. client'[c].pc = "waiting"
    BY <2>1 DEF TypeOK
  <2> QED
    BY <2>2 DEF At, Editing, Holding
<1>4. ASSUME NEW d \in Clients, Write(d)
      PROVE  client'[c] = client[c] \/ Write(c)
  BY <1>4, WriteActs
<1>5. ASSUME NEW d \in Clients, Read(d) \/ \E e \in PathsOf[d] : Send(d, e)
      PROVE  client'[c] = client[c]
  BY <1>2, <1>3, <1>5, ReadActs, SendActs
<1>6. CASE Builder \/ UNCHANGED vars
  BY <1>1, <1>6 DEF Builder, BeginBuild, ReadGames, PublishIndex, BuildFails, vars
<1>7. CASE Environment
  <2>1. ~Restart
    BY DEF Restart, AtRest, At, Editing, Holding
  <2> QED
    BY <1>1, <1>7, <2>1 DEF Environment, ChangeGames, ReplaceFile, Others, DamageHead, List,
                            Unlist, Sweep, MinutePasses
<1> QED
  BY <1>1, <1>4, <1>5, <1>6, <1>7, WriteKeepsEntry DEF Next

LEMMA HeldIsIdleStep ==
    ASSUME TypeOK, HeldIsIdle, [Next]_vars
    PROVE  HeldIsIdle'
<1> SUFFICES ASSUME NEW c \in Clients, At(c, Editing)'
             PROVE  build'[client'[c].entry] # Working
  BY DEF HeldIsIdle
<1> DEFINE e == client[c].entry
<1>1. client'[c].entry = e /\ (At(c, Editing) \/ Hold(c))
  BY EditingStep
<1>2. CASE Hold(c)
  <2>1. build' = build /\ ~Ends(c)
    BY <1>2, EndsHere DEF Hold, opens, At, Editing, Holding
  <2> QED
    BY <1>1, <1>2, <2>1 DEF Hold
<1>3. CASE At(c, Editing)
  <2>1. e \in Entries /\ build[e] # Working
    BY <1>3, EditingEntry DEF HeldIsIdle
  <2>2. ~\E d \in Clients : OpenQueues(d) /\ client[d].entry = e
    BY <1>3 DEF OpenQueues, BuildFree
  <2>3. CASE PublishIndex \/ BuildFails
    <3>1. \E b : b # Working /\ build' = [build EXCEPT ![reading.entry] = b]
      BY <2>3, TagsDiffer DEF PublishIndex, BuildFails, SetBuild
    <3> QED
      BY <1>1, <2>1, <3>1 DEF TypeOK
  <2>4. ~Restart
    BY DEF Restart, AtRest, At, Editing, Holding
  <2> HIDE DEF e
  <2> QED
    BY <1>1, <2>1, <2>2, <2>3, <2>4, BuildChanges
<1> QED
  BY <1>1, <1>2, <1>3

JobsInv == HeldIsIdle /\ \A e \in Entries : HasJob(build, jobs, reading, e)

LEMMA InitJobs ==
    ASSUME Init
    PROVE  JobsInv
<1>1. HeldIsIdle
  BY DEF Init, HeldIsIdle, At, AtRest, Editing, Holding
<1>2. ASSUME NEW e \in Entries
      PROVE  HasJob(build, jobs, reading, e)
  <2>1. jobs = <<>> /\ reading = None /\ build[e] = Idle
    BY DEF Init
  <2>2. ~Waits(jobs, e) /\ Once(jobs, e) /\ ~Runs(reading, e)
    BY <2>1 DEF Waits, Once, Runs
  <2> QED
    BY <2>1, <2>2, TagsDiffer DEF HasJob
<1> QED
  BY <1>1, <1>2 DEF JobsInv

LEMMA StepJobs ==
    ASSUME TypeOK, JobsInv, [Next]_vars
    PROVE  JobsInv'
BY HeldIsIdleStep, HasJobStep DEF JobsInv

(* No build of an entry is asked for while a write holds it, and the       *)
(* working entries are those with one build, waiting or running.           *)
THEOREM JobsInvariance == Spec => []JobsInv
<1>1. IInv /\ JobsInv /\ [Next]_vars => JobsInv'
  BY StepJobs DEF IInv
<1> QED
  BY <1>1, InitJobs, Invariance, PTL DEF Spec

(* pgnindex.rs: a database answered as opening has one build that will end *)
(* that, and no other database has one.                                    *)
THEOREM WorkingAlwaysHasJob == Spec => []WorkingHasJob
<1>1. IInv /\ JobsInv => WorkingHasJob
  BY WorkingHasJobMeans DEF IInv, TypeOK, JobsInv
<1> QED
  BY <1>1, Invariance, JobsInvariance, PTL

(* What takes the work of an index away.                                   *)
LEMMA WorkChanges ==
    ASSUME TypeOK, [Next]_vars, NEW e \in Entries, work[e]
    PROVE  \/ work'[e]
           \/ \E c \in Clients : (EndUpdate(c) \/ UpdateFails(c)) /\ client[c].entry = e
           \/ (PublishIndex \/ BuildFails) /\ reading.entry = e
           \/ Sweep(e)
<1>1. ASSUME NEW d, work' \in {work, [work EXCEPT ![d] = FALSE]}
      PROVE  work'[e] \/ d = e
  BY <1>1 DEF TypeOK
<1>2. ASSUME NEW c \in Clients, Read(c) \/ \E d \in PathsOf[c] : Send(c, d)
      PROVE  work' = work
  BY <1>2 DEF Read, Look, LookInSlot, OpenIndexed, OpenQueues, OpenFails, OpenUnready, Send, folder
<1>3. ASSUME NEW c \in Clients, Write(c)
      PROVE  work'[e] \/ ((EndUpdate(c) \/ UpdateFails(c)) /\ client[c].entry = e)
  <2>1. CASE BeginUpdate(c)
    BY <2>1 DEF BeginUpdate, TypeOK
  <2>2. CASE EndUpdate(c) \/ UpdateFails(c)
    <3>1. work' \in {work, [work EXCEPT ![client[c].entry] = FALSE]}
      BY <2>2 DEF EndUpdate, UpdateFails, GoneOrFails
    <3> QED
      BY <1>1, <2>2, <3>1
  <2>3. CASE ~BeginUpdate(c) /\ ~EndUpdate(c) /\ ~UpdateFails(c)
    <3>1. work' = work
      BY <1>3, <2>3 DEF Write, Enter, LookToWrite, Decline, Hold, CheckHeld, Refuse, FindDamaged,
         Forget, Tear, Appended, CutBack, CreateTemp, TempTaken, Copy, CopyFails, LookOnceMore,
         ChangedMeanwhile, RemoveTemp, Rename, NothingToRename, LookAfter, Install, folder
    <3> QED
      BY <3>1
  <2> QED
    BY <2>1, <2>2, <2>3
<1>4. CASE Builder
  <2>1. CASE BeginBuild
    BY <2>1 DEF BeginBuild, folder
  <2>2. CASE ReadGames
    BY <2>2 DEF ReadGames, TypeOK
  <2>3. CASE PublishIndex \/ BuildFails
    <3>1. work' \in {work, [work EXCEPT ![reading.entry] = FALSE]}
      BY <2>3 DEF PublishIndex, BuildFails, GoneOrFails
    <3> QED
      BY <1>1, <2>3, <3>1
  <2> QED
    BY <1>4, <2>1, <2>2, <2>3 DEF Builder
<1>5. CASE Environment
  <2>1. ASSUME NEW d \in Entries, Sweep(d)
        PROVE  work'[e] \/ Sweep(e)
    <3>1. work' = [work EXCEPT ![d] = FALSE]
      BY <2>1 DEF Sweep
    <3> QED
      BY <1>1, <2>1, <3>1
  <2>2. CASE ~\E d \in Entries : Sweep(d)
    <3>1. work' = work
      BY <1>5, <2>2 DEF Environment, ChangeGames, ReplaceFile, Others, Restart, DamageHead, List,
                        Unlist, MinutePasses, folder
    <3> QED
      BY <3>1
  <2> QED
    BY <2>1, <2>2
<1>6. CASE UNCHANGED vars
  BY <1>6 DEF vars
<1> QED
  BY <1>2, <1>3, <1>4, <1>5, <1>6 DEF Next

LEMMA UpdatingStep ==
    ASSUME TypeOK, [Next]_vars, NEW c \in Clients, At(c, {"updating"})'
    PROVE  At(c, {"updating"}) \/ BeginUpdate(c)
<1>1. CASE client'[c] = client[c]
  BY <1>1 DEF At
<1>2. CASE Write(c)
  <2>1. At(c, Writing) /\ client[c] \in Writes /\ At(c, Editing)'
    BY <1>2, WriteActs, AtStep DEF At, Editing
  <2>2. ~Ends(c) /\ ~Hold(c)
    <3>1. client'[c].pc = "updating"
      BY DEF At
    <3>2. ~Ends(c)
      BY <3>1, EndsHere
    <3>3. ASSUME Goes(c, "held")
          PROVE  FALSE
      <4>1. client'[c].pc = "held"
        BY <2>1, <3>3, GoesOn
      <4> QED
        BY <3>1, <4>1
    <3> QED
      BY <3>2, <3>3 DEF Hold
  <2>3. At(c, Editing)
    BY <1>2, <2>1, <2>2, WriteKeepsEntry
  <2>4. ASSUME NEW pc, Goes(c, pc)
        PROVE  pc = "updating"
    BY <2>1, <2>4, GoesOn DEF At
  <2>5. ASSUME NEW pc, NEW new, client' = [client EXCEPT ![c].pc = pc, ![c].new = new]
        PROVE  pc = "updating"
    <3>1. client'[c] = [client[c] EXCEPT !.pc = pc, !.new = new]
      BY <2>5 DEF TypeOK
    <3> QED
      BY <2>1, <3>1 DEF Writes, At
  <2>6. /\ ~Refuse(c) /\ ~CutBack(c) /\ ~TempTaken(c) /\ ~CopyFails(c)
        /\ ~ChangedMeanwhile(c) /\ ~NothingToRename(c) /\ ~UpdateFails(c) /\ ~Install(c)
    BY <2>2 DEF Refuse, CutBack, TempTaken, CopyFails, ChangedMeanwhile, NothingToRename,
                RemoveTemp, Release, UpdateFails, Install
  <2>7. /\ ~CheckHeld(c) /\ ~FindDamaged(c) /\ ~Tear(c) /\ ~Appended(c) /\ ~CreateTemp(c)
        /\ ~Copy(c) /\ ~LookOnceMore(c) /\ ~Rename(c) /\ ~LookAfter(c) /\ ~EndUpdate(c)
    BY <2>2, <2>4, <2>5 DEF CheckHeld, FindDamaged, Tear, Appended, CreateTemp, Copy,
                            LookOnceMore, Rename, LookAfter, Release, EndUpdate
  <2>8. ~Enter(c) /\ ~LookToWrite(c) /\ ~Decline(c) /\ ~Forget(c)
    BY <2>3 DEF Enter, LookToWrite, Decline, Forget, At, Editing, Holding
  <2> QED
    BY <1>2, <2>2, <2>6, <2>7, <2>8 DEF Write
<1>3. ASSUME NEW d \in Clients, Read(d), d = c
      PROVE  FALSE
  BY <1>3, ReadPlaces DEF At, Opening
<1>4. ASSUME NEW d \in Clients, NEW e \in PathsOf[d], Send(d, e), d = c
      PROVE  FALSE
  <2>1. PICK r : r.pc = "waiting" /\ client' = [client EXCEPT ![c] = r]
    BY <1>4 DEF Send
  <2> QED
    BY <1>4, <2>1 DEF TypeOK, At
<1>5. ASSUME NEW d \in Clients, Read(d) \/ Write(d) \/ \E e \in PathsOf[d] : Send(d, e)
      PROVE  client'[c] = client[c] \/ Write(c)
  BY <1>3, <1>4, <1>5, ReadActs, SendActs, WriteActs
<1>6. CASE Builder \/ UNCHANGED vars
  BY <1>1, <1>6 DEF Builder, BeginBuild, ReadGames, PublishIndex, BuildFails, vars
<1>7. CASE Environment
  <2>1. ~Restart
    BY DEF Restart, AtRest, At
  <2> QED
    BY <1>1, <1>7, <2>1 DEF Environment, ChangeGames, ReplaceFile, Others, DamageHead, List,
                            Unlist, Sweep, MinutePasses
<1> QED
  BY <1>1, <1>2, <1>5, <1>6, <1>7 DEF Next

LEMMA WorkIsKeptStep ==
    ASSUME TypeOK, OneInside, JobsInv, [Next]_vars, WorkIsKept
    PROVE  WorkIsKept'
<1>1. ASSUME NEW e \in Entries, work[e], build[e] = Working, reading' = reading,
             Runs(reading, e)
      PROVE  work'[e]
  <2>1. ~\E c \in Clients : (EndUpdate(c) \/ UpdateFails(c)) /\ client[c].entry = e
    BY <1>1 DEF EndUpdate, UpdateFails, JobsInv, HeldIsIdle, At, Editing
  <2>2. ~PublishIndex /\ ~BuildFails
    BY <1>1 DEF PublishIndex, BuildFails, Runs
  <2>3. ~Sweep(e)
    BY <1>1 DEF Sweep
  <2> QED
    BY <1>1, <2>1, <2>2, <2>3, WorkChanges
<1>2. ASSUME reading' # None, reading'.games # None
      PROVE  work'[reading'.entry]
  <2>1. CASE reading' = reading
    <3>1. reading \in Readings /\ reading.entry \in Entries /\ work[reading.entry]
      BY <1>2, <2>1 DEF TypeOK, Readings, WorkIsKept
    <3>2. Runs(reading, reading.entry) /\ build[reading.entry] = Working
      BY <1>2, <2>1, <3>1 DEF Runs, JobsInv, HasJob
    <3> QED
      BY <1>1, <2>1, <3>1, <3>2
  <2>2. CASE ReadGames
    <3>1. reading \in Readings /\ file.games \in Games
      BY <2>2, PresentType DEF ReadGames, TypeOK
    <3>2. reading'.entry = reading.entry /\ work' = [work EXCEPT ![reading.entry] = TRUE]
      BY <2>2, <3>1 DEF ReadGames, Readings
    <3> QED
      BY <3>1, <3>2 DEF TypeOK, Readings
  <2>3. ~BeginBuild /\ ~PublishIndex /\ ~BuildFails /\ ~Restart
    BY <1>2 DEF BeginBuild, PublishIndex, BuildFails, Restart
  <2>4. (\E c \in Clients : OpenQueues(c)) => reading' = reading
    BY DEF OpenQueues
  <2> QED
    BY <2>1, <2>2, <2>3, <2>4, QueueChanges
<1>3. ASSUME NEW c \in Clients, At(c, {"updating"})'
      PROVE  work'[client'[c].entry]
  <2>1. client'[c].entry = client[c].entry
    BY <1>3, EditingStep DEF At, Editing
  <2>2. CASE BeginUpdate(c)
    <3>1. client[c].entry \in Entries
      BY <2>2, AtStep, WriteFields DEF BeginUpdate, At, Writing, Editing
    <3> QED
      BY <2>1, <2>2, <3>1 DEF BeginUpdate, TypeOK
  <2>3. CASE At(c, {"updating"})
    <3> DEFINE e == client[c].entry
    <3>1. At(c, Editing) /\ e \in Entries /\ Inside(c) /\ work[e] /\ build[e] # Working
      BY <2>3, EditingEntry DEF At, Editing, WorkIsKept, JobsInv, HeldIsIdle
    <3>2. ASSUME NEW d \in Clients, EndUpdate(d) \/ UpdateFails(d)
          PROVE  FALSE
      <4>1. At(d, Writing) /\ Inside(d)
        BY <3>2 DEF EndUpdate, UpdateFails, At, Inside, Writing, Editing, Holding
      <4>2. d = c
        BY <3>1, <4>1 DEF OneInside
      <4>3. Ends(d) \/ Goes(d, "installing")
        BY <3>2 DEF EndUpdate, UpdateFails, Release
      <4>4. CASE Ends(d)
        BY <1>3, <4>2, <4>4, EndsHere DEF At
      <4>5. CASE Goes(d, "installing")
        <5>1. client'[d].pc = "installing"
          BY <4>1, <4>5, GoesOn
        <5> QED
          BY <1>3, <4>2, <5>1 DEF At
      <4> QED
        BY <4>3, <4>4, <4>5
    <3>3. ASSUME PublishIndex \/ BuildFails, reading.entry = e
          PROVE  FALSE
      BY <3>1, <3>3 DEF PublishIndex, BuildFails, JobsInv, HasJob, Runs
    <3>4. ~Sweep(e)
      BY <3>1 DEF Sweep, BuildFree
    <3> HIDE DEF e
    <3>5. work'[e]
      BY <3>1, <3>2, <3>3, <3>4, WorkChanges
    <3> QED
      BY <2>1, <3>5 DEF e
  <2> QED
    BY <1>3, <2>2, <2>3, UpdatingStep
<1> QED
  BY <1>2, <1>3 DEF WorkIsKept, At

(* pgnindex.rs, while_idle and sweep: no sweep, build or write takes away  *)
(* the work of another build or update that runs.                          *)
THEOREM WorkAlwaysKept == Spec => []WorkIsKept
<1>1. Init => WorkIsKept
  BY DEF Init, WorkIsKept, At, AtRest
<1>2. IInv /\ JobsInv /\ WorkIsKept /\ [Next]_vars => WorkIsKept'
  BY WorkIsKeptStep DEF IInv
<1> QED
  BY <1>1, <1>2, Invariance, JobsInvariance, PTL DEF Spec
-----------------------------------------------------------------------------
(* The file is changed as PgnFile promises.                                *)

(* A copy is made of no append.                                            *)
Copying    == {"copying", "copied", "swapping"}
CopiesEdit == \A c \in Clients : At(c, Copying) => client[c].op \notin Appends

(* The steps of a write at which the file may be changed next, or was.     *)
Committing == {"planned", "tearing", "swapping", "written"}

LEMMA CommitOfIs ==
    ASSUME NEW r
    PROVE  /\ r.pc \notin Committing => CommitOf(r) = "no"
           /\ (r.pc = "planned" /\ r.op \notin Appends) => CommitOf(r) = "no"
           /\ (r.pc = "planned" /\ r.op \in Appends) => CommitOf(r) = "looked"
           /\ r.pc = "swapping" => CommitOf(r) = "looked"
           /\ r.pc = "tearing" => CommitOf(r) = "torn"
           /\ r.pc = "written" => CommitOf(r) = "written"
BY DEF CommitOf, Committing

(* While a write is inside, or enters, no other page's is past its look.   *)
LEMMA OthersOut ==
    ASSUME OneInside, NEW c \in Clients, Inside(c) \/ Enter(c), NEW d \in Clients, d # c
    PROVE  CommitNow[d] = "no"
<1>1. ~Inside(d)
  BY DEF OneInside, Enter
<1>2. client[d].pc \notin Committing
  BY <1>1 DEF Inside, At, Writing, Editing, Holding, Committing
<1> QED
  BY <1>2, CommitOfIs DEF CommitNow

(* No page knows a file that is new.                                       *)
LEMMA NewIsUnknown ==
    ASSUME TypeOK, InPast, Renewed, known' = known
    PROVE  KnownNow' = [c \in Clients |-> None]
<1>1. ASSUME NEW c \in Clients, file' # None
      PROVE  known'[c].gen # Present'
  <2>1. known[c].gen \in Nat /\ known[c].gen <= clock /\ clock \in Nat
    BY DEF TypeOK, InPast, PageInPast
  <2>2. Present' = clock + 1
    BY <1>1 DEF Renewed, Present
  <2> QED
    BY <2>1, <2>2
<1>2. KnownNow' = [c \in Clients |-> IF file' # None /\ known'[c].gen = Present' THEN known'[c].games ELSE None]
  BY DEF KnownNow
<1> QED
  BY <1>1, <1>2

(* A change of a page's.                                                   *)
LEMMA ChangesAsPromised ==
    ASSUME TypeOK, InPast, raced' = raced, Renewed, known' = known,
           NEW c \in Clients, NEW from, NEW to, NEW new,
           CommitNow[c] = from, CommitNow'[c] = to,
           \A d \in Clients : d # c => client'[d] = client[d],
           file # None, file' # None, file'.games = new
    PROVE  Promised!Changes(c, from, to, new)
<1>1. CommitNow' = [CommitNow EXCEPT ![c] = to]
  <2>1. \A d \in Clients : d # c => CommitNow'[d] = CommitNow[d]
    BY DEF CommitNow
  <2>2. CommitNow = [d \in Clients |-> CommitNow[d]] /\ CommitNow' = [d \in Clients |-> CommitNow'[d]]
    BY DEF CommitNow
  <2> QED
    BY <2>1, <2>2
<1>2. KnownNow' = [d \in Clients |-> None]
  BY NewIsUnknown
<1>3. GamesNow # None
  <2>1. file.games \in Games
    BY PresentType
  <2> QED
    BY <2>1 DEF GamesNow
<1>4. GamesNow' = new
  BY DEF GamesNow
<1> QED
  BY <1>1, <1>2, <1>3, <1>4 DEF Promised!Changes

(* What a page is told is the file's games, or of an older file.           *)
LEMMA TellsAsPromised ==
    ASSUME TypeOK', KnownIsTrue', Same, ~raced, raced' = raced, NEW c \in Clients,
           \A d \in Clients : d # c => known'[d] = known[d], CommitNow' = CommitNow
    PROVE  Promised!Tell(c)
<1>1. GamesNow' = GamesNow /\ Present' = Present /\ file' = file
  BY DEF Same, GamesNow, Present
<1>2. KnownNow' = [KnownNow EXCEPT ![c] = KnownNow'[c]]
  <2>1. \A d \in Clients : d # c => KnownNow'[d] = KnownNow[d]
    BY <1>1 DEF KnownNow
  <2>2. KnownNow = [d \in Clients |-> KnownNow[d]] /\ KnownNow' = [d \in Clients |-> KnownNow'[d]]
    BY DEF KnownNow
  <2> QED
    BY <2>1, <2>2
<1>3. KnownNow'[c] \in {GamesNow, None}
  <2>1. known'[c].games # None
    BY DEF TypeOK
  <2>2. (file' # None /\ known'[c].gen = Present') => known'[c].games = file'.games
    BY <2>1 DEF KnownIsTrue, IsTrue
  <2> QED
    BY <1>1, <2>2 DEF KnownNow, GamesNow
<1> QED
  BY <1>1, <1>2, <1>3 DEF Promised!Tell

LEMMA EndsAsPromised ==
    ASSUME Same, known' = known, raced' = raced, \A c \in Clients : CommitNow'[c] = "no"
    PROVE  Promised!End
<1>1. GamesNow' = GamesNow /\ KnownNow' = KnownNow
  BY DEF Same, GamesNow, KnownNow, Present
<1>2. CommitNow' = [c \in Clients |-> "no"]
  BY DEF CommitNow
<1> QED
  BY <1>1, <1>2 DEF Promised!End, Promised!NoCommit

LEMMA StaysAsPromised ==
    ASSUME Same, known' = known, raced' = raced, client' = client
    PROVE  UNCHANGED Promised!vars
BY DEF Same, GamesNow, KnownNow, CommitNow, Present, Promised!vars

(* Reading and sending commit nothing.                                     *)
LEMMA ReadsOut ==
    ASSUME TypeOK, NEW c \in Clients, Read(c) \/ \E e \in PathsOf[c] : Send(c, e)
    PROVE  CommitNow' = CommitNow
<1>1. client[c].pc \notin Committing
  BY DEF Read, Look, LookInSlot, OpenIndexed, OpenQueues, OpenFails, OpenUnready, Send, At,
         Committing
<1>2. client'[c].pc \notin Committing
  <2>1. CASE Read(c)
    BY <2>1, ReadPlaces DEF Opening, Committing
  <2>2. ASSUME NEW e \in PathsOf[c], Send(c, e)
        PROVE  client'[c].pc \notin Committing
    <3>1. PICK r : r.pc = "waiting" /\ client' = [client EXCEPT ![c] = r]
      BY <2>2 DEF Send
    <3>2. client'[c].pc = "waiting"
      BY <3>1 DEF TypeOK
    <3> QED
      BY <3>2 DEF Committing
  <2> QED
    BY <2>1, <2>2
<1>3. \A d \in Clients : d # c => client'[d] = client[d]
  BY ReadActs, SendActs
<1>4. \A d \in Clients : CommitOf(client'[d]) = CommitOf(client[d])
  BY <1>1, <1>2, <1>3, CommitOfIs
<1> QED
  BY <1>4 DEF CommitNow

(* The steps by which a write comes to hold, to copy and to have written.  *)
LEMMA WriteComesTo ==
    ASSUME TypeOK, NEW c \in Clients, Write(c)
    PROVE  /\ client'[c].pc = "planned" => CheckHeld(c)
           /\ client'[c].pc = "tearing" => Tear(c)
           /\ client'[c].pc = "copying" => CreateTemp(c)
           /\ client'[c].pc = "copied" => Copy(c)
           /\ client'[c].pc = "swapping" => LookOnceMore(c)
           /\ client'[c].pc = "written" => Appended(c) \/ Rename(c)
<1> DEFINE to == client'[c].pc
<1>1. At(c, Writing) /\ client[c] \in Writes
  BY WriteActs, AtStep
<1>2. Ends(c) => to = "idle"
  BY EndsHere
<1>3. ASSUME NEW pc, Goes(c, pc)
      PROVE  to = pc
  BY <1>1, <1>3, GoesOn
<1>4. ASSUME NEW pc, NEW gen, client' = [client EXCEPT ![c].pc = pc, ![c].gen = gen]
      PROVE  to = pc
  <2>1. client'[c] = [client[c] EXCEPT !.pc = pc, !.gen = gen]
    BY <1>4 DEF TypeOK
  <2> QED
    BY <1>1, <2>1 DEF Writes
<1>5. ASSUME NEW pc, NEW new, client' = [client EXCEPT ![c].pc = pc, ![c].new = new]
      PROVE  to = pc
  <2>1. client'[c] = [client[c] EXCEPT !.pc = pc, !.new = new]
    BY <1>5 DEF TypeOK
  <2> QED
    BY <1>1, <2>1 DEF Writes
<1>6. ASSUME NEW look, client' = [client EXCEPT ![c].pc = "looked", ![c].look = look]
      PROVE  to = "looked"
  <2>1. client'[c] = [client[c] EXCEPT !.pc = "looked", !.look = look]
    BY <1>6 DEF TypeOK
  <2> QED
    BY <1>1, <2>1 DEF Writes
<1> HIDE DEF to
<1>7. /\ Enter(c) => to \in {"entered", "idle"}
      /\ LookToWrite(c) => to \in {"looked", "idle"}
      /\ Hold(c) => to \in {"held", "idle"}
      /\ FindDamaged(c) => to = "damaged"
      /\ Forget(c) => to = "entered"
      /\ LookAfter(c) => to \in {"stamped", "idle"}
      /\ BeginUpdate(c) => to = "updating"
      /\ EndUpdate(c) => to = "installing"
  BY <1>2, <1>3, <1>4, <1>5, <1>6 DEF Enter, LookToWrite, Hold, FindDamaged, Forget, LookAfter, Release,
                                      BeginUpdate, EndUpdate
<1>8. /\ CheckHeld(c) => to = "planned"
      /\ Tear(c) => to = "tearing"
      /\ Appended(c) \/ Rename(c) => to = "written"
      /\ CreateTemp(c) => to = "copying"
      /\ Copy(c) => to = "copied"
      /\ LookOnceMore(c) => to = "swapping"
  BY <1>3, <1>5 DEF CheckHeld, Tear, Appended, Rename, CreateTemp, Copy, LookOnceMore
<1>9. (\/ Decline(c) \/ Refuse(c) \/ CutBack(c) \/ TempTaken(c) \/ CopyFails(c)
       \/ ChangedMeanwhile(c) \/ NothingToRename(c) \/ UpdateFails(c) \/ Install(c)) => to = "idle"
  BY <1>2 DEF Decline, Refuse, CutBack, TempTaken, CopyFails, ChangedMeanwhile, NothingToRename,
              RemoveTemp, Release, UpdateFails, Install
<1> QED
  BY <1>7, <1>8, <1>9 DEF Write, to

(* A request that comes to a step other than reading goes on with a write. *)
LEMMA ComesByWrite ==
    ASSUME TypeOK, [Next]_vars, NEW c \in Clients,
           client'[c].pc \notin {"idle", "opened", "waiting"} \union Opening
    PROVE  client'[c] = client[c] \/ Write(c)
<1>1. ASSUME NEW d \in Clients, Read(d) \/ \E e \in PathsOf[d] : Send(d, e)
      PROVE  client'[c] = client[c]
  <2>1. ASSUME Read(d), d = c PROVE FALSE
    BY <2>1, ReadPlaces
  <2>2. ASSUME NEW e \in PathsOf[d], Send(d, e), d = c
        PROVE  FALSE
    <3>1. PICK r : r.pc = "waiting" /\ client' = [client EXCEPT ![c] = r]
      BY <2>2 DEF Send
    <3> QED
      BY <3>1 DEF TypeOK
  <2> QED
    BY <1>1, <2>1, <2>2, ReadActs, SendActs
<1>2. ASSUME NEW d \in Clients, Write(d)
      PROVE  client'[c] = client[c] \/ Write(c)
  BY <1>2, WriteActs
<1>3. CASE Builder \/ UNCHANGED vars
  BY <1>3 DEF Builder, BeginBuild, ReadGames, PublishIndex, BuildFails, vars
<1>4. CASE Environment
  <2>1. ~Restart
    BY DEF Restart, AtRest
  <2> QED
    BY <1>4, <2>1 DEF Environment, ChangeGames, ReplaceFile, Others, DamageHead, List,
                      Unlist, Sweep, MinutePasses
<1> QED
  BY <1>1, <1>2, <1>3, <1>4 DEF Next

LEMMA CopiesEditStep ==
    ASSUME TypeOK, CopiesEdit, [Next]_vars
    PROVE  CopiesEdit'
<1> SUFFICES ASSUME NEW c \in Clients, At(c, Copying)'
             PROVE  client'[c].op \notin Appends
  BY DEF CopiesEdit, At
<1>1. client'[c].pc \in Copying
  BY DEF At
<1>2. CASE client'[c] = client[c]
  BY <1>1, <1>2 DEF CopiesEdit, At
<1>3. CASE Write(c)
  <2>1. CreateTemp(c) \/ Copy(c) \/ LookOnceMore(c)
    BY <1>1, <1>3, WriteComesTo DEF Copying
  <2>2. client[c].op \notin Appends
    BY <2>1 DEF CopiesEdit, CreateTemp, Copy, LookOnceMore, At, Copying
  <2>3. At(c, Writing) /\ \E pc : Goes(c, pc)
    BY <1>3, <2>1, WriteActs DEF CreateTemp, Copy, LookOnceMore
  <2> QED
    BY <2>2, <2>3, GoesOn
<1> QED
  BY <1>1, <1>2, <1>3, ComesByWrite DEF Copying, Opening

(* A write's last look: its page knows the file as it is.                  *)
LEMMA LooksAsPromised ==
    ASSUME IInv, ~raced, NEW c \in Clients, Write(c), CheckHeld(c) \/ LookOnceMore(c),
           CommitNow'[c] = "looked"
    PROVE  Promised!LastLook(c)
<1>1. TypeOK /\ OneInside /\ InPast /\ Truth
  BY DEF IInv
<1>2. At(c, Edits) /\ Present = client[c].gen /\ client[c].pc \in {"held", "copied"}
  BY DEF CheckHeld, LookOnceMore, At, Edits, Planned
<1>3. known[c].gen = Present /\ Present # 0 /\ known[c].games \in Games
  BY <1>1, <1>2, EditFacts
<1>4. file # None /\ KnownNow[c] = known[c].games /\ KnownNow[c] # None
  BY <1>3 DEF Present, KnownNow
<1>5. /\ \A d \in Clients : d # c => client'[d] = client[d] /\ CommitNow[d] = "no"
      /\ CommitNow[c] = "no"
  <2>1. \A d \in Clients : d # c => client'[d] = client[d]
    BY <1>1, WriteActs
  <2>2. Inside(c)
    BY <1>1, <1>2, EditsInside
  <2>3. CommitNow[c] = "no"
    BY <1>2, CommitOfIs DEF CommitNow, Committing
  <2> QED
    BY <1>1, <2>1, <2>2, <2>3, OthersOut
<1>6. CommitNow = [d \in Clients |-> "no"]
  <2>1. CommitNow = [d \in Clients |-> CommitNow[d]]
    BY DEF CommitNow
  <2> QED
    BY <1>5, <2>1
<1>7. CommitNow' = [CommitNow EXCEPT ![c] = "looked"]
  <2>1. \A d \in Clients : d # c => CommitNow'[d] = CommitNow[d]
    BY <1>5 DEF CommitNow
  <2>2. CommitNow = [d \in Clients |-> CommitNow[d]] /\ CommitNow' = [d \in Clients |-> CommitNow'[d]]
    BY DEF CommitNow
  <2> QED
    BY <2>1, <2>2
<1>8. Same /\ known' = known /\ raced' = raced
  BY DEF CheckHeld, LookOnceMore, disk, spent, Same
<1>9. GamesNow' = GamesNow /\ KnownNow' = KnownNow
  BY <1>8 DEF Same, GamesNow, KnownNow, Present
<1> QED
  BY <1>4, <1>6, <1>7, <1>8, <1>9 DEF Promised!LastLook, Promised!NoCommit

(* An append: part of the game comes first, then all of it, or nothing.    *)
LEMMA AppendsAsPromised ==
    ASSUME IInv, ~raced, NEW c \in Clients, Write(c),
           Tear(c) \/ Appended(c) \/ (CutBack(c) /\ ~Same)
    PROVE  Promised!BeginAppend(c) \/ Promised!EndAppend(c) \/ Promised!CutBack(c)
<1>1. TypeOK /\ OneInside /\ InPast /\ Truth
  BY DEF IInv
<1>2. At(c, Edits) /\ At(c, Planned) /\ raced' = raced /\ known' = known
  BY DEF Tear, Appended, CutBack, At, Edits, Planned, spent
<1>3. /\ client[c] \in Writes /\ client[c].op \in Ops /\ WriteFits(c)
      /\ client[c].gen \in Nat \ {0} /\ client[c].gen = known[c].gen
      /\ (~raced /\ Present = client[c].gen) => file.games = known[c].games
  BY <1>1, <1>2, EditFacts
<1>4. \A d \in Clients : d # c => client'[d] = client[d]
  BY <1>1, WriteActs
<1>5. CASE Tear(c)
  <2>1. client[c].pc = "planned" /\ client[c].op \in Appends
    BY <1>5 DEF Tear, At
  <2>2. Present = client[c].gen /\ client[c].new = Present
    BY <1>3, <2>1 DEF WriteFits, FileFits, At
  <2>3. file # None /\ file.games \in Games /\ file.games = known[c].games
    BY <1>1, <1>3, <2>2, PresentType
  <2>4. Append(file.games, Torn) \in Games /\ Leaves(c, Append(file.games, Torn))
    BY <1>5, <2>3 DEF Tear, Games
  <2>5. Renewed /\ file' # None /\ file'.games = Append(file.games, Torn)
    BY <1>1, <2>2, <2>3, <2>4, LeavesType
  <2>6. KnownNow[c] = file.games /\ KnownNow[c] # None
    BY <1>3, <2>2, <2>3 DEF KnownNow
  <2>7. client'[c].pc = "tearing"
    <3>1. PICK new : client' = [client EXCEPT ![c].pc = "tearing", ![c].new = new]
      BY <1>5 DEF Tear
    <3>2. client'[c] = [client[c] EXCEPT !.pc = "tearing", !.new = new]
      BY <1>1, <3>1 DEF TypeOK
    <3> QED
      BY <1>3, <3>2 DEF Writes
  <2>8. CommitNow[c] = "looked" /\ CommitNow'[c] = "torn"
    BY <2>1, <2>7, CommitOfIs DEF CommitNow
  <2>9. Promised!Changes(c, "looked", "torn", Append(KnownNow[c], Torn))
    BY <1>1, <1>2, <1>4, <2>3, <2>5, <2>6, <2>8, ChangesAsPromised
  <2> QED
    BY <2>6, <2>9 DEF Promised!BeginAppend
<1>6. ASSUME At(c, {"tearing"})
      PROVE  /\ file # None /\ Present = client[c].new /\ file.games \in Games
             /\ Untorn(c) \in Games /\ Untorn(c) = Promised!Front(GamesNow)
             /\ client[c].op \in Appends /\ CommitNow[c] = "torn"
  <2>1. file # None /\ Present = client[c].new /\ client[c].op \in Appends
    BY <1>3, <1>6 DEF WriteFits, FileFits, IndexFits, Present
  <2>2. file.games \in Games /\ Untorn(c) \in Games
    BY <1>1, <2>1, PresentType, UntornType
  <2>3. CommitNow[c] = "torn"
    BY <1>6, CommitOfIs DEF CommitNow, At
  <2>4. Untorn(c) = Promised!Front(GamesNow)
    BY <2>1 DEF Untorn, GamesNow, Promised!Front
  <2> QED
    BY <2>1, <2>2, <2>3, <2>4
<1>7. CASE Appended(c)
  <2> DEFINE new == Edited(client[c].op, client[c].games, Untorn(c))
  <2>1. At(c, {"tearing"}) /\ Leaves(c, new) /\ Goes(c, "written") /\ At(c, Writing)
    BY <1>7 DEF Appended, At, Writing, Editing, Holding
  <2>2. new \in Games /\ new = Append(Untorn(c), client[c].op.text) /\ client[c].op.text \in Texts
    BY <1>3, <1>6, <2>1, AppendedGames, OpKinds
  <2> HIDE DEF new
  <2>3. Renewed /\ file' # None /\ file'.games = new
    BY <1>1, <1>6, <2>1, <2>2, LeavesType
  <2>4. client'[c].pc = "written"
    BY <1>1, <2>1, GoesOn
  <2>5. CommitNow'[c] = "written"
    BY <2>4, CommitOfIs DEF CommitNow
  <2>6. Promised!Changes(c, "torn", "written", new)
    BY <1>1, <1>2, <1>4, <1>6, <2>1, <2>3, <2>5, ChangesAsPromised
  <2>7. new = Append(Promised!Front(GamesNow), client[c].op.text)
    BY <1>6, <2>1, <2>2
  <2> QED
    BY <2>2, <2>6, <2>7 DEF Promised!EndAppend
<1>8. CASE CutBack(c) /\ ~Same
  <2>1. At(c, {"tearing"}) /\ Leaves(c, Untorn(c)) /\ Ends(c)
    BY <1>8 DEF CutBack, Release, Same
  <2>2. Renewed /\ file' # None /\ file'.games = Untorn(c)
    BY <1>1, <1>6, <2>1, LeavesType
  <2>3. client'[c].pc = "idle"
    BY <1>1, <2>1, EndsHere
  <2>4. CommitNow'[c] = "no"
    BY <2>3, CommitOfIs DEF CommitNow, Committing
  <2>5. Promised!Changes(c, "torn", "no", Untorn(c))
    BY <1>1, <1>2, <1>4, <1>6, <2>1, <2>2, <2>4, ChangesAsPromised
  <2> QED
    BY <1>6, <2>1, <2>5 DEF Promised!CutBack
<1> QED
  BY <1>5, <1>7, <1>8

(* Without its last game a sequence is its beginning, and without another  *)
(* what is before that game and what is after.                             *)
LEMMA RemovedIs ==
    ASSUME NEW g \in Games, NEW n \in 1..Len(g)
    PROVE  (IF n < Len(g) THEN Without(g, n) ELSE SubSeq(g, 1, n - 1))
               = SubSeq(g, 1, n - 1) \o SubSeq(g, n + 1, Len(g))
<1>1. Len(g) \in Nat /\ n \in Nat /\ (n < Len(g) \/ n = Len(g))
  <2>1. \A a, b \in Nat : a \in 1..b => a < b \/ a = b
    OBVIOUS
  <2>2. Len(g) \in Nat
    BY DEF Games
  <2> QED
    BY <2>1, <2>2
<1>2. CASE n < Len(g)
  BY <1>2 DEF Without
<1>3. CASE n = Len(g)
  <2>1. SubSeq(g, n + 1, Len(g)) = << >>
    <3>1. \A s \in Games : SubSeq(s, Len(s) + 1, Len(s)) = << >>
      <4>1. \A s \in Games : Len(s) + 1 > Len(s)
        BY DEF Games
      <4> QED
        BY <4>1, SubSeqEmpty DEF Games
    <3> QED
      BY <1>3, <3>1
  <2>2. SubSeq(g, 1, n - 1) \in Games
    BY <1>1, PartOf DEF Games
  <2>3. \A s \in Games : s \o << >> = s
    BY DEF Games
  <2>4. SubSeq(g, 1, n - 1) \o << >> = SubSeq(g, 1, n - 1)
    BY <2>2, <2>3
  <2>5. ~(n < Len(g))
    BY <1>1, <1>3
  <2> QED
    BY <2>1, <2>4, <2>5
<1> QED
  BY <1>1, <1>2, <1>3

(* A swap: the file is replaced whole, by what the page knows, edited.     *)
LEMMA SwapsAsPromised ==
    ASSUME IInv, CopiesEdit, ~raced, NEW c \in Clients, Write(c), Rename(c)
    PROVE  Promised!Swap(c)
<1>1. TypeOK /\ OneInside /\ InPast /\ Truth
  BY DEF IInv
<1>2. /\ At(c, Edits) /\ At(c, Planned) /\ At(c, Writing) /\ raced' = raced /\ known' = known
      /\ client[c].pc = "swapping" /\ temp # None /\ Put(temp) /\ Goes(c, "written")
  BY DEF Rename, At, Edits, Planned, Writing, Editing, spent
<1>3. /\ client[c].op \in Ops /\ client[c].gen \in Nat \ {0} /\ client[c].gen = known[c].gen
      /\ known[c].games \in Games /\ Fits(client[c].op, known[c].games)
      /\ Result(c) \in Games /\ WriteFits(c)
  BY <1>1, <1>2, EditFacts
<1>4. Present = client[c].gen /\ temp = Result(c)
  BY <1>2, <1>3 DEF WriteFits, FileFits, At
<1>5. Renewed /\ file' # None /\ file'.games = Result(c)
  BY <1>1, <1>2, <1>3, <1>4, PutType
<1>6. file # None /\ KnownNow[c] = known[c].games /\ KnownNow[c] # None
  BY <1>3, <1>4 DEF KnownNow, Present
<1>7. client'[c].pc = "written" /\ \A d \in Clients : d # c => client'[d] = client[d]
  BY <1>1, <1>2, GoesOn
<1>8. CommitNow[c] = "looked" /\ CommitNow'[c] = "written"
  BY <1>2, <1>7, CommitOfIs DEF CommitNow
<1>9. Promised!Changes(c, "looked", "written", Result(c))
  BY <1>1, <1>2, <1>5, <1>6, <1>7, <1>8, ChangesAsPromised
<1>10. client[c].op \notin Appends
  BY <1>2 DEF CopiesEdit, At, Copying
<1> DEFINE g == known[c].games
           n == client[c].op.n
<1>11. n \in 1..Len(g) /\ g \in Games
  BY <1>3, <1>10 DEF Fits
<1>12. KnownNow[c] = g
  BY <1>6
<1>13. ASSUME client[c].op \in Replaces
       PROVE  \E t \in Texts : Result(c) = [g EXCEPT ![n] = t]
  BY <1>13, <1>3, OpKinds DEF Result, Edited
<1>14. ASSUME client[c].op \in Deletes
       PROVE  Result(c) = SubSeq(g, 1, n - 1) \o SubSeq(g, n + 1, Len(g))
  <2>1. Result(c) = IF n < Len(g) THEN Without(g, n) ELSE SubSeq(g, 1, n - 1)
    BY <1>14, <1>3, OpKinds DEF Result, Edited
  <2> HIDE DEF g, n
  <2> QED
    BY <1>11, <2>1, RemovedIs
<1> HIDE DEF g, n
<1>15. CASE client[c].op \in Replaces
  <2>1. PICK t \in Texts : Result(c) = [g EXCEPT ![n] = t]
    BY <1>13, <1>15
  <2>2. Promised!Changes(c, "looked", "written", [KnownNow[c] EXCEPT ![n] = t])
    BY <1>9, <1>12, <2>1
  <2>3. n \in 1..Len(KnownNow[c])
    BY <1>11, <1>12
  <2> QED
    BY <1>6, <2>2, <2>3 DEF Promised!Swap
<1>16. CASE client[c].op \in Deletes
  <2>1. Promised!Changes(c, "looked", "written",
                         SubSeq(KnownNow[c], 1, n - 1) \o SubSeq(KnownNow[c], n + 1, Len(KnownNow[c])))
    BY <1>9, <1>12, <1>14, <1>16
  <2>2. n \in 1..Len(KnownNow[c])
    BY <1>11, <1>12
  <2> QED
    BY <1>6, <2>1, <2>2 DEF Promised!Swap
<1> QED
  BY <1>3, <1>10, <1>15, <1>16 DEF Ops

(* A write does what is promised: it tells its page, looks for the last    *)
(* time, changes the file, or ends.                                        *)
LEMMA WritesAsPromised ==
    ASSUME IInv, IInv', CopiesEdit, ~raced, NEW c \in Clients, Write(c)
    PROVE  Promised!Next
<1>1. TypeOK /\ OneInside /\ InPast /\ Truth /\ TypeOK' /\ KnownIsTrue'
  BY DEF IInv, Truth
<1>2. /\ \A d \in Clients : d # c => client'[d] = client[d] /\ known'[d] = known[d]
      /\ raced' = raced /\ At(c, Writing) /\ (Inside(c) \/ Enter(c))
  BY <1>1, WriteActs
<1>3. \A d \in Clients : d # c => CommitNow[d] = "no" /\ CommitNow'[d] = "no"
  <2>1. \A d \in Clients : d # c => CommitNow[d] = "no"
    BY <1>1, <1>2, OthersOut
  <2>2. \A d \in Clients : d # c => CommitNow'[d] = CommitNow[d]
    BY <1>2 DEF CommitNow
  <2> QED
    BY <2>1, <2>2
<1>4. CASE UpdateFails(c) \/ Install(c)
  <2>1. Same /\ client[c].pc \notin Committing /\ Ends(c)
    BY <1>4 DEF UpdateFails, Install, Release, At, Committing, disk, Same
  <2>2. client'[c].pc = "idle"
    BY <1>1, <2>1, EndsHere
  <2>3. CommitNow[c] = "no" /\ CommitNow'[c] = "no"
    BY <2>1, <2>2, CommitOfIs DEF CommitNow, Committing
  <2>4. CommitNow' = CommitNow
    <3>1. CommitNow = [d \in Clients |-> CommitNow[d]] /\ CommitNow' = [d \in Clients |-> CommitNow'[d]]
      BY DEF CommitNow
    <3>2. \A d \in Clients : CommitNow'[d] = CommitNow[d]
      BY <1>3, <2>3
    <3> QED
      BY <3>1, <3>2
  <2>5. Promised!Tell(c)
    BY <1>1, <1>2, <2>1, <2>4, TellsAsPromised
  <2> QED
    BY <2>5 DEF Promised!Next
<1>5. CASE Tear(c) \/ Appended(c) \/ (CutBack(c) /\ ~Same)
  BY <1>5, AppendsAsPromised DEF Promised!Next
<1>6. CASE Rename(c)
  BY <1>6, SwapsAsPromised DEF Promised!Next
<1>7. CASE (CheckHeld(c) \/ LookOnceMore(c)) /\ CommitNow'[c] = "looked"
  BY <1>7, LooksAsPromised DEF Promised!Next
<1>8. CASE ~(\/ UpdateFails(c) \/ Install(c) \/ Tear(c) \/ Appended(c) \/ (CutBack(c) /\ ~Same)
             \/ Rename(c) \/ ((CheckHeld(c) \/ LookOnceMore(c)) /\ CommitNow'[c] = "looked"))
  <2>1. Same /\ known' = known
    <3>1. CASE CutBack(c)
      BY <1>8, <3>1 DEF CutBack
    <3>2. CASE ~CutBack(c)
      BY <1>8, <3>2 DEF Write, Enter, LookToWrite, Decline, Hold, CheckHeld, Refuse, FindDamaged, Forget,
             CreateTemp, TempTaken, Copy, CopyFails, LookOnceMore, ChangedMeanwhile, RemoveTemp,
             NothingToRename, LookAfter, BeginUpdate, EndUpdate, disk, Same
    <3> QED
      BY <3>1, <3>2
  <2>2. CommitNow'[c] = "no"
    <3>1. CommitNow'[c] = CommitOf(client'[c])
      BY DEF CommitNow
    <3>2. CASE client'[c].pc \notin Committing
      BY <3>1, <3>2, CommitOfIs
    <3>3. CASE client'[c].pc \in Committing
      <4>1. CheckHeld(c) \/ LookOnceMore(c)
        BY <1>1, <1>8, <3>3, WriteComesTo DEF Committing
      <4>2. client'[c].pc \in {"planned", "swapping"}
        <5>1. ASSUME LookOnceMore(c) PROVE client'[c].pc = "swapping"
          BY <1>1, <1>2, <5>1, GoesOn DEF LookOnceMore
        <5>2. ASSUME CheckHeld(c) PROVE client'[c].pc = "planned"
          <6>1. client[c] \in Writes
            BY <1>1, <1>2, AtStep
          <6>2. client'[c] = [client[c] EXCEPT !.pc = "planned", !.new = Present]
            BY <1>1, <5>2 DEF CheckHeld, TypeOK
          <6> QED
            BY <6>1, <6>2 DEF Writes
        <5> QED
          BY <4>1, <5>1, <5>2
      <4>3. CommitNow'[c] # "looked"
        BY <1>8, <4>1
      <4> QED
        BY <3>1, <4>2, <4>3, CommitOfIs
    <3> QED
      BY <3>2, <3>3
  <2>3. \A d \in Clients : CommitNow'[d] = "no"
    BY <1>3, <2>2
  <2>4. Promised!End
    BY <1>2, <2>1, <2>3, EndsAsPromised
  <2> QED
    BY <2>4 DEF Promised!Next
<1> QED
  BY <1>4, <1>5, <1>6, <1>7, <1>8


LEMMA ReadsAsPromised ==
    ASSUME TypeOK, TypeOK', KnownIsTrue', ~raced, NEW c \in Clients,
           Read(c) \/ \E e \in PathsOf[c] : Send(c, e)
    PROVE  Promised!Tell(c)
<1>1. raced' = raced /\ \A d \in Clients : d # c => known'[d] = known[d]
  BY ReadActs, SendActs
<1>2. Same
  BY DEF Read, Look, LookInSlot, OpenIndexed, OpenQueues, OpenFails, OpenUnready, Send, disk, Same
<1> QED
  BY <1>1, <1>2, ReadsOut, TellsAsPromised

(* A change is past its last look as Races says.                           *)
LEMMA UnlookedIs ==
    ASSUME TypeOK, NEW c \in Clients
    PROVE  Unlooked(c) <=> CommitNow[c] # "no"
<1>1. CommitNow[c] = CommitOf(client[c])
  BY DEF CommitNow
<1>2. CASE client[c].pc \in Committing
  <2>1. ASSUME client[c].pc \in Committing \ {"planned"}
        PROVE  Unlooked(c) /\ CommitNow[c] # "no"
    BY <1>1, <2>1, CommitOfIs DEF Unlooked, At, Committing
  <2>2. ASSUME client[c].pc = "planned"
        PROVE  Unlooked(c) <=> CommitNow[c] # "no"
    BY <1>1, <2>2, CommitOfIs DEF Unlooked, At
  <2> QED
    BY <1>2, <2>1, <2>2
<1>3. CASE client[c].pc \notin Committing
  BY <1>1, <1>3, CommitOfIs DEF Unlooked, At, Committing
<1> QED
  BY <1>2, <1>3

LEMMA ForeignAsPromised ==
    ASSUME TypeOK, InPast, ~raced, ChangeGames \/ ReplaceFile
    PROVE  Promised!Change
<1>1. TypeOK' /\ Renewed
  BY ForeignType
<1>2. client' = client /\ known' = known
  BY DEF ChangeGames, ReplaceFile, Others
<1>3. KnownNow' = [c \in Clients |-> None]
  BY <1>1, <1>2, NewIsUnknown
<1>4. CommitNow' = CommitNow
  BY <1>2 DEF CommitNow
<1>5. GamesNow' \in Seq(Texts \union {Torn}) \union {None}
  BY <1>1 DEF TypeOK, GamesNow, Games
<1>6. raced' = (CommitNow # Promised!NoCommit)
  <2>1. raced' = (raced \/ \E c \in Clients : Unlooked(c))
    BY DEF ChangeGames, ReplaceFile, Races
  <2>2. (\E c \in Clients : Unlooked(c)) <=> (\E c \in Clients : CommitNow[c] # "no")
    BY UnlookedIs
  <2>3. (\E c \in Clients : CommitNow[c] # "no") <=> CommitNow # [c \in Clients |-> "no"]
    <3>1. CommitNow = [c \in Clients |-> CommitNow[c]]
      BY DEF CommitNow
    <3> QED
      BY <3>1
  <2>4. raced' <=> CommitNow # [c \in Clients |-> "no"]
    BY <2>1, <2>2, <2>3
  <2>5. raced' \in BOOLEAN
    BY <1>1 DEF TypeOK
  <2> QED
    BY <2>4, <2>5 DEF Promised!NoCommit
<1> QED
  BY <1>3, <1>4, <1>5, <1>6 DEF Promised!Change

LEMMA EnvironmentAsPromised ==
    ASSUME TypeOK, InPast, ~raced, Builder \/ Environment
    PROVE  Promised!Next \/ UNCHANGED Promised!vars
<1>1. CASE ChangeGames \/ ReplaceFile
  BY <1>1, ForeignAsPromised DEF Promised!Next
<1>2. CASE Restart
  <2>1. Same /\ known' = known /\ raced' = raced /\ client' = [c \in Clients |-> AtRest]
    BY <1>2 DEF Restart, disk, Same
  <2>2. ASSUME NEW c \in Clients
        PROVE  CommitNow'[c] = "no"
    <3>1. CommitNow'[c] = CommitOf(AtRest)
      BY <2>1 DEF CommitNow
    <3>2. AtRest.pc \notin Committing
      BY DEF AtRest, Committing
    <3> QED
      BY <3>1, <3>2, CommitOfIs
  <2> QED
    BY <2>1, <2>2, EndsAsPromised DEF Promised!Next
<1>3. CASE ~(ChangeGames \/ ReplaceFile \/ Restart)
  <2>1. Same /\ known' = known /\ raced' = raced /\ client' = client
    BY <1>3 DEF Builder, BeginBuild, ReadGames, PublishIndex, BuildFails, Environment, DamageHead,
                List, Unlist, Sweep, MinutePasses, disk, spent, Same
  <2> QED
    BY <2>1, StaysAsPromised
<1> QED
  BY <1>1, <1>2, <1>3

(* Every step is one of PgnFile's, or nothing to it.                       *)
LEMMA StepAsPromised ==
    ASSUME IInv, IInv', CopiesEdit, [Next]_vars
    PROVE  [Promised!Next]_(Promised!vars)
<1>1. TypeOK /\ InPast /\ TypeOK' /\ KnownIsTrue'
  BY DEF IInv, Truth
<1>2. CASE raced
  BY <1>1, <1>2, RacedStep DEF Promised!Next, Promised!Lapsed
<1>3. ASSUME ~raced, NEW c \in Clients, Read(c) \/ \E e \in PathsOf[c] : Send(c, e)
      PROVE  Promised!Next
  BY <1>1, <1>3, ReadsAsPromised DEF Promised!Next
<1>4. ASSUME ~raced, NEW c \in Clients, Write(c)
      PROVE  Promised!Next
  BY <1>4, WritesAsPromised
<1>5. CASE ~raced /\ (Builder \/ Environment)
  BY <1>1, <1>5, EnvironmentAsPromised
<1>6. CASE UNCHANGED vars
  BY <1>6, StaysAsPromised DEF vars, Same
<1> QED
  BY <1>2, <1>3, <1>4, <1>5, <1>6 DEF Next

LEMMA InitAsPromised ==
    ASSUME Init
    PROVE  CopiesEdit /\ Promised!Init
<1>1. /\ \A c \in Clients : client[c] = AtRest /\ known[c].gen = 0
      /\ file # None /\ raced = FALSE
  <2>1. ASSUME NEW t1 \in Texts, NEW t2 \in Texts
        PROVE  [gen |-> 1, games |-> <<t1, t2>>] # None
    <3>1. <<t1, t2>> \in Games
      BY DEF Games
    <3>2. [gen |-> 1, games |-> <<t1, t2>>] \in [gen : Nat, games : Games]
      BY <3>1
    <3> QED
      BY <3>2
  <2>2. file # None /\ raced = FALSE
    BY <2>1 DEF Init
  <2>3. ASSUME NEW c \in Clients
        PROVE  client[c] = AtRest /\ known[c].gen = 0
    BY DEF Init, Unread
  <2> QED
    BY <2>2, <2>3
<1>2. AtRest.pc = "idle"
  BY DEF AtRest
<1>3. CopiesEdit
  BY <1>1, <1>2 DEF CopiesEdit, At, Copying
<1>4. CommitNow = [c \in Clients |-> "no"]
  BY <1>1, <1>2, CommitOfIs DEF CommitNow, Committing
<1>5. PICK t1, t2 \in Texts : file = [gen |-> 1, games |-> <<t1, t2>>]
  BY DEF Init
<1>6. GamesNow \in Seq(Texts) /\ Present = 1
  BY <1>1, <1>5 DEF GamesNow, Present
<1>7. KnownNow = [c \in Clients |-> None]
  BY <1>1, <1>6 DEF KnownNow
<1> QED
  BY <1>1, <1>3, <1>4, <1>6, <1>7 DEF Promised!Init, Promised!NoCommit

(* write.rs:1-18: the writes implement the file that PgnFile promises; with *)
(* the inductive invariant, that only edits copy the file.                 *)
THEOREM FileChangesAsPromised == Spec => FileAsPromised
<1>1. Init => CopiesEdit /\ Promised!Init
  BY InitAsPromised
<1>2. IInv /\ CopiesEdit /\ [Next]_vars => CopiesEdit'
  BY CopiesEditStep DEF IInv
<1>3. IInv /\ IInv' /\ CopiesEdit /\ [Next]_vars => [Promised!Next]_(Promised!vars)
  BY StepAsPromised
<1> QED
  BY <1>1, <1>2, <1>3, Invariance, PTL DEF Spec, FileAsPromised, Promised!Spec
=============================================================================
