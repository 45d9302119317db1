------------------------ MODULE ApprovalQueue_proofs -------------------------
(***************************************************************************)
(* The approval queue, for any tasks, titles, lines, calls and decisions:  *)
(* what a decision does to the text of the file, and what the verifier and *)
(* the validator find in it.                                               *)
(***************************************************************************)
EXTENDS ApprovalQueue, SequenceTheorems, FiniteSetTheorems,
        WellFoundedInduction, TLAPS

-----------------------------------------------------------------------------
(* Part 1.  The text.                                                      *)

(* The lines a call or an agent writes, and what a header says.            *)
LEMMA LineFacts ==
  /\ Blank \in Line /\ ~IsHeader(Blank)
  /\ \A t \in Tasks :
       /\ <<"header", t>> \in Line /\ IsHeader(<<"header", t>>)
       /\ <<"header", t>> # Blank
       /\ <<"note", t>> \in Line /\ ~IsHeader(<<"note", t>>)
       /\ <<"note", t>> # Blank
  /\ \A l \in Line : IsHeader(l) => l[2] \in Tasks /\ l = <<"header", l[2]>>
PROOF
  BY DEF Blank, Line, IsHeader

(* A set of naturals has a least element: rawBlock ends before the next     *)
(* header there is.                                                         *)
LEMMA LeastExists ==
  ASSUME NEW S \in SUBSET Nat, S # {}
  PROVE  Min(S) \in S /\ \A y \in S : Min(S) <= y
PROOF
  <1>1. PICK x \in S : \A y \in S : <<y, x>> \notin OpToRel(<, Nat)
    BY NatLessThanWellFounded, WFMin, Zenon
  <1>2. \A y \in S : ~ (y < x)
    BY <1>1, Zenon DEF OpToRel
  <1>3. \A y \in S : x =< y
    BY <1>2
  <1>4. \E z \in S : \A y \in S : z =< y
    BY <1>3
  <1> QED BY <1>4, Zenon DEF Min

(* The part of a sequence from i to j. *)
LEMMA PartOf ==
  ASSUME NEW S, NEW t \in Seq(S), NEW i \in 1 .. Len(t) + 1, NEW j \in 0 .. Len(t),
         i <= j + 1
  PROVE  /\ SubSeq(t, i, j) \in Seq(S)
         /\ Len(SubSeq(t, i, j)) = j - i + 1
         /\ \A k \in 1 .. j - i + 1 : SubSeq(t, i, j)[k] = t[i + k - 1]
PROOF
  OBVIOUS

LEMMA SubSeqsMembers ==
  ASSUME NEW s, NEW v
  PROVE  s \in SubSeqs(v) <=> \E i, j \in 0 .. Len(v) : s = SubSeq(v, i + 1, j)
PROOF
  BY DEF SubSeqs

(* String.replace with a string as its pattern: the text stays as it is, or *)
(* one occurrence of s gives way to r.                                      *)
Replaces(r, s, t, u) ==
  \E i \in 1 .. Len(t) :
    /\ i + Len(s) - 1 <= Len(t)
    /\ s = SubSeq(t, i, i + Len(s) - 1)
    /\ u = SubSeq(t, 1, i - 1) \o r \o SubSeq(t, i + Len(s), Len(t))

LEMMA OccurrenceIsLast ==
  ASSUME NEW S, NEW t \in Seq(S), NEW s \in Seq(S), Len(s) > 0,
         NEW n \in 0 .. Len(t), s \in SubSeqs(SubSeq(t, 1, n)),
         \A j \in 0 .. n - 1 : s \notin SubSeqs(SubSeq(t, 1, j))
  PROVE  /\ n - (Len(s) - 1) \in 1 .. Len(t)
         /\ s = SubSeq(t, n - (Len(s) - 1), n)
PROOF
  <1> DEFINE v == SubSeq(t, 1, n)
  <1>1. v \in Seq(S) /\ Len(v) = n /\ \A k \in 1 .. n : v[k] = t[k]
    BY PartOf
  <1>2. PICK i \in 0 .. n, j \in 0 .. n : s = SubSeq(v, i + 1, j)
    <2>1. \E i, j \in 0 .. Len(v) : s = SubSeq(v, i + 1, j)
      <3> HIDE DEF v
      <3>1. s \in SubSeqs(v)
        BY DEF v
      <3> QED BY <3>1, SubSeqsMembers
    <2>2. Len(v) = n
      BY <1>1, Zenon
    <2> HIDE DEF v
    <2>3. \E i, j \in 0 .. n : s = SubSeq(v, i + 1, j)
      BY <2>1, <2>2, Zenon
    <2> QED BY <2>3, Zenon DEF v
  <1> HIDE DEF v
  <1>3. j >= i + 1
    <2>1. CASE j < i + 1
      <3>1. SubSeq(v, i + 1, j) = <<>>
        BY <2>1, SubSeqEmpty
      <3> QED BY <3>1, <1>2
    <2> QED BY <2>1
  <1>4. Len(s) = j - i /\ \A k \in 1 .. j - i : s[k] = t[i + k]
    <2>1. /\ Len(SubSeq(v, i + 1, j)) = j - (i + 1) + 1
          /\ \A k \in 1 .. j - (i + 1) + 1 : SubSeq(v, i + 1, j)[k] = v[i + 1 + k - 1]
      BY <1>1, <1>3, PartOf
    <2> QED BY <2>1, <1>1, <1>2, <1>3
  <1>5. SubSeq(t, i + 1, j) \in Seq(S) /\ Len(SubSeq(t, i + 1, j)) = j - i
        /\ \A k \in 1 .. j - i : SubSeq(t, i + 1, j)[k] = t[i + k]
    BY <1>3, PartOf
  <1>6. s = SubSeq(t, i + 1, j)
    <2>1. DOMAIN s = 1 .. j - i /\ DOMAIN SubSeq(t, i + 1, j) = 1 .. j - i
      BY <1>3, <1>4, <1>5
    <2>2. Len(s) = Len(SubSeq(t, i + 1, j))
      BY <1>4, <1>5
    <2>3. \A k \in 1 .. Len(s) : s[k] = SubSeq(t, i + 1, j)[k]
      BY <1>4, <1>5
    <2> HIDE DEF v
    <2> QED BY <2>2, <2>3, <1>5, SeqEqual
  <1>7. j = n
    <2>1. SUFFICES ASSUME j # n PROVE FALSE
      OBVIOUS
    <2> DEFINE w == SubSeq(t, 1, j)
    <2>2. w \in Seq(S) /\ Len(w) = j /\ \A k \in 1 .. j : w[k] = t[k]
      BY PartOf
    <2>3. /\ SubSeq(w, i + 1, j) \in Seq(S) /\ Len(SubSeq(w, i + 1, j)) = j - i
          /\ \A k \in 1 .. j - i : SubSeq(w, i + 1, j)[k] = w[i + k]
      BY <2>2, <1>3, PartOf
    <2>4. s = SubSeq(w, i + 1, j)
      <3>1. Len(s) = Len(SubSeq(w, i + 1, j))
        BY <2>3, <1>4
      <3>2. \A k \in 1 .. Len(s) : s[k] = SubSeq(w, i + 1, j)[k]
        BY <2>2, <2>3, <1>3, <1>4
      <3> HIDE DEF w
      <3> QED BY <3>1, <3>2, <2>3, SeqEqual
    <2>5. s \in SubSeqs(w)
      <3>1. i \in 0 .. Len(w) /\ j \in 0 .. Len(w)
        BY <2>2, <1>3
      <3> QED BY <2>4, <3>1, SubSeqsMembers, Zenon
    <2> QED BY <2>5, <2>1
  <1> QED BY <1>3, <1>4, <1>6, <1>7

LEMMA ReplaceShape ==
  ASSUME NEW S, NEW r \in Seq(S), NEW s \in Seq(S), Len(s) > 0, NEW t \in Seq(S)
  PROVE  \/ ReplaceFirstSubSeq(r, s, t) = t
         \/ Replaces(r, s, t, ReplaceFirstSubSeq(r, s, t))
PROOF
  <1>1. CASE s \notin SubSeqs(t)
    BY <1>1 DEF ReplaceFirstSubSeq
  <1>2. CASE s \in SubSeqs(t)
    <2> DEFINE Ends == {m \in 0 .. Len(t) : s \in SubSeqs(SubSeq(t, 1, m))}
               IsEnd(m) == /\ s \in SubSeqs(SubSeq(t, 1, m))
                           /\ \A j \in 0 .. m - 1 : s \notin SubSeqs(SubSeq(t, 1, j))
               n == CHOOSE m \in 0 .. Len(t) : IsEnd(m)
    <2>1. SubSeq(t, 1, Len(t)) = t
      BY SubSeqFull
    <2>2. Ends \in SUBSET Nat /\ Ends # {}
      <3>1. Len(t) \in 0 .. Len(t)
        OBVIOUS
      <3>2. Len(t) \in Ends
        BY <2>1, <1>2, <3>1, Zenon
      <3>3. 0 .. Len(t) \in SUBSET Nat
        OBVIOUS
      <3> QED BY <3>2, <3>3, Zenon
    <2>3. Min(Ends) \in Ends /\ \A y \in Ends : Min(Ends) <= y
      BY <2>2, LeastExists
    <2>4. IsEnd(Min(Ends)) /\ Min(Ends) \in 0 .. Len(t)
      <3> DEFINE e == Min(Ends)
      <3>1. e \in 0 .. Len(t) /\ s \in SubSeqs(SubSeq(t, 1, e))
        BY <2>3, Zenon
      <3>2. \A y \in Ends : e <= y
        BY <2>3, Zenon
      <3> HIDE DEF e
      <3>3. ASSUME NEW j \in 0 .. e - 1, s \in SubSeqs(SubSeq(t, 1, j))
            PROVE  FALSE
        <4>1. j \in 0 .. Len(t) /\ ~ (e <= j)
          BY <3>1
        <4> QED BY <4>1, <3>2, <3>3, Zenon
      <3>4. IsEnd(e)
        BY <3>1, <3>3, Zenon
      <3> QED BY <3>1, <3>4, Zenon DEF e
    <2>5. n \in 0 .. Len(t) /\ IsEnd(n)
      BY <2>4, Zenon
    <2>6. IndexFirstSubSeq(s, t) = n - (Len(s) - 1)
      BY DEF IndexFirstSubSeq
    <2> HIDE DEF n
    <2>7. /\ n - (Len(s) - 1) \in 1 .. Len(t)
          /\ s = SubSeq(t, n - (Len(s) - 1), n)
      BY <2>5, OccurrenceIsLast
    <2> DEFINE i == n - (Len(s) - 1)
    <2>8. ReplaceFirstSubSeq(r, s, t)
            = SubSeq(t, 1, i - 1) \o r \o SubSeq(t, i + Len(s), Len(t))
      BY <1>2, <2>6 DEF ReplaceFirstSubSeq, ReplaceSubSeqAt
    <2>9. i + Len(s) - 1 = n /\ Len(s) \in Nat
      BY <2>5
    <2>10. i \in 1 .. Len(t) /\ s = SubSeq(t, i, n)
      BY <2>7, Zenon
    <2>11. i + Len(s) - 1 <= Len(t)
      BY <2>5, <2>9
    <2> HIDE DEF i
    <2> DEFINE u == ReplaceFirstSubSeq(r, s, t)
    <2>12. s = SubSeq(t, i, i + Len(s) - 1)
      BY <2>9, <2>10, Zenon
    <2> HIDE DEF u
    <2>13. u = SubSeq(t, 1, i - 1) \o r \o SubSeq(t, i + Len(s), Len(t))
      BY <2>8, Zenon DEF u
    <2>14. Replaces(r, s, t, u)
      BY <2>10, <2>11, <2>12, <2>13, Zenon DEF Replaces
    <2> QED BY <2>14, Zenon DEF u
  <1> QED BY <1>1, <1>2

(* What is left of a text in which r has replaced s: every line outside of  *)
(* s is still there, and so are the lines of r.                             *)
LEMMA ReplaceKeeps ==
  ASSUME NEW S, NEW r \in Seq(S), NEW s \in Seq(S), NEW t \in Seq(S), NEW u,
         Replaces(r, s, t, u)
  PROVE  /\ u \in Seq(S)
         /\ Range(t) \ Range(s) \subseteq Range(u)
         /\ Range(r) \subseteq Range(u)
PROOF
  <1>1. PICK i \in 1 .. Len(t) :
          /\ i + Len(s) - 1 <= Len(t)
          /\ s = SubSeq(t, i, i + Len(s) - 1)
          /\ u = SubSeq(t, 1, i - 1) \o r \o SubSeq(t, i + Len(s), Len(t))
    BY Zenon DEF Replaces
  <1> DEFINE a == SubSeq(t, 1, i - 1)
             z == SubSeq(t, i + Len(s), Len(t))
  <1>2. Len(s) \in Nat /\ Len(t) \in Nat /\ i \in Nat
    OBVIOUS
  <1>3. /\ a \in Seq(S) /\ Len(a) = i - 1
        /\ \A k \in 1 .. i - 1 : a[k] = t[k]
    <2>1. 1 \in 1 .. Len(t) + 1 /\ i - 1 \in 0 .. Len(t) /\ 1 <= i - 1 + 1
      BY <1>2
    <2>2. /\ a \in Seq(S) /\ Len(a) = i - 1 - 1 + 1
          /\ \A k \in 1 .. i - 1 - 1 + 1 : a[k] = t[1 + k - 1]
      BY <2>1, PartOf
    <2> QED BY <2>2, <1>2
  <1>4. /\ z \in Seq(S) /\ Len(z) = Len(t) - (i + Len(s)) + 1
        /\ \A k \in 1 .. Len(z) : z[k] = t[i + Len(s) + k - 1]
    <2>1. /\ i + Len(s) \in 1 .. Len(t) + 1 /\ Len(t) \in 0 .. Len(t)
          /\ i + Len(s) <= Len(t) + 1
      BY <1>1, <1>2
    <2>2. /\ z \in Seq(S) /\ Len(z) = Len(t) - (i + Len(s)) + 1
          /\ \A k \in 1 .. Len(t) - (i + Len(s)) + 1 :
               z[k] = t[i + Len(s) + k - 1]
      BY <2>1, PartOf
    <2> QED BY <2>2
  <1>5. u = a \o r \o z
    BY <1>1, Zenon
  <1> HIDE DEF a, z
  <1>6. a \o r \in Seq(S) /\ Range(a \o r) = Range(a) \cup Range(r)
    BY <1>3, RangeConcatenation
  <1>7. u \in Seq(S) /\ Range(u) = Range(a) \cup Range(r) \cup Range(z)
    <2> DEFINE b == a \o r
    <2>1. b \in Seq(S) /\ Range(b) = Range(a) \cup Range(r) /\ u = b \o z
      BY <1>5, <1>6, Zenon
    <2> HIDE DEF b
    <2>2. b \o z \in Seq(S) /\ Range(b \o z) = Range(b) \cup Range(z)
      BY <1>4, <2>1, RangeConcatenation
    <2> QED BY <2>1, <2>2
  <1>8. ASSUME NEW k \in 1 .. Len(t), t[k] \notin Range(s)
        PROVE  t[k] \in Range(u)
    <2>1. CASE k < i
      <3>1. k \in 1 .. Len(a) /\ a[k] = t[k]
        BY <2>1, <1>2, <1>3
      <3>2. a[k] \in Range(a)
        BY <3>1, <1>3 DEF Range
      <3> QED BY <3>1, <3>2, <1>7
    <2>2. CASE i <= k /\ k < i + Len(s)
      <3>1. k - i + 1 \in 1 .. Len(s)
        BY <2>2, <1>2
      <3>2. s[k - i + 1] = t[k]
        <4>1. /\ i \in 1 .. Len(t) + 1 /\ i + Len(s) - 1 \in 0 .. Len(t)
              /\ i <= i + Len(s) - 1 + 1
          BY <1>1, <1>2
        <4>2. \A m \in 1 .. i + Len(s) - 1 - i + 1 :
                SubSeq(t, i, i + Len(s) - 1)[m] = t[i + m - 1]
          BY <4>1, PartOf
        <4>3. k - i + 1 \in 1 .. i + Len(s) - 1 - i + 1 /\ i + (k - i + 1) - 1 = k
          BY <3>1, <1>2
        <4>4. SubSeq(t, i, i + Len(s) - 1)[k - i + 1] = t[i + (k - i + 1) - 1]
          BY <4>2, <4>3
        <4>5. SubSeq(t, i, i + Len(s) - 1)[k - i + 1] = s[k - i + 1]
          BY <1>1, Zenon
        <4> QED BY <4>3, <4>4, <4>5, Zenon
      <3>3. s[k - i + 1] \in Range(s)
        BY <3>1 DEF Range
      <3> QED BY <3>2, <3>3, <1>8
    <2>3. CASE i + Len(s) <= k
      <3> DEFINE m == k - (i + Len(s)) + 1
      <3>1. m \in 1 .. Len(z) /\ i + Len(s) + m - 1 = k
        BY <2>3, <1>2, <1>4
      <3> HIDE DEF m
      <3>2. z[m] = t[k]
        BY <3>1, <1>4
      <3>3. z[m] \in Range(z)
        BY <3>1, <1>4 DEF Range
      <3> QED BY <3>2, <3>3, <1>7
    <2>4. k < i \/ (i <= k /\ k < i + Len(s)) \/ i + Len(s) <= k
      BY <1>2
    <2> QED BY <2>1, <2>2, <2>3, <2>4, Zenon
  <1>9. Range(t) = {t[k] : k \in 1 .. Len(t)}
    BY DEF Range
  <1> QED BY <1>7, <1>8, <1>9

-----------------------------------------------------------------------------
(* Part 2.  What is true of every behaviour.                               *)

(* An item is one request: its block begins with the header of its task and *)
(* contains no other header.                                                *)
IsItem(item) ==
  /\ item.task \in Tasks /\ item.raw \in Seq(Line) /\ Len(item.raw) > 0
  /\ \A l \in Range(item.raw) : IsHeader(l) => l = <<"header", item.task>>

IsEntries(entries) == entries \subseteq Tasks \X {"approved", "denied", "modified"}
IsSection(lines) ==
  lines \in Seq(Line) /\ (lines # <<>> => Range(lines) # {Blank})

(* A call has read an item and a whole file at two moments of the past.     *)
IsCall(c) ==
  /\ IsItem(c.item) /\ IsSection(c.pending) /\ IsEntries(c.resolved)
  /\ c.what \in {"approved", "denied", "note"}

QueueInv ==
  /\ IsSection(pending) /\ IsEntries(resolved)
  /\ tag \in [Tasks -> {"none", "needed", "approved"}]
  /\ \A item \in held : IsItem(item)
  /\ \A c \in calls : IsCall(c)
CallsCounted ==
  /\ IsFiniteSet(calls) /\ made \in 0 .. MaxCalls
  /\ Cardinality(calls) <= made
ApprovalInv == QueueInv /\ CallsCounted

LEMMA BlockIsPart ==
  ASSUME NEW lines \in Seq(Line), NEW i \in 1 .. Len(lines), IsHeader(lines[i])
  PROVE  \E e \in i .. Len(lines) :
           /\ Block(lines, i) = SubSeq(lines, i, e)
           /\ \A k \in i + 1 .. e : ~IsHeader(lines[k])
PROOF
  <1> DEFINE next == {j \in i + 1 .. Len(lines) : IsHeader(lines[j])}
             e == IF next = {} THEN Len(lines) ELSE Min(next) - 1
  <1>1. Len(lines) \in Nat /\ next \in SUBSET Nat
    OBVIOUS
  <1>2. Block(lines, i) = SubSeq(lines, i, e)
    BY DEF Block
  <1>3. CASE next = {}
    <2>1. e = Len(lines) /\ e \in i .. Len(lines)
      BY <1>3, <1>1
    <2>2. \A k \in i + 1 .. e : ~IsHeader(lines[k])
      BY <1>3, <2>1
    <2> HIDE DEF e
    <2> QED BY <1>2, <2>1, <2>2
  <1>4. CASE next # {}
    <2> DEFINE m == Min(next)
    <2>1. m \in next /\ \A y \in next : m <= y
      BY <1>1, <1>4, LeastExists
    <2>2. e = m - 1
      BY <1>4
    <2> HIDE DEF m, e
    <2>3. m \in i + 1 .. Len(lines)
      BY <2>1
    <2>4. e \in i .. Len(lines)
      BY <2>2, <2>3, <1>1
    <2>5. \A k \in i + 1 .. e : ~IsHeader(lines[k])
      BY <2>1, <2>2, <2>3, <1>1
    <2> QED BY <1>2, <2>4, <2>5
  <1> QED BY <1>3, <1>4

(* parsePendingItems makes items of every text. *)
LEMMA ItemsAreItems ==
  ASSUME NEW lines \in Seq(Line), NEW item \in Items(lines)
  PROVE  IsItem(item)
PROOF
  <1>1. PICK i \in 1 .. Len(lines) :
          IsHeader(lines[i]) /\ item = [task |-> lines[i][2], raw |-> Block(lines, i)]
    BY DEF Items
  <1>2. PICK e \in i .. Len(lines) :
          /\ Block(lines, i) = SubSeq(lines, i, e)
          /\ \A k \in i + 1 .. e : ~IsHeader(lines[k])
    BY <1>1, BlockIsPart
  <1> DEFINE raw == SubSeq(lines, i, e)
  <1>3. /\ raw \in Seq(Line) /\ Len(raw) = e - i + 1
        /\ \A k \in 1 .. e - i + 1 : raw[k] = lines[i + k - 1]
    <2>1. i \in 1 .. Len(lines) + 1 /\ e \in 0 .. Len(lines) /\ i <= e + 1
      OBVIOUS
    <2> QED BY <2>1, PartOf
  <1> HIDE DEF raw
  <1>4. item.raw = raw /\ item.task = lines[i][2]
    BY <1>1, <1>2 DEF raw
  <1>5. lines[i] \in Line
    OBVIOUS
  <1>6. lines[i][2] \in Tasks /\ lines[i] = <<"header", lines[i][2]>>
    BY <1>1, <1>5, LineFacts, Zenon
  <1>7. ASSUME NEW k \in 1 .. Len(raw), IsHeader(raw[k])
        PROVE  raw[k] = <<"header", item.task>>
    <2>1. k = 1
      <3>1. SUFFICES ASSUME k # 1 PROVE FALSE
        OBVIOUS
      <3>2. i + k - 1 \in i + 1 .. e /\ raw[k] = lines[i + k - 1]
        BY <3>1, <1>3
      <3> QED BY <3>2, <1>2, <1>7
    <2>2. raw[k] = lines[i]
      BY <2>1, <1>3
    <2> QED BY <2>2, <1>4, <1>6, Zenon
  <1>8. Range(raw) = {raw[k] : k \in 1 .. Len(raw)}
    BY <1>3, RangeEquality
  <1>9. \A l \in Range(raw) : IsHeader(l) => l = <<"header", item.task>>
    BY <1>7, <1>8
  <1>10. Len(raw) > 0
    BY <1>3
  <1> QED BY <1>3, <1>4, <1>6, <1>9, <1>10 DEF IsItem

LEMMA SettledIsSection ==
  ASSUME NEW lines \in Seq(Line)
  PROVE  IsSection(Settled(lines)) /\ Headers(Settled(lines)) = Headers(lines)
PROOF
  <1>1. CASE Range(lines) \subseteq {Blank}
    <2>1. Settled(lines) = <<>>
      BY <1>1 DEF Settled
    <2>2. Range(<<>>) = {}
      BY DEF Range
    <2>3. Headers(lines) = {} /\ Headers(<<>>) = {}
      BY <1>1, <2>2, LineFacts DEF Headers
    <2> QED BY <2>1, <2>3 DEF IsSection
  <1>2. CASE ~ (Range(lines) \subseteq {Blank})
    <2>1. Settled(lines) = lines
      BY <1>2 DEF Settled
    <2> QED BY <1>2, <2>1 DEF IsSection
  <1> QED BY <1>1, <1>2

(* What a decision makes of a text: a section again, with every request     *)
(* but at most the item's own.                                              *)
LEMMA DecisionOnText ==
  ASSUME NEW item, IsItem(item), NEW lines \in Seq(Line)
  PROVE  LET result == Settled(ReplaceFirstSubSeq(<<>>, item.raw, lines)) IN
         /\ IsSection(result)
         /\ Headers(lines) \ {item.task} \subseteq Headers(result)
PROOF
  <1> DEFINE u == ReplaceFirstSubSeq(<<>>, item.raw, lines)
  <1>1. item.raw \in Seq(Line) /\ Len(item.raw) > 0 /\ <<>> \in Seq(Line)
    BY DEF IsItem
  <1>2. u = lines \/ Replaces(<<>>, item.raw, lines, u)
    BY <1>1, ReplaceShape
  <1> HIDE DEF u
  <1>3. u \in Seq(Line) /\ Range(lines) \ Range(item.raw) \subseteq Range(u)
    <2>1. CASE u = lines
      BY <2>1
    <2>2. CASE Replaces(<<>>, item.raw, lines, u)
      BY <2>2, <1>1, ReplaceKeeps
    <2> QED BY <1>2, <2>1, <2>2
  <1>4. ASSUME NEW h \in Headers(lines) \ {item.task}
        PROVE  h \in Headers(u)
    <2>1. PICK l \in Range(lines) : IsHeader(l) /\ l[2] = h
      BY <1>4 DEF Headers
    <2>2. l \notin Range(item.raw)
      <3>1. SUFFICES ASSUME l \in Range(item.raw) PROVE FALSE
        OBVIOUS
      <3>2. l = <<"header", item.task>>
        BY <3>1, <2>1, Zenon DEF IsItem
      <3> QED BY <3>2, <2>1, <1>4
    <2> QED BY <2>1, <2>2, <1>3 DEF Headers
  <1>5. IsSection(Settled(u)) /\ Headers(Settled(u)) = Headers(u)
    BY <1>3, SettledIsSection
  <1> QED BY <1>4, <1>5 DEF u

(* Only a blank line is trimmed. *)
LEMMA TrimKeeps ==
  ASSUME NEW raw \in Seq(Line), Len(raw) > 0
  PROVE  TrimEnd(raw) \in Seq(Line) /\ Range(raw) \ {Blank} \subseteq Range(TrimEnd(raw))
PROOF
  <1>1. CASE Last(raw) = Blank
    <2> DEFINE trimmed == SubSeq(raw, 1, Len(raw) - 1)
    <2>1. TrimEnd(raw) = trimmed
      BY <1>1 DEF TrimEnd, Front
    <2>2. /\ trimmed \in Seq(Line) /\ Len(trimmed) = Len(raw) - 1
          /\ \A k \in 1 .. Len(raw) - 1 : trimmed[k] = raw[k]
      <3>1. /\ 1 \in 1 .. Len(raw) + 1 /\ Len(raw) - 1 \in 0 .. Len(raw)
            /\ 1 <= (Len(raw) - 1) + 1
        OBVIOUS
      <3>2. /\ trimmed \in Seq(Line) /\ Len(trimmed) = (Len(raw) - 1) - 1 + 1
            /\ \A k \in 1 .. (Len(raw) - 1) - 1 + 1 : trimmed[k] = raw[1 + k - 1]
        BY <3>1, PartOf
      <3> QED BY <3>2
    <2> HIDE DEF trimmed
    <2>3. ASSUME NEW l \in Range(raw), l # Blank
          PROVE  l \in Range(trimmed)
      <3>1. PICK k \in 1 .. Len(raw) : l = raw[k]
        BY <2>3 DEF Range
      <3>2. k # Len(raw)
        BY <1>1, <2>3, <3>1 DEF Last
      <3>3. k \in 1 .. Len(trimmed) /\ trimmed[k] = l
        BY <2>2, <3>1, <3>2
      <3> QED BY <2>2, <3>3 DEF Range
    <2> QED BY <2>1, <2>2, <2>3
  <1>2. CASE Last(raw) # Blank
    BY <1>2 DEF TrimEnd
  <1> QED BY <1>1, <1>2

(* What a question or an answer makes of it: a section with every request.  *)
LEMMA NoteOnText ==
  ASSUME NEW item, IsItem(item), NEW lines, IsSection(lines)
  PROVE  LET result == ReplaceFirstSubSeq(TrimEnd(item.raw) \o <<<<"note", item.task>>>>,
                                          item.raw, lines) IN
         IsSection(result) /\ Headers(lines) \subseteq Headers(result)
PROOF
  <1> DEFINE note == <<"note", item.task>>
             r == TrimEnd(item.raw) \o <<note>>
             u == ReplaceFirstSubSeq(r, item.raw, lines)
  <1>1. /\ item.raw \in Seq(Line) /\ Len(item.raw) > 0 /\ lines \in Seq(Line)
        /\ note \in Line /\ note # Blank
    BY LineFacts DEF IsItem, IsSection
  <1>2. /\ TrimEnd(item.raw) \in Seq(Line)
        /\ Range(item.raw) \ {Blank} \subseteq Range(TrimEnd(item.raw))
    BY <1>1, TrimKeeps
  <1> HIDE DEF note
  <1>3. <<note>> \in Seq(Line) /\ note \in Range(<<note>>)
    BY <1>1 DEF Range
  <1>4. /\ r \in Seq(Line) /\ note \in Range(r)
        /\ Range(item.raw) \ {Blank} \subseteq Range(r)
    <2> DEFINE trimmed == TrimEnd(item.raw)
    <2>1. trimmed \in Seq(Line) /\ r = trimmed \o <<note>>
          /\ Range(item.raw) \ {Blank} \subseteq Range(trimmed)
      BY <1>2
    <2> HIDE DEF trimmed, r
    <2>2. trimmed \o <<note>> \in Seq(Line)
      BY <1>3, <2>1, ConcatProperties
    <2>3. Range(trimmed \o <<note>>) = Range(trimmed) \cup Range(<<note>>)
      BY <1>3, <2>1, RangeConcatenation
    <2> QED BY <1>3, <2>1, <2>2, <2>3, Zenon
  <1> HIDE DEF r
  <1>5. u = lines \/ Replaces(r, item.raw, lines, u)
    BY <1>1, <1>4, ReplaceShape
  <1> HIDE DEF u
  <1>6. IsSection(u) /\ Range(lines) \ {Blank} \subseteq Range(u)
    <2>1. CASE u = lines
      BY <2>1
    <2>2. CASE Replaces(r, item.raw, lines, u)
      <3>1. /\ u \in Seq(Line) /\ Range(r) \subseteq Range(u)
            /\ Range(lines) \ Range(item.raw) \subseteq Range(u)
        BY <2>2, <1>1, <1>4, ReplaceKeeps
      <3> QED BY <3>1, <1>1, <1>4 DEF IsSection
    <2> QED BY <1>5, <2>1, <2>2
  <1>7. Headers(lines) \subseteq Headers(u)
    BY <1>6, LineFacts, Zenon DEF Headers
  <1> QED BY <1>6, <1>7 DEF u, r, note

LEMMA QueueTypes == ApprovalInv => TypeOK
PROOF
  BY Zenon DEF ApprovalInv, QueueInv, CallsCounted, TypeOK, IsSection, IsEntries,
     IsItem

LEMMA InvAtFirst == Init => ApprovalInv
PROOF
  <1>1. <<>> \in Seq(Line)
    OBVIOUS
  <1>2. 0 \in 0 .. MaxCalls
    BY CallsAreBounded
  <1>3. IsFiniteSet({}) /\ Cardinality({}) = 0
    BY FS_EmptySet
  <1> QED
    BY <1>1, <1>2, <1>3
       DEF Init, ApprovalInv, QueueInv, CallsCounted, IsSection, IsEntries

LEMMA RequestKeeps ==
  ASSUME ApprovalInv, NEW t \in Tasks, Request(t)
  PROVE  ApprovalInv'
PROOF
  <1> DEFINE gap == IF pending = <<>> \/ Last(pending) = Blank THEN <<>>
                    ELSE <<Blank>>
             header == <<"header", t>>
  <1>1. pending \in Seq(Line) /\ header \in Line /\ header # Blank /\ Blank \in Line
    BY LineFacts DEF ApprovalInv, QueueInv, IsSection
  <1>2. gap \in Seq(Line)
    BY <1>1
  <1>3. pending' = (pending \o gap) \o <<header>>
    BY Zenon DEF Request
  <1> HIDE DEF gap, header
  <1>4. <<header>> \in Seq(Line) /\ header \in Range(<<header>>)
    BY <1>1 DEF Range
  <1>5. IsSection(pending)'
    <2> DEFINE b == pending \o gap
    <2>1. b \in Seq(Line) /\ pending' = b \o <<header>>
      BY <1>1, <1>2, <1>3, ConcatProperties
    <2> HIDE DEF b
    <2>2. /\ b \o <<header>> \in Seq(Line)
          /\ Range(b \o <<header>>) = Range(b) \cup Range(<<header>>)
      BY <1>4, <2>1, ConcatProperties, RangeConcatenation
    <2>3. Range(b \o <<header>>) # {Blank}
      BY <1>1, <1>4, <2>2, Zenon
    <2>4. IsSection(b \o <<header>>)
      BY <2>2, <2>3, Zenon DEF IsSection
    <2>5. IsSection(pending')
      BY <2>1, <2>4, Zenon
    <2> QED BY <2>5, Zenon DEF IsSection
  <1>6. (tag \in [Tasks -> {"none", "needed", "approved"}])'
    BY DEF Request, ApprovalInv, QueueInv
  <1>7. UNCHANGED <<resolved, held, calls, made>>
    BY Zenon DEF Request
  <1> QED BY <1>5, <1>6, <1>7, Zenon DEF ApprovalInv, QueueInv, CallsCounted

LEMMA RetagKeeps ==
  ASSUME ApprovalInv, NEW t \in Tasks, Retag(t)
  PROVE  ApprovalInv'
PROOF
  <1>1. (tag \in [Tasks -> {"none", "needed", "approved"}])'
    BY DEF Retag, ApprovalInv, QueueInv
  <1>2. UNCHANGED <<pending, resolved, held, calls, made>>
    BY Zenon DEF Retag
  <1> QED
    BY <1>1, <1>2, Zenon DEF ApprovalInv, QueueInv, CallsCounted, IsSection

LEMMA MoveKeeps ==
  ASSUME ApprovalInv, NEW item \in Items(pending),
         NEW d \in {"approved", "denied", "modified"}, MoveByHand(item, d)
  PROVE  ApprovalInv'
PROOF
  <1>1. pending \in Seq(Line) /\ IsEntries(resolved)
    BY Zenon DEF ApprovalInv, QueueInv, IsSection
  <1>2. IsItem(item)
    BY <1>1, ItemsAreItems
  <1> DEFINE u == Settled(ReplaceFirstSubSeq(<<>>, item.raw, pending))
  <1>3. IsSection(u)
    BY <1>1, <1>2, DecisionOnText
  <1>4. pending' = u
    BY Zenon DEF MoveByHand
  <1> HIDE DEF u
  <1>5. IsSection(pending)'
    BY <1>3, <1>4, Zenon DEF IsSection
  <1>6. IsEntries(resolved)'
    BY <1>1, <1>2 DEF MoveByHand, IsEntries, IsItem
  <1>7. UNCHANGED <<tag, held, calls, made>>
    BY Zenon DEF MoveByHand
  <1> QED BY <1>5, <1>6, <1>7, Zenon DEF ApprovalInv, QueueInv, CallsCounted

LEMMA LookKeeps ==
  ASSUME ApprovalInv, NEW item \in Items(pending), Look(item)
  PROVE  ApprovalInv'
PROOF
  <1>1. pending \in Seq(Line)
    BY Zenon DEF ApprovalInv, QueueInv, IsSection
  <1>2. IsItem(item)
    BY <1>1, ItemsAreItems
  <1>3. (\A i \in held : IsItem(i))'
    BY <1>2 DEF Look, ApprovalInv, QueueInv
  <1>4. UNCHANGED <<pending, resolved, tag, calls, made>>
    BY Zenon DEF Look
  <1> QED
    BY <1>3, <1>4, Zenon DEF ApprovalInv, QueueInv, CallsCounted, IsSection

LEMMA BeginKeeps ==
  ASSUME ApprovalInv, NEW item \in held, NEW what \in {"approved", "denied", "note"},
         Begin(item, what)
  PROVE  ApprovalInv'
PROOF
  <1> DEFINE c == [item |-> item, what |-> what, pending |-> pending,
                   resolved |-> resolved]
  <1>1. IsCall(c)
    BY DEF IsCall, ApprovalInv, QueueInv
  <1>2. calls' = calls \cup {c} /\ made' = made + 1 /\ made < MaxCalls
    BY DEF Begin
  <1> HIDE DEF c
  <1>3. (\A b \in calls : IsCall(b))'
    BY <1>1, <1>2, Zenon DEF ApprovalInv, QueueInv
  <1>4. CallsCounted'
    <2>1. IsFiniteSet(calls) /\ made \in 0 .. MaxCalls /\ Cardinality(calls) <= made
      BY DEF ApprovalInv, CallsCounted
    <2>2. /\ IsFiniteSet(calls \cup {c}) /\ Cardinality(calls) \in Nat
          /\ \/ Cardinality(calls \cup {c}) = Cardinality(calls)
             \/ Cardinality(calls \cup {c}) = Cardinality(calls) + 1
      BY <2>1, FS_AddElement, FS_CardinalityType
    <2> QED BY <1>2, <2>1, <2>2, CallsAreBounded DEF CallsCounted
  <1>5. (\A i \in held : IsItem(i))'
    BY DEF Begin, ApprovalInv, QueueInv
  <1>6. UNCHANGED <<pending, resolved, tag>>
    BY Zenon DEF Begin
  <1> QED
    BY <1>3, <1>4, <1>5, <1>6, Zenon DEF ApprovalInv, QueueInv, IsSection

(* The text a call writes is a section, with every request it has read but  *)
(* at most the one it decides.                                              *)
LEMMA WritesASection ==
  ASSUME NEW c, IsCall(c)
  PROVE  /\ IsSection(PendingAfter(c))
         /\ Headers(c.pending) \ {c.item.task} \subseteq Headers(PendingAfter(c))
         /\ ~Decides(c) => Headers(c.pending) \subseteq Headers(PendingAfter(c))
PROOF
  <1>1. IsItem(c.item) /\ IsSection(c.pending) /\ c.pending \in Seq(Line)
    BY Zenon DEF IsCall, IsSection
  <1>2. CASE Decides(c)
    <2>1. PendingAfter(c) = Settled(ReplaceFirstSubSeq(<<>>, c.item.raw, c.pending))
      BY <1>2, Zenon DEF PendingAfter
    <2> QED BY <1>1, <1>2, <2>1, DecisionOnText
  <1>3. CASE ~Decides(c)
    <2>1. c.what = "note"
      BY <1>3 DEF IsCall, Decides
    <2>2. PendingAfter(c)
            = ReplaceFirstSubSeq(TrimEnd(c.item.raw) \o <<<<"note", c.item.task>>>>,
                                 c.item.raw, c.pending)
      BY <1>3, <2>1 DEF PendingAfter
    <2>3. /\ IsSection(PendingAfter(c))
          /\ Headers(c.pending) \subseteq Headers(PendingAfter(c))
      BY <1>1, <2>2, NoteOnText
    <2> QED BY <1>3, <2>3
  <1> QED BY <1>2, <1>3

LEMMA FinishKeeps ==
  ASSUME ApprovalInv, NEW c \in calls, Finish(c)
  PROVE  ApprovalInv'
PROOF
  <1>1. IsCall(c)
    BY Zenon DEF ApprovalInv, QueueInv
  <1>2. IsSection(PendingAfter(c)) /\ pending' = PendingAfter(c)
    BY <1>1, WritesASection, Zenon DEF Finish
  <1>3. IsSection(pending)'
    BY <1>2, Zenon DEF IsSection
  <1>4. IsEntries(resolved)'
    <2>1. c.item.task \in Tasks /\ IsEntries(c.resolved)
      BY <1>1, Zenon DEF IsCall, IsItem
    <2>2. Decides(c) => c.what \in {"approved", "denied", "modified"}
      BY DEF Decides
    <2>3. resolved' = c.resolved \cup
                        (IF Decides(c) THEN {<<c.item.task, c.what>>} ELSE {})
      BY Zenon DEF Finish, ResolvedAfter
    <2> HIDE DEF Decides
    <2> QED BY <2>1, <2>2, <2>3 DEF IsEntries
  <1>5. calls' = calls \ {c} /\ UNCHANGED <<tag, held, made>>
    BY Zenon DEF Finish
  <1>6. (\A b \in calls : IsCall(b))'
    BY <1>5, Zenon DEF ApprovalInv, QueueInv
  <1>7. CallsCounted'
    <2>1. IsFiniteSet(calls) /\ made \in 0 .. MaxCalls /\ Cardinality(calls) <= made
      BY DEF ApprovalInv, CallsCounted
    <2>2. /\ IsFiniteSet(calls \ {c}) /\ Cardinality(calls) \in Nat
          /\ Cardinality(calls \ {c}) = Cardinality(calls) - 1
      BY <2>1, FS_RemoveElement, FS_CardinalityType
    <2> QED BY <1>5, <2>1, <2>2 DEF CallsCounted
  <1> QED
    BY <1>3, <1>4, <1>5, <1>6, <1>7, Zenon DEF ApprovalInv, QueueInv

LEMMA NextKeeps == ApprovalInv /\ [Next]_vars => ApprovalInv'
PROOF
  <1> SUFFICES ASSUME ApprovalInv, [Next]_vars
               PROVE  ApprovalInv'
    OBVIOUS
  <1>1. CASE \E t \in Tasks : Request(t)
    BY <1>1, RequestKeeps, Zenon
  <1>2. CASE \E t \in Tasks : Retag(t)
    BY <1>2, RetagKeeps, Zenon
  <1>3. CASE \E item \in Items(pending), d \in ByHand : MoveByHand(item, d)
    <2>1. PICK item \in Items(pending), d \in ByHand : MoveByHand(item, d)
      BY <1>3
    <2>2. d \in {"approved", "denied", "modified"}
      BY DecisionsByHand
    <2> QED
      BY <2>1, <2>2, MoveKeeps, Zenon
  <1>4. CASE \E item \in Items(pending) : Look(item)
    BY <1>4, LookKeeps, Zenon
  <1>5. CASE \E item \in held, what \in {"approved", "denied", "note"} :
               Begin(item, what)
    BY <1>5, BeginKeeps, Zenon
  <1>6. CASE \E c \in calls : Finish(c)
    BY <1>6, FinishKeeps, Zenon
  <1>7. CASE UNCHANGED vars
    <2>1. UNCHANGED <<pending, resolved, tag, held, calls, made>>
      BY <1>7, Zenon DEF vars
    <2> QED
      BY <2>1, Zenon DEF ApprovalInv, QueueInv, CallsCounted, IsSection, IsEntries
  <1> QED
    BY <1>1, <1>2, <1>3, <1>4, <1>5, <1>6, <1>7, Zenon DEF Next

(* notify.ts: whatever texts, stale items and pending writes there are, the *)
(* items in hands are blocks of one request and every file is a section.    *)
THEOREM QueueInvariance == Spec => []ApprovalInv
PROOF
  <1>1. Init => ApprovalInv
    BY InvAtFirst
  <1>2. ApprovalInv /\ [Next]_vars => ApprovalInv'
    BY NextKeeps
  <1> QED BY <1>1, <1>2, PTL DEF Spec

(* Type correctness of the file, the tags, the items and the calls: the     *)
(* Pending section is never left with blank lines only.                     *)
THEOREM ApprovalTypesHold == Spec => []TypeOK
PROOF
  <1> QED BY QueueInvariance, QueueTypes, PTL

-----------------------------------------------------------------------------
(* Part 3.  What writes keep.                                              *)

(* Only its write ends a call. *)
LEMMA WritesEndCalls ==
  ASSUME [Next]_vars, NEW c \in calls \ calls'
  PROVE  Finish(c)
PROOF
  <1>1. \A t : Request(t) \/ Retag(t) => calls' = calls
    BY Zenon DEF Request, Retag
  <1>2. \A item, d : MoveByHand(item, d) => calls' = calls
    BY Zenon DEF MoveByHand
  <1>3. \A item : Look(item) => calls' = calls
    BY Zenon DEF Look
  <1>4. \A item, what : Begin(item, what) => calls \subseteq calls'
    BY DEF Begin
  <1>5. \A b : Finish(b) => calls' = calls \ {b}
    BY Zenon DEF Finish
  <1>6. UNCHANGED vars => calls' = calls
    BY Zenon DEF vars
  <1> QED BY <1>1, <1>2, <1>3, <1>4, <1>5, <1>6, Zenon DEF Next

-----------------------------------------------------------------------------
(* notify.ts: a decision written while nobody else has written takes no     *)
(* other request out of the file, for any items, however old.               *)
THEOREM DecisionsSpareOthers == Spec => DecisionSparesOthers
PROOF
  <1>1. ApprovalInv /\ [Next]_vars => [SparesOthers]_vars
    <2> SUFFICES ASSUME ApprovalInv, [Next]_vars,
                        NEW c \in calls \ calls', Decides(c), c.pending = pending
                 PROVE  Headers(pending) \ {c.item.task} \subseteq Headers(pending)'
      BY Zenon DEF SparesOthers
    <2>1. Finish(c)
      BY WritesEndCalls
    <2>2. IsCall(c)
      BY Zenon DEF ApprovalInv, QueueInv
    <2>3. pending' = PendingAfter(c)
      BY <2>1, Zenon DEF Finish
    <2>4. Headers(c.pending) \ {c.item.task} \subseteq Headers(PendingAfter(c))
      BY <2>2, WritesASection, Zenon
    <2>5. Headers(pending)' = Headers(pending')
      BY DEF Headers
    <2> QED BY <2>3, <2>4, <2>5, Zenon
  <1> QED BY <1>1, QueueInvariance, PTL DEF Spec, DecisionSparesOthers

(* An agent's request only adds to the text. *)
LEMMA RequestRecords ==
  ASSUME ApprovalInv, NEW t \in Tasks, Request(t)
  PROVE  Headers(pending) \subseteq Headers(pending')
PROOF
  <1> DEFINE gap == IF pending = <<>> \/ Last(pending) = Blank THEN <<>>
                    ELSE <<Blank>>
             header == <<"header", t>>
  <1>1. pending \in Seq(Line) /\ header \in Line /\ Blank \in Line
    BY LineFacts DEF ApprovalInv, QueueInv, IsSection
  <1>2. gap \in Seq(Line)
    BY <1>1
  <1>3. pending' = (pending \o gap) \o <<header>>
    BY Zenon DEF Request
  <1> HIDE DEF gap, header
  <1>4. <<header>> \in Seq(Line)
    BY <1>1
  <1>5. pending \o gap \in Seq(Line) /\ Range(pending) \subseteq Range(pending \o gap)
    BY <1>1, <1>2, ConcatProperties, RangeConcatenation
  <1>6. Range(pending) \subseteq Range(pending')
    <2> DEFINE b == pending \o gap
    <2>1. b \in Seq(Line) /\ Range(pending) \subseteq Range(b) /\ pending' = b \o <<header>>
      BY <1>3, <1>5
    <2> HIDE DEF b
    <2>2. Range(b \o <<header>>) = Range(b) \cup Range(<<header>>)
      BY <1>4, <2>1, RangeConcatenation
    <2> QED BY <2>1, <2>2
  <1> QED BY <1>6 DEF Headers

(* A write records what its call has read, and no other step loses anything. *)
LEMMA FinishRecords ==
  ASSUME ApprovalInv, NEW c \in calls, Finish(c)
  PROVE  Recorded(c.pending, c.resolved) \subseteq Recorded(pending', resolved')
PROOF
  <1>1. IsCall(c)
    BY Zenon DEF ApprovalInv, QueueInv
  <1>2. /\ Headers(c.pending) \ {c.item.task} \subseteq Headers(PendingAfter(c))
        /\ ~Decides(c) => Headers(c.pending) \subseteq Headers(PendingAfter(c))
    BY <1>1, WritesASection, Zenon
  <1>3. pending' = PendingAfter(c) /\ resolved' = ResolvedAfter(c)
    BY Zenon DEF Finish
  <1>4. c.resolved \subseteq ResolvedAfter(c)
    BY Zenon DEF ResolvedAfter
  <1>5. CASE Decides(c)
    <2>1. <<c.item.task, c.what>> \in ResolvedAfter(c)
      BY <1>5, Zenon DEF ResolvedAfter
    <2>2. <<c.item.task, c.what>>[1] = c.item.task
      OBVIOUS
    <2>3. c.item.task \in {e[1] : e \in ResolvedAfter(c)}
      BY <2>1, <2>2
    <2> HIDE DEF Decides
    <2> QED BY <1>2, <1>3, <1>4, <2>3, Zenon DEF Recorded
  <1>6. CASE ~Decides(c)
    BY <1>2, <1>3, <1>4, <1>6, Zenon DEF Recorded
  <1> QED BY <1>5, <1>6

LEMMA MoveRecords ==
  ASSUME ApprovalInv, NEW item \in Items(pending), NEW d, MoveByHand(item, d)
  PROVE  Recorded(pending, resolved) \subseteq Recorded(pending', resolved')
PROOF
  <1>1. pending \in Seq(Line)
    BY Zenon DEF ApprovalInv, QueueInv, IsSection
  <1>2. IsItem(item)
    BY <1>1, ItemsAreItems
  <1>3. Headers(pending) \ {item.task} \subseteq Headers(pending')
    <2> DEFINE u == Settled(ReplaceFirstSubSeq(<<>>, item.raw, pending))
    <2>1. Headers(pending) \ {item.task} \subseteq Headers(u)
      BY <1>1, <1>2, DecisionOnText
    <2>2. pending' = u
      BY Zenon DEF MoveByHand
    <2> HIDE DEF u
    <2> QED BY <2>1, <2>2, Zenon
  <1>4. resolved' = resolved \cup {<<item.task, d>>}
    BY Zenon DEF MoveByHand
  <1>5. item.task \in {e[1] : e \in resolved'}
    <2>1. <<item.task, d>>[1] = item.task /\ <<item.task, d>> \in resolved'
      BY <1>4
    <2> QED BY <2>1, Zenon
  <1> QED BY <1>3, <1>4, <1>5, Zenon DEF Recorded

(* notify.ts: a write, however late and however old its item, loses no      *)
(* request its call has read, for files of any length and any number of     *)
(* calls under way.                                                         *)
THEOREM ReadRequestsAreAlwaysKept == Spec => ReadRequestsAreKept
PROOF
  <1>1. ApprovalInv /\ [Next]_vars => [LostUnread]_vars
    <2> SUFFICES ASSUME ApprovalInv, [Next]_vars PROVE LostUnread
      OBVIOUS
    <2> DEFINE Kept == Recorded(pending, resolved) \subseteq Recorded(pending', resolved')
    <2>1. (Recorded(pending, resolved))' = Recorded(pending', resolved')
      BY DEF Recorded, Headers
    <2>2. Kept => LostUnread
      BY <2>1 DEF LostUnread
    <2>3. ASSUME NEW t \in Tasks, Request(t) PROVE Kept
      BY <2>3, RequestRecords DEF Recorded, Request
    <2>4. ASSUME NEW t \in Tasks, Retag(t) PROVE Kept
      BY <2>4, Zenon DEF Retag
    <2>5. ASSUME NEW item \in Items(pending), NEW d, MoveByHand(item, d) PROVE Kept
      BY <2>5, MoveRecords
    <2>6. ASSUME NEW item, Look(item) PROVE Kept
      BY <2>6, Zenon DEF Look
    <2>7. ASSUME NEW item, NEW what, Begin(item, what) PROVE Kept
      BY <2>7, Zenon DEF Begin
    <2>8. ASSUME NEW c \in calls, Finish(c) PROVE LostUnread
      <3>1. Recorded(c.pending, c.resolved) \subseteq Recorded(pending', resolved')
        BY <2>8, FinishRecords
      <3>2. c \in calls \ calls'
        BY <2>8 DEF Finish
      <3> QED BY <2>1, <3>1, <3>2, Zenon DEF LostUnread
    <2>9. ASSUME UNCHANGED vars PROVE Kept
      BY <2>9, Zenon DEF vars
    <2> HIDE DEF Kept
    <2> QED
      BY <2>2, <2>3, <2>4, <2>5, <2>6, <2>7, <2>8, <2>9, Zenon DEF Next
  <1> QED BY <1>1, QueueInvariance, PTL DEF Spec, ReadRequestsAreKept

-----------------------------------------------------------------------------
(* Part 4.  What the verifier and the validator find.                      *)

(* As many words as places, at most. *)
LEMMA WordsAtPlaces ==
  ASSUME NEW word, NEW S, IsFiniteSet(S)
  PROVE  /\ IsFiniteSet({word[i] : i \in S})
         /\ Cardinality({word[i] : i \in S}) <= Cardinality(S)
PROOF
  <1> DEFINE T == {word[i] : i \in S}
             g == [i \in S |-> word[i]]
  <1>1. g \in Surjection(S, T)
    BY DEF Surjection
  <1> HIDE DEF g, T
  <1>2. IsFiniteSet(T) /\ Cardinality(T) <= Cardinality(S)
    BY <1>1, FS_Surjection
  <1> QED BY <1>2 DEF T

(* Every word that text and title share occurs in the text.                 *)
LEMMA SharedWordsOccur ==
  ASSUME NEW t \in Tasks, NEW u \in Tasks
  PROVE  LET shared == Range(Words[Text[t]]) \cap Range(Words[Title[u]]) IN
         /\ Cardinality(shared) \in Nat /\ Cardinality(Occurring(t, u)) \in Nat
         /\ Cardinality(shared) <= Cardinality(Occurring(t, u))
         /\ IsFiniteSet(Range(Words[Text[t]])) /\ IsFiniteSet(Range(Words[Title[u]]))
PROOF
  <1> DEFINE word == Words[Text[t]]
             title == Range(Words[Title[u]])
             shared == Range(word) \cap title
             I == Occurring(t, u)
             image == {word[i] : i \in I}
  <1>1. /\ word \in Seq(Range(word)) /\ Words[Title[u]] \in Seq(title)
        /\ \A w \in title : <<w, Title[u]>> \in Substring
    BY WordsAreInTheText, Zenon DEF Texts
  <1>2. IsFiniteSet(Range(word)) /\ IsFiniteSet(title)
    <2>1. ASSUME NEW v, v \in Seq(Range(v)) PROVE IsFiniteSet(Range(v))
      <3>1. Range(v) = {v[i] : i \in 1 .. Len(v)}
        BY <2>1 DEF Range
      <3>2. IsFiniteSet(1 .. Len(v))
        BY <2>1, FS_Interval
      <3> QED BY <3>1, <3>2, WordsAtPlaces
    <2> QED BY <1>1, <2>1
  <1>3. IsFiniteSet(I)
    <2>1. I \in SUBSET (1 .. Len(word))
      BY <1>1 DEF Occurring
    <2>2. IsFiniteSet(1 .. Len(word))
      BY <1>1, FS_Interval
    <2> HIDE DEF I
    <2> QED BY <2>1, <2>2, FS_Subset
  <1>4. IsFiniteSet(image) /\ Cardinality(image) <= Cardinality(I)
    BY <1>3, WordsAtPlaces
  <1>5. shared \in SUBSET image
    <2>1. I = {i \in DOMAIN word : <<word[i], Title[u]>> \in Substring}
      BY Zenon DEF Occurring
    <2> HIDE DEF I, word
    <2> QED BY <1>1, <2>1 DEF Range
  <1>6. Cardinality(shared) <= Cardinality(image)
    BY <1>4, <1>5, FS_Subset
  <1>7. IsFiniteSet(shared)
    BY <1>4, <1>5, FS_Subset
  <1>8. /\ Cardinality(shared) \in Nat /\ Cardinality(image) \in Nat
        /\ Cardinality(I) \in Nat
    BY <1>3, <1>4, <1>7, FS_CardinalityType
  <1> QED BY <1>2, <1>4, <1>6, <1>8

(* Half of three words are two. *)
LEMMA ValidatorsMatchIsTheVerifiers ==
  ASSUME NEW t \in Tasks, NEW u \in Tasks, TaskMatches(t, u), ThreeWords(t, u)
  PROVE  Cardinality(Occurring(t, u)) >= 2 \/ OneInTheOther(t, u)
PROOF
  <1> DEFINE task == Range(Words[Text[t]])
             title == Range(Words[Title[u]])
             shared == Cardinality(task \cap title)
             occurring == Cardinality(Occurring(t, u))
             a == Cardinality(task)
             b == Cardinality(title)
  <1>1. shared \in Nat /\ occurring \in Nat /\ shared <= occurring
        /\ a \in Nat /\ b \in Nat
    BY SharedWordsOccur, FS_CardinalityType
  <1>2. a >= 3 /\ b >= 3
    BY DEF ThreeWords
  <1>3. OneInTheOther(t, u) \/ 2 * shared >= a \/ 2 * shared >= b
    BY DEF TaskMatches
  <1> HIDE DEF shared, occurring, a, b
  <1>4. OneInTheOther(t, u) \/ occurring >= 2
    BY <1>1, <1>2, <1>3
  <1> QED BY <1>4 DEF occurring

(* verify.ts and validate.py: for any texts, titles and decisions, a tag    *)
(* the validator finds stale by whole words is one the verifier warns of,   *)
(* whatever calls have put back into the file.                              *)
THEOREM StaleTagsAreReportedTwice == Spec => []StaleTagIsReportedTwice
PROOF
  <1>1. StaleTagIsReportedTwice
    <2> SUFFICES ASSUME NEW t \in Waiting, NEW d \in {"approved", "denied"}, NEW u \in Tasks,
                        u \in Decided(d), TaskMatches(t, u), ThreeWords(t, u)
                 PROVE  ValidatorFlags(t) /\ VerifyTag(t) \in {"approved", "denied"}
      BY DEF StaleTagIsReportedTwice
    <2>1. t \in Tasks
      BY DEF Waiting
    <2>2. Matches(t, Decided(d))
      BY <2>1, ValidatorsMatchIsTheVerifiers, Zenon DEF Matches
    <2>3. VerifyTag(t) \in {"approved", "denied"}
      BY <2>2 DEF VerifyTag
    <2>4. u \in ResolvedTitles
      BY DEF Decided, ResolvedTitles
    <2> QED BY <2>3, <2>4, Zenon DEF ValidatorFlags
  <1> QED BY <1>1, PTL
=============================================================================
