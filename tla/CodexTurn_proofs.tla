-------------------------- MODULE CodexTurn_proofs --------------------------
(***************************************************************************)
(* Proofs about a conversation of the Codex bridge: its types, that the    *)
(* bridge refuses its own input only after a loss, that nothing is         *)
(* committed twice and that a summary replaces what it should, for any     *)
(* number of items and any limits.                                         *)
(*                                                                         *)
(* The bridge never compares its history with the transcript that Claude   *)
(* resends: it takes what follows Claude's last word and the results that  *)
(* committed calls want.  That is right as long as the two fit together    *)
(* (Fitting): what Claude said last is not in the history, and a call of   *)
(* the history has its result there or with Claude.  The first half of     *)
(* the module shows what such a turn sends and commits (Inputs, Taken,     *)
(* Committed); the second, that every step keeps the fit, unless a reply,  *)
(* a hook or a compaction was lost (TurnInv).  Ids are handed out in       *)
(* order, so what is new is told from what is old by its id (Old, Young).  *)
(***************************************************************************)
EXTENDS CodexTurn, SequenceTheorems, WellFoundedInduction, TLAPS

-----------------------------------------------------------------------------
(* Transcripts: sequences of items *)

\* Items that keep their identity: the others stand for any number of messages.
Traced(x) == x.kind \notin {"note", "opaque"}

\* No traced item stands at two places of s.
Once(s) == \A i, j \in DOMAIN s : s[i] = s[j] /\ Traced(s[i]) => i = j

\* What s says after its last assistant item.
Unsaid(s) == {s[i] : i \in {k \in DOMAIN s : \A j \in DOMAIN s : j >= k => ~FromAssistant(s[j])}}

\* An item of a transcript stands somewhere in it, and is an item.
LEMMA Member ==
  ASSUME NEW s \in Seq(Items)
  PROVE  /\ Len(s) \in Nat /\ DOMAIN s = 1..Len(s)
         /\ \A i \in DOMAIN s : s[i] \in Items /\ s[i] \in ToSet(s)
         /\ ToSet(s) \subseteq Items
         /\ \A x \in ToSet(s) : \E i \in DOMAIN s : s[i] = x
<1>1. Len(s) \in Nat /\ DOMAIN s = 1..Len(s)
  BY LenProperties
<1>2. \A i \in DOMAIN s : s[i] \in Items
  BY <1>1, ElementOfSeq
<1> QED
  BY <1>1, <1>2 DEF ToSet

\* A function on 1..n is a transcript when its values are items.
LEMMA Transcript ==
  ASSUME NEW n \in Nat, NEW f, f = [i \in 1..n |-> f[i]], \A i \in 1..n : f[i] \in Items
  PROVE  f \in Seq(Items) /\ Len(f) = n /\ DOMAIN f = 1..n
<1>1. f \in [1..n -> Items]
  OBVIOUS
<1>2. f \in Seq(Items)
  BY <1>1, SeqDef
<1> QED
  BY <1>2, <1>1, LenProperties

\* Two transcripts, one after the other.
LEMMA Joined ==
  ASSUME NEW s \in Seq(Items), NEW t \in Seq(Items)
  PROVE  /\ s \o t \in Seq(Items) /\ Len(s \o t) = Len(s) + Len(t)
         /\ DOMAIN (s \o t) = 1..(Len(s) + Len(t))
         /\ \A i \in DOMAIN s : i \in DOMAIN (s \o t) /\ (s \o t)[i] = s[i]
         /\ \A i \in DOMAIN t : Len(s) + i \in DOMAIN (s \o t) /\ (s \o t)[Len(s) + i] = t[i]
         /\ \A i \in DOMAIN (s \o t) :
               \/ i \in DOMAIN s /\ (s \o t)[i] = s[i]
               \/ i - Len(s) \in DOMAIN t /\ (s \o t)[i] = t[i - Len(s)]
         /\ ToSet(s \o t) = ToSet(s) \cup ToSet(t)
<1>1. /\ s \o t \in Seq(Items) /\ Len(s \o t) = Len(s) + Len(t)
      /\ \A i \in 1..(Len(s) + Len(t)) : (s \o t)[i] = IF i <= Len(s) THEN s[i] ELSE t[i - Len(s)]
  BY ConcatProperties
<1>2. DOMAIN (s \o t) = 1..(Len(s) + Len(t)) /\ Len(s) \in Nat /\ Len(t) \in Nat
      /\ DOMAIN s = 1..Len(s) /\ DOMAIN t = 1..Len(t)
  BY <1>1, Member
<1>3. \A i \in DOMAIN s : i \in DOMAIN (s \o t) /\ (s \o t)[i] = s[i]
  BY <1>1, <1>2
<1>4. ASSUME NEW i \in DOMAIN t
      PROVE  Len(s) + i \in DOMAIN (s \o t) /\ (s \o t)[Len(s) + i] = t[i]
  <2>1. i \in Nat /\ i >= 1 /\ i <= Len(t)
    BY <1>2
  <2>2. Len(s) + i \in 1..(Len(s) + Len(t)) /\ ~(Len(s) + i <= Len(s)) /\ Len(s) + i - Len(s) = i
    BY <1>2, <2>1
  <2> QED
    BY <1>1, <1>2, <2>2
<1>5. ASSUME NEW i \in DOMAIN (s \o t)
      PROVE  \/ i \in DOMAIN s /\ (s \o t)[i] = s[i]
             \/ i - Len(s) \in DOMAIN t /\ (s \o t)[i] = t[i - Len(s)]
  BY <1>1, <1>2
<1>6. ToSet(s \o t) \subseteq ToSet(s) \cup ToSet(t)
  BY <1>5 DEF ToSet
<1>7. ToSet(s) \subseteq ToSet(s \o t)
  BY <1>3 DEF ToSet
<1>8. ToSet(t) \subseteq ToSet(s \o t)
  BY <1>4 DEF ToSet
<1> QED
  BY <1>1, <1>2, <1>3, <1>4, <1>5, <1>6, <1>7, <1>8

\* An item at the end.
LEMMA Appended ==
  ASSUME NEW s \in Seq(Items), NEW x \in Items
  PROVE  /\ <<x>> \in Seq(Items) /\ Len(<<x>>) = 1 /\ DOMAIN <<x>> = {1} /\ ToSet(<<x>>) = {x}
         /\ Append(s, x) = s \o <<x>>
         /\ Append(s, x) \in Seq(Items) /\ ToSet(Append(s, x)) = ToSet(s) \cup {x}
         /\ Append(s, x) # <<>> /\ Last(Append(s, x)) = x
<1>1. <<x>> \in Seq(Items) /\ Len(<<x>>) = 1 /\ DOMAIN <<x>> = {1} /\ <<x>>[1] = x
  OBVIOUS
<1>2. Append(s, x) = s \o <<x>>
  BY AppendIsConcat
<1>3. Append(s, x) # <<>> /\ Last(Append(s, x)) = x
  BY AppendProperties DEF Last
<1>4. ToSet(<<x>>) = {x}
  BY <1>1 DEF ToSet
<1>5. s \o <<x>> \in Seq(Items) /\ ToSet(s \o <<x>>) = ToSet(s) \cup ToSet(<<x>>)
  BY <1>1, Joined
<1> QED
  BY <1>1, <1>2, <1>3, <1>4, <1>5

\* The last item stands in the transcript.
LEMMA LastItem ==
  ASSUME NEW s \in Seq(Items), s # <<>>
  PROVE  Len(s) \in DOMAIN s /\ Last(s) = s[Len(s)] /\ Last(s) \in ToSet(s) /\ Last(s) \in Items
<1>1. Len(s) \in Nat \ {0}
  BY EmptySeq
<1>2. Len(s) \in DOMAIN s
  BY <1>1, Member
<1> QED
  BY <1>2, Member DEF Last

\* Transcripts without a traced item in common, one after the other.
LEMMA OnceJoined ==
  ASSUME NEW s \in Seq(Items), NEW t \in Seq(Items), Once(s), Once(t),
         \A x \in ToSet(s) \cap ToSet(t) : ~Traced(x)
  PROVE  Once(s \o t)
<1>1. SUFFICES ASSUME NEW i \in DOMAIN (s \o t), NEW j \in DOMAIN (s \o t),
                      (s \o t)[i] = (s \o t)[j], Traced((s \o t)[i])
               PROVE  i = j
  BY DEF Once
<1>2. i \in Nat /\ j \in Nat /\ Len(s) \in Nat
  BY Joined, Member
<1>3. CASE i \in DOMAIN s /\ (s \o t)[i] = s[i]
  <2>1. ~(j - Len(s) \in DOMAIN t /\ (s \o t)[j] = t[j - Len(s)])
    BY <1>1, <1>3 DEF ToSet
  <2>2. j \in DOMAIN s /\ (s \o t)[j] = s[j]
    BY <2>1, Joined
  <2> QED
    BY <1>1, <1>3, <2>2 DEF Once
<1>4. CASE i - Len(s) \in DOMAIN t /\ (s \o t)[i] = t[i - Len(s)]
  <2>1. ~(j \in DOMAIN s /\ (s \o t)[j] = s[j])
    BY <1>1, <1>4 DEF ToSet
  <2>2. j - Len(s) \in DOMAIN t /\ (s \o t)[j] = t[j - Len(s)]
    BY <2>1, Joined
  <2>3. i - Len(s) = j - Len(s)
    BY <1>1, <1>4, <2>2 DEF Once
  <2> QED
    BY <1>2, <2>3
<1> QED
  BY <1>3, <1>4, Joined

\* What follows the last assistant item of s and t: nothing of s if t has one.
LEMMA UnsaidJoined ==
  ASSUME NEW s \in Seq(Items), NEW t \in Seq(Items)
  PROVE  /\ Unsaid(s \o t) \subseteq Unsaid(s) \cup Unsaid(t)
         /\ (\E x \in ToSet(t) : FromAssistant(x)) => Unsaid(s \o t) \subseteq Unsaid(t)
<1>1. ASSUME NEW k \in DOMAIN (s \o t),
             \A j \in DOMAIN (s \o t) : j >= k => ~FromAssistant((s \o t)[j])
      PROVE  \/ (s \o t)[k] \in Unsaid(t)
             \/ /\ (s \o t)[k] \in Unsaid(s)
                /\ \A x \in ToSet(t) : ~FromAssistant(x)
  <2>0. Len(s) \in Nat /\ DOMAIN s = 1..Len(s) /\ DOMAIN t = 1..Len(t) /\ Len(t) \in Nat /\ k \in Nat
    BY Joined, Member
  <2>1. CASE k \in DOMAIN s /\ (s \o t)[k] = s[k]
    <3>1. ASSUME NEW j \in DOMAIN s, j >= k PROVE ~FromAssistant(s[j])
      <4>1. j \in DOMAIN (s \o t) /\ (s \o t)[j] = s[j]
        BY Joined
      <4> QED
        BY <1>1, <3>1, <4>1
    <3>2. ASSUME NEW j \in DOMAIN t PROVE ~FromAssistant(t[j])
      <4>1. Len(s) + j \in DOMAIN (s \o t) /\ (s \o t)[Len(s) + j] = t[j] /\ Len(s) + j >= k
        BY <2>0, <2>1, Joined
      <4> QED
        BY <1>1, <4>1
    <3>3. s[k] \in Unsaid(s)
      BY <2>1, <3>1 DEF Unsaid
    <3>4. \A x \in ToSet(t) : ~FromAssistant(x)
      BY <3>2 DEF ToSet
    <3> QED
      BY <2>1, <3>3, <3>4
  <2>2. CASE k - Len(s) \in DOMAIN t /\ (s \o t)[k] = t[k - Len(s)]
    <3>1. ASSUME NEW j \in DOMAIN t, j >= k - Len(s) PROVE ~FromAssistant(t[j])
      <4>1. Len(s) + j \in DOMAIN (s \o t) /\ (s \o t)[Len(s) + j] = t[j] /\ Len(s) + j >= k
        BY <2>0, <3>1, Joined
      <4> QED
        BY <1>1, <4>1
    <3>2. t[k - Len(s)] \in Unsaid(t)
      BY <2>2, <3>1 DEF Unsaid
    <3> QED
      BY <2>2, <3>2
  <2> QED
    BY <2>1, <2>2, Joined
<1> QED
  BY <1>1 DEF Unsaid

\* What a transcript says at its end is in it, and does not come from the
\* assistant.
LEMMA UnsaidItems ==
  ASSUME NEW s \in Seq(Items)
  PROVE  /\ Unsaid(s) \subseteq ToSet(s)
         /\ \A x \in Unsaid(s) : ~FromAssistant(x)
<1>1. ASSUME NEW k \in DOMAIN s, \A j \in DOMAIN s : j >= k => ~FromAssistant(s[j])
      PROVE  s[k] \in ToSet(s) /\ ~FromAssistant(s[k])
  <2>1. k \in Nat
    BY Member
  <2> QED
    BY <1>1, <2>1, Member
<1> QED
  BY <1>1 DEF Unsaid

-----------------------------------------------------------------------------
(* Numbers, and walks along them *)

\* A set of numbers that has a member has a least one.
LEMMA LeastNat ==
  ASSUME NEW S \in SUBSET Nat, S # {}
  PROVE  \E m \in S : \A k \in S : m <= k
<1> DEFINE less == {ss \in Nat \X Nat : ss[1] < ss[2]}
<1>1. IsWellFoundedOn(less, Nat)
  BY NatLessThanWellFounded DEF OpToRel
<1> HIDE DEF less
<1>2. PICK m \in S : \A k \in S : <<k, m>> \notin less
  BY <1>1, WFMin
<1>3. ASSUME NEW k \in S PROVE m <= k
  <2>1. k \in Nat /\ m \in Nat /\ <<k, m>> \notin less
    BY <1>2
  <2>2. <<k, m>> \in Nat \X Nat
    BY <2>1
  <2>3. ~(k < m)
    BY <2>1, <2>2 DEF less
  <2> QED
    BY <2>1, <2>3
<1> QED
  BY <1>3

\* A set of numbers that has a member and a bound has a greatest one, its Max.
LEMMA GreatestNat ==
  ASSUME NEW n \in Nat, NEW S \in SUBSET (1..n), S # {}
  PROVE  Max(S) \in S /\ \A k \in S : k <= Max(S)
<1> DEFINE T == {n - k : k \in S}
<1>1. T \in SUBSET Nat /\ T # {}
  <2>1. \A k \in S : k \in 1..n /\ n - k \in Nat
    OBVIOUS
  <2> QED
    BY <2>1
<1>2. PICK m \in T : \A k \in T : m <= k
  <2> HIDE DEF T
  <2> QED BY <1>1, LeastNat
<1>3. PICK x \in S : m = n - x
  OBVIOUS
<1>4. \A k \in S : n - x <= n - k
  BY <1>2, <1>3
<1>5. \A k \in S : x >= k
  <2>1. \A k \in S : k \in Int /\ x \in Int
    OBVIOUS
  <2> QED
    BY <1>4, <2>1
<1>6. Max(S) \in S /\ \A k \in S : Max(S) >= k
  BY <1>3, <1>5 DEF Max
<1>7. \A k \in S : k \in Int
  OBVIOUS
<1> QED
  BY <1>6, <1>7

\* What holds of 0 and passes from each number to the next holds up to N.
LEMMA Inducts ==
  ASSUME NEW N \in Nat, NEW S \in SUBSET (0..N), 0 \in S,
         \A n \in 1..N : n - 1 \in S => n \in S
  PROVE  \A n \in 0..N : n \in S
<1> DEFINE bad == (0..N) \ S
<1>1. SUFFICES ASSUME bad # {} PROVE FALSE
  OBVIOUS
<1>2. bad \in SUBSET Nat
  OBVIOUS
<1>3. PICK m \in bad : \A k \in bad : m <= k
  <2> HIDE DEF bad
  <2> QED
    BY <1>1, <1>2, LeastNat
<1>4. m \in 1..N /\ m - 1 \in 0..N
  OBVIOUS
<1>5. m - 1 \notin bad
  BY <1>3, <1>4
<1> QED
  BY <1>3, <1>4, <1>5

\* f starts at A and takes at each number up to N the step of G.
Walk(f, U, A, G, N) ==
  /\ f \in [0..N -> U]
  /\ f[0] = A
  /\ \A n \in 1..N : f[n] = G[n][f[n - 1]]

\* A walk exists: it has no least length that cannot be reached.
LEMMA Walks ==
  ASSUME NEW U, NEW A \in U, NEW N \in Nat, NEW G \in [1..N -> [U -> U]]
  PROVE  \E f : Walk(f, U, A, G, N)
<1> DEFINE good == {k \in 0..N : \E f : Walk(f, U, A, G, k)}
<1>1. 0 \in good
  <2> DEFINE one == [n \in 0..0 |-> A]
  <2>1. one \in [0..0 -> U] /\ one[0] = A /\ 1..0 = {}
    OBVIOUS
  <2> HIDE DEF one
  <2>2. Walk(one, U, A, G, 0)
    BY <2>1 DEF Walk
  <2> QED
    BY <2>2
<1>2. ASSUME NEW m \in 1..N, m - 1 \in good PROVE m \in good
  <2>1. PICK f : Walk(f, U, A, G, m - 1)
    BY <1>2
  <2>2. f \in [0..(m-1) -> U] /\ m - 1 \in 0..(m-1) /\ f[m-1] \in U
    BY <2>1 DEF Walk
  <2>3. G[m][f[m-1]] \in U
    BY <2>2
  <2> DEFINE h == [n \in 0..m |-> IF n = m THEN G[m][f[m-1]] ELSE f[n]]
  <2>4. \A n \in 0..m : n # m => n \in 0..(m-1)
    OBVIOUS
  <2>5. h \in [0..m -> U]
    BY <2>2, <2>3, <2>4
  <2>6. h[0] = A /\ h[m] = G[m][h[m-1]]
    BY <2>1, <2>2 DEF Walk
  <2>7. ASSUME NEW n \in 1..m PROVE h[n] = G[n][h[n-1]]
    <3>1. CASE n = m
      BY <2>6, <3>1
    <3>2. CASE n # m
      <4>1. n \in 1..(m-1) /\ h[n] = f[n] /\ h[n-1] = f[n-1]
        BY <3>2
      <4> QED
        BY <2>1, <4>1 DEF Walk
    <3> QED
      BY <3>1, <3>2
  <2> HIDE DEF h
  <2>8. Walk(h, U, A, G, m)
    BY <2>5, <2>6, <2>7 DEF Walk
  <2> QED
    BY <2>8
<1> HIDE DEF good
<1>3. \A n \in 0..N : n \in good
  <2>1. good \in SUBSET (0..N)
    BY DEF good
  <2> QED
    BY <1>1, <1>2, <2>1, Inducts
<1>4. N \in good
  BY <1>3
<1> QED
  BY <1>4 DEF good

-----------------------------------------------------------------------------
(* Assembling the input of a turn *)

\* The results picked for the calls C are those of the transcript.
LEMMA PickedItems ==
  ASSUME NEW s \in Seq(Items), NEW C
  PROVE  /\ Picked(s, C) \in Seq(Items)
         /\ ToSet(Picked(s, C)) = {x \in ToSet(s) : x.kind = "output" /\ x.id \in C}
         /\ Once(s) => Once(Picked(s, C))
<1> DEFINE Takes(n) == s[n].kind = "output" /\ s[n].id \in C
           N == Len(s)
           Is(h) == h = [n \in 0..N |-> IF n = 0 THEN <<>>
                                        ELSE IF s[n].kind = "output" /\ s[n].id \in C
                                             THEN Append(h[n - 1], s[n])
                                        ELSE h[n - 1]]
           f == CHOOSE h : Is(h)
           G == [n \in 1..N |-> [p \in Seq(Items) |->
                   IF Takes(n) THEN Append(p, s[n]) ELSE p]]
<1>1. N \in Nat /\ DOMAIN s = 1..N /\ \A n \in 1..N : s[n] \in Items
  BY Member
<1>2. Picked(s, C) = f[N]
  BY DEF Picked
<1>3. G \in [1..N -> [Seq(Items) -> Seq(Items)]]
  <2>1. \A n \in 1..N, p \in Seq(Items) : Append(p, s[n]) \in Seq(Items)
    BY <1>1, AppendProperties
  <2> QED
    BY <2>1
<1>4. \A n \in 1..N, p \in Seq(Items) : G[n][p] = IF Takes(n) THEN Append(p, s[n]) ELSE p
  OBVIOUS
<1>5. <<>> \in Seq(Items)
  BY EmptySeq
<1> HIDE DEF N, G, f, Takes
<1>6. PICK g : Walk(g, Seq(Items), <<>>, G, N)
  BY <1>1, <1>3, <1>5, Walks
<1>7. Is(g)
  <2>1. \A n \in 0..N : n # 0 => n \in 1..N /\ n - 1 \in 0..N
    BY <1>1
  <2>2. \A n \in 0..N : g[n] = IF n = 0 THEN <<>> ELSE IF Takes(n) THEN Append(g[n - 1], s[n]) ELSE g[n - 1]
    <3>1. g[0] = <<>> /\ \A n \in 1..N : g[n - 1] \in Seq(Items) /\ g[n] = G[n][g[n - 1]]
      BY <1>6, <2>1 DEF Walk
    <3>2. \A n \in 1..N : g[n] = IF Takes(n) THEN Append(g[n - 1], s[n]) ELSE g[n - 1]
      BY <1>4, <3>1
    <3> QED
      BY <2>1, <3>1, <3>2
  <2> QED
    BY <1>6, <2>2 DEF Walk, Takes
<1>8. Is(f)
  BY <1>7 DEF f
<1>9. f[0] = <<>> /\ \A n \in 1..N : f[n] = IF Takes(n) THEN Append(f[n - 1], s[n]) ELSE f[n - 1]
  <2>1. 0 \in 0..N /\ \A n \in 1..N : n \in 0..N /\ n # 0
    BY <1>1
  <2> QED
    BY <1>8, <2>1 DEF Takes
<1> HIDE DEF Is
<1> DEFINE Right(n) == /\ f[n] \in Seq(Items)
                       /\ ToSet(f[n]) = {s[i] : i \in {j \in 1..n : Takes(j)}}
                       /\ Once(s) => Once(f[n])
           right == {n \in 0..N : Right(n)}
<1>10. 0 \in right
  <2>1. ToSet(<<>>) = {} /\ Once(<<>>)
    BY DEF ToSet, Once
  <2>2. {s[i] : i \in {j \in 1..0 : Takes(j)}} = {}
    OBVIOUS
  <2>3. Right(0)
    BY <1>5, <1>9, <2>1, <2>2
  <2> QED
    BY <1>1, <2>3
<1>11. ASSUME NEW n \in 1..N, n - 1 \in right PROVE n \in right
  <2>1. Right(n - 1)
    BY <1>11
  <2> SUFFICES Right(n)
    BY <1>1
  <2>2. CASE ~Takes(n)
    <3>1. f[n] = f[n - 1]
      BY <1>9, <2>2
    <3>2. {j \in 1..n : Takes(j)} = {j \in 1..(n-1) : Takes(j)}
      BY <2>2
    <3> QED
      BY <2>1, <3>1, <3>2
  <2>3. CASE Takes(n)
    <3>1. f[n] = Append(f[n - 1], s[n]) /\ s[n] \in Items /\ f[n - 1] \in Seq(Items)
      BY <1>1, <1>9, <2>1, <2>3
    <3>2. /\ f[n] \in Seq(Items) /\ ToSet(f[n]) = ToSet(f[n - 1]) \cup {s[n]}
          /\ f[n] = f[n - 1] \o <<s[n]>> /\ <<s[n]>> \in Seq(Items)
      <4>1. ASSUME NEW u \in Seq(Items), NEW x \in Items, NEW v, v = Append(u, x)
            PROVE  /\ v \in Seq(Items) /\ ToSet(v) = ToSet(u) \cup {x}
                   /\ v = u \o <<x>> /\ <<x>> \in Seq(Items)
        BY <4>1, Appended
      <4> QED
        BY <3>1, <4>1
    <3>3. {j \in 1..n : Takes(j)} = {j \in 1..(n-1) : Takes(j)} \cup {n}
      BY <2>3
    <3>4. ToSet(f[n]) = {s[i] : i \in {j \in 1..n : Takes(j)}}
      BY <2>1, <3>2, <3>3
    <3>5. ASSUME Once(s) PROVE Once(f[n])
      <4>1. \A j \in 1..(n-1) : j \in DOMAIN s /\ n \in DOMAIN s /\ j # n
        BY <1>1
      <4>2. s[n] \in ToSet(f[n - 1]) => ~Traced(s[n])
        BY <2>1, <3>5, <4>1 DEF Once
      <4>3. Once(<<s[n]>>)
        BY <1>1, Appended DEF Once
      <4>4. \A x \in ToSet(f[n - 1]) \cap ToSet(<<s[n]>>) : ~Traced(x)
        BY <1>1, <4>2, <1>5, Appended
      <4> QED
        BY <2>1, <3>1, <3>2, <3>5, <4>3, <4>4, OnceJoined
    <3> QED
      BY <3>2, <3>4, <3>5
  <2> QED
    BY <2>2, <2>3
<1>12. Right(N)
  <2> HIDE DEF Right
  <2>1. right \in SUBSET (0..N)
    OBVIOUS
  <2> HIDE DEF right
  <2>2. N \in right
    BY <1>1, <1>10, <1>11, <2>1, Inducts
  <2> QED
    BY <2>2 DEF right
<1>13. {s[i] : i \in {j \in 1..N : Takes(j)}} = {x \in ToSet(s) : x.kind = "output" /\ x.id \in C}
  BY <1>1 DEF ToSet, Takes
<1> QED
  BY <1>2, <1>12, <1>13

\* An item is its kind and its id.
LEMMA ItemIs ==
  /\ \A x \in Items : x = Item(x.kind, x.id) /\ x.kind \in Kinds /\ x.id \in 0..MaxId
  /\ \A k, n : Item(k, n).kind = k /\ Item(k, n).id = n
  /\ \A k \in Kinds, n \in 0..MaxId : Item(k, n) \in Items
  BY DEF Items, Item

\* The ids of a kind are those of items of the transcript.
LEMMA IdsItems ==
  ASSUME NEW s \in Seq(Items), NEW k
  PROVE  /\ \A x \in ToSet(s) : x.kind = k => x.id \in Ids(s, k)
         /\ \A n \in Ids(s, k) : /\ Item(k, n) \in ToSet(s)
                                 /\ \E i \in DOMAIN s : s[i] = Item(k, n)
<1>1. \A n : n \in Ids(s, k) <=> \E i \in DOMAIN s : s[i].kind = k /\ s[i].id = n
  BY DEF Ids
<1>2. \A i \in DOMAIN s : s[i].kind = k => s[i] = Item(k, s[i].id)
  BY Member, ItemIs
<1> QED
  BY <1>1, <1>2 DEF ToSet

\* What a turn adds is what follows the last assistant item, as long as
\* something does.
LEMMA PendingItems ==
  ASSUME NEW s \in Seq(Items), s # <<>>
  PROVE  /\ Pending(s) \in Seq(Items) /\ ToSet(Pending(s)) \subseteq ToSet(s)
         /\ Once(s) => Once(Pending(s))
         /\ ~FromAssistant(Last(s)) => ToSet(Pending(s)) \subseteq Unsaid(s)
<1> DEFINE said == {i \in DOMAIN s : FromAssistant(s[i])}
<1>1. Len(s) \in Nat /\ DOMAIN s = 1..Len(s) /\ Len(s) \in DOMAIN s
  BY Member, LastItem
<1>2. CASE said = {} \/ Len(s) \in said
  <2>1. Pending(s) = <<Last(s)>>
    BY <1>2 DEF Pending
  <2>2. /\ Pending(s) \in Seq(Items) /\ ToSet(Pending(s)) = {Last(s)}
        /\ DOMAIN Pending(s) = {1}
    BY <2>1, LastItem, Appended
  <2>3. Once(Pending(s))
    BY <2>2 DEF Once
  <2>4. ASSUME ~FromAssistant(Last(s)) PROVE Last(s) \in Unsaid(s)
    <3>1. said = {}
      BY <1>2, <2>4, LastItem
    <3> QED
      BY <1>1, <3>1, LastItem DEF Unsaid
  <2> QED
    BY <2>2, <2>3, <2>4, LastItem
<1>3. CASE ~(said = {} \/ Len(s) \in said)
  <2> DEFINE m == Max(said)
  <2>1. Pending(s) = SubSeq(s, m + 1, Len(s))
    BY <1>3 DEF Pending
  <2>2. m \in said /\ \A k \in said : k <= m
    BY <1>1, <1>3, GreatestNat
  <2>3. m \in Nat /\ m >= 1 /\ m + 1 <= Len(s) /\ m + 1 \in Int /\ Len(s) \in Int
    BY <1>1, <1>3, <2>2
  <2> HIDE DEF m
  <2>4. \A i \in (m + 1)..Len(s) : i \in DOMAIN s /\ s[i] \in Items
    BY <1>1, <2>3, Member
  <2>5. /\ Pending(s) \in Seq(Items) /\ Len(Pending(s)) = Len(s) - m
        /\ \A i \in 1..(Len(s) - m) : Pending(s)[i] = s[m + i]
    <3>1. /\ SubSeq(s, m + 1, Len(s)) \in Seq(Items)
          /\ Len(SubSeq(s, m + 1, Len(s))) = IF m + 1 <= Len(s) THEN Len(s) - (m + 1) + 1 ELSE 0
          /\ \A i \in 1..(Len(s) - (m + 1) + 1) : SubSeq(s, m + 1, Len(s))[i] = s[(m + 1) + i - 1]
      BY <2>3, <2>4, SubSeqProperties
    <3>2. Len(s) - (m + 1) + 1 = Len(s) - m
      BY <2>3
    <3>3. \A i \in 1..(Len(s) - m) : (m + 1) + i - 1 = m + i
      BY <2>3
    <3> QED
      BY <2>1, <2>3, <3>1, <3>2, <3>3
  <2>6. /\ DOMAIN Pending(s) = 1..(Len(s) - m)
        /\ \A i \in DOMAIN Pending(s) : m + i \in DOMAIN s /\ m + i > m /\ Pending(s)[i] = s[m + i]
    BY <1>1, <2>3, <2>5, Member
  <2>7. ToSet(Pending(s)) \subseteq ToSet(s)
    BY <2>6 DEF ToSet
  <2>8. ASSUME Once(s) PROVE Once(Pending(s))
    <3>1. \A i, j \in DOMAIN Pending(s) : m + i = m + j => i = j
      BY <2>3, <2>6
    <3> QED
      BY <2>6, <2>8, <3>1 DEF Once
  <2>9. ASSUME NEW i \in DOMAIN Pending(s) PROVE s[m + i] \in Unsaid(s)
    <3>1. \A j \in DOMAIN s : j >= m + i => ~FromAssistant(s[j])
      BY <1>1, <2>2, <2>3, <2>6
    <3> QED
      BY <2>6, <3>1 DEF Unsaid
  <2>10. ToSet(Pending(s)) \subseteq Unsaid(s)
    BY <2>6, <2>9 DEF ToSet
  <2> QED
    BY <2>5, <2>7, <2>8, <2>10
<1> QED
  BY <1>2, <1>3

\* A repair turns results whose call is not known into notes.
LEMMA RepairItems ==
  ASSUME NEW s \in Seq(Items), NEW context
  PROVE  /\ Repair(s, context) \in Seq(Items)
         /\ Len(Repair(s, context)) = Len(s) /\ DOMAIN Repair(s, context) = DOMAIN s
         /\ \A i \in DOMAIN s :
               \/ /\ Repair(s, context)[i] = s[i]
                  /\ s[i].kind = "output" => s[i].id \in Ids(s, "call") \cup Ids(context, "call")
               \/ /\ Repair(s, context)[i] = Item("note", s[i].id) /\ s[i].kind = "output"
                  /\ s[i].id \notin Ids(s, "call") \cup Ids(context, "call")
         /\ Once(s) => Once(Repair(s, context))
<1> DEFINE R == Repair(s, context)
           known == Ids(s, "call") \cup Ids(context, "call")
<1>1. Len(s) \in Nat /\ DOMAIN s = 1..Len(s) /\ \A i \in DOMAIN s : s[i] \in Items
  BY Member
<1>2. R = [i \in DOMAIN s |-> IF s[i].kind = "output" /\ s[i].id \notin known
                              THEN Item("note", s[i].id) ELSE s[i]]
  BY DEF Repair
<1> HIDE DEF R, known
<1>3. \A i \in DOMAIN s : \/ R[i] = s[i] /\ (s[i].kind = "output" => s[i].id \in known)
                          \/ /\ R[i] = Item("note", s[i].id) /\ s[i].kind = "output"
                             /\ s[i].id \notin known
  BY <1>2
<1>4. \A i \in DOMAIN s : R[i] \in Items
  <2>1. "note" \in Kinds
    BY DEF Kinds
  <2>2. \A i \in DOMAIN s : Item("note", s[i].id) \in Items
    BY <1>1, <2>1, ItemIs
  <2> QED
    BY <1>1, <1>3, <2>2
<1>5. R \in Seq(Items) /\ Len(R) = Len(s) /\ DOMAIN R = DOMAIN s
  <2>1. R = [i \in 1..Len(s) |-> R[i]]
    BY <1>1, <1>2
  <2> QED
    BY <1>1, <1>4, <2>1, Transcript
<1>6. ASSUME Once(s) PROVE Once(R)
  <2>1. \A i \in DOMAIN s : R[i] # s[i] => ~Traced(R[i])
    BY <1>3, ItemIs DEF Traced
  <2> QED
    BY <1>5, <1>6, <2>1 DEF Once
<1> QED
  BY <1>3, <1>5, <1>6 DEF R, known

\* Each call is answered after it.
CallsAnswered(s) ==
  \A i \in DOMAIN s : s[i].kind = "call" => \E j \in DOMAIN s : j > i /\ s[j] = Item("output", s[i].id)

\* Each result has its call before it.
ResultsCalled(s) ==
  \A j \in DOMAIN s : s[j].kind = "output" => \E i \in DOMAIN s : i < j /\ s[i] = Item("call", s[j].id)

\* An answered transcript without repetition is valid, and needs no repair.
LEMMA AnsweredIsValid ==
  ASSUME NEW s \in Seq(Items), Once(s), CallsAnswered(s), ResultsCalled(s)
  PROVE  Valid(s) /\ Repair(s, <<>>) = s
<1>1. Valid(s)
  BY DEF Valid, CallsAnswered, ResultsCalled, Once, Traced
<1>2. \A j \in DOMAIN s : s[j].kind = "output" => s[j].id \in Ids(s, "call")
  BY ItemIs DEF ResultsCalled, Ids
<1>3. \A i \in DOMAIN s : Repair(s, <<>>)[i] = s[i]
  BY <1>2, RepairItems
<1>4. Repair(s, <<>>) \in Seq(Items) /\ Len(Repair(s, <<>>)) = Len(s) /\ DOMAIN s = 1..Len(s)
  BY RepairItems, Member
<1>5. Repair(s, <<>>) = s
  BY <1>3, <1>4, SeqEqual
<1> QED
  BY <1>1, <1>5

\* What a repaired transcript says is in the original, or a note of a result.
LEMMA RepairedItems ==
  ASSUME NEW s \in Seq(Items), NEW context
  PROVE  /\ \A x \in ToSet(Repair(s, context)) :
               \/ x \in ToSet(s)
               \/ x.kind = "note" /\ Item("output", x.id) \in ToSet(s)
         /\ \A x \in ToSet(Repair(s, context)) : x.kind = "call" => x \in ToSet(s)
         /\ \A x \in ToSet(Repair(s, context)) :
               x.kind = "output" => x \in ToSet(s) /\ x.id \in Ids(s, "call") \cup Ids(context, "call")
         /\ \A x \in ToSet(s) :
               x.kind # "output" \/ x.id \in Ids(s, "call") \cup Ids(context, "call")
                  => x \in ToSet(Repair(s, context))
<1> DEFINE R == Repair(s, context)
<1>1. DOMAIN R = DOMAIN s
      /\ \A i \in DOMAIN s :
            \/ /\ R[i] = s[i]
               /\ s[i].kind = "output" => s[i].id \in Ids(s, "call") \cup Ids(context, "call")
            \/ /\ R[i] = Item("note", s[i].id) /\ s[i].kind = "output"
               /\ s[i].id \notin Ids(s, "call") \cup Ids(context, "call")
  BY RepairItems
<1> HIDE DEF R
<1>2. \A i \in DOMAIN s : s[i] \in ToSet(s) /\ R[i] \in ToSet(R)
                          /\ s[i] = Item(s[i].kind, s[i].id)
  BY <1>1, Member, ItemIs DEF ToSet
<1>3. \A x \in ToSet(R) : \E i \in DOMAIN s : x = R[i]
  BY <1>1 DEF ToSet
<1>4. \A x \in ToSet(s) : \E i \in DOMAIN s : x = s[i]
  BY DEF ToSet
<1>5. \A k, n : Item(k, n).kind = k /\ Item(k, n).id = n
  BY ItemIs
<1>6. \A x \in ToSet(R) : \/ x \in ToSet(s)
                          \/ x.kind = "note" /\ Item("output", x.id) \in ToSet(s)
  BY <1>1, <1>2, <1>3, <1>5
<1>7. \A x \in ToSet(R) : x.kind = "call" => x \in ToSet(s)
  BY <1>1, <1>2, <1>3, <1>5
<1>8. \A x \in ToSet(R) : x.kind = "output" => /\ x \in ToSet(s)
                                               /\ x.id \in Ids(s, "call") \cup Ids(context, "call")
  BY <1>1, <1>2, <1>3, <1>5
<1>9. \A x \in ToSet(s) : x.kind # "output" \/ x.id \in Ids(s, "call") \cup Ids(context, "call")
                             => x \in ToSet(R)
  BY <1>1, <1>2, <1>4, <1>5
<1> QED
  BY <1>6, <1>7, <1>8, <1>9 DEF R

\* Without a history the whole of Claude's transcript is sent, and is answered.
LEMMA WholeInput ==
  ASSUME NEW s \in Seq(Items), Once(s), CallsAnswered(s)
  PROVE  LET turn == Repair(s, <<>>) IN Once(turn) /\ CallsAnswered(turn) /\ ResultsCalled(turn)
<1> DEFINE R == Repair(s, <<>>)
<1>1. /\ DOMAIN R = DOMAIN s /\ (Once(s) => Once(R))
      /\ \A i \in DOMAIN s :
            \/ R[i] = s[i] /\ (s[i].kind = "output" => s[i].id \in Ids(s, "call") \cup Ids(<<>>, "call"))
            \/ /\ R[i] = Item("note", s[i].id) /\ s[i].kind = "output"
               /\ s[i].id \notin Ids(s, "call") \cup Ids(<<>>, "call")
  BY RepairItems
<1>2. Ids(<<>>, "call") = {}
  BY DEF Ids
<1>3. \A i \in DOMAIN s : s[i].kind = "call" => s[i].id \in Ids(s, "call")
  BY DEF Ids
<1>4. \A n \in Ids(s, "call") : \E i \in DOMAIN s : s[i] = Item("call", n)
  BY IdsItems
<1>5. DOMAIN s = 1..Len(s) /\ Len(s) \in Nat
  BY Member
<1> HIDE DEF R
<1>6. CallsAnswered(R)
  <2>1. SUFFICES ASSUME NEW i \in DOMAIN s, R[i].kind = "call"
                 PROVE  \E j \in DOMAIN s : j > i /\ R[j] = Item("output", R[i].id)
    BY <1>1 DEF CallsAnswered
  <2>2. R[i] = s[i] /\ s[i].kind = "call"
    BY <1>1, <2>1, ItemIs
  <2>3. PICK j \in DOMAIN s : j > i /\ s[j] = Item("output", s[i].id)
    BY <2>2 DEF CallsAnswered
  <2>4. R[j] = s[j]
    BY <1>1, <1>3, <2>2, <2>3, ItemIs
  <2> QED
    BY <2>2, <2>3, <2>4
<1>7. ResultsCalled(R)
  <2>1. SUFFICES ASSUME NEW j \in DOMAIN s, R[j].kind = "output"
                 PROVE  \E i \in DOMAIN s : i < j /\ R[i] = Item("call", R[j].id)
    BY <1>1 DEF ResultsCalled
  <2>2. R[j] = s[j] /\ s[j].kind = "output" /\ s[j].id \in Ids(s, "call")
    BY <1>1, <1>2, <2>1, ItemIs
  <2>3. PICK i \in DOMAIN s : s[i] = Item("call", s[j].id)
    BY <1>4, <2>2
  <2>4. s[i].kind = "call" /\ s[i].id = s[j].id
    BY <2>3, ItemIs
  <2>5. PICK k \in DOMAIN s : k > i /\ s[k] = Item("output", s[j].id)
    BY <2>4 DEF CallsAnswered
  <2>6. s[j] = Item("output", s[j].id)
    BY <2>2, Member, ItemIs
  <2>7. k = j
    BY <2>2, <2>5, <2>6 DEF Once, Traced
  <2>8. R[i] = s[i]
    BY <1>1, <2>4
  <2> QED
    BY <1>5, <2>2, <2>3, <2>5, <2>7, <2>8
<1> QED
  BY <1>1, <1>6, <1>7 DEF R

\* The results that are recovered, and what is pending.
Suffix(h, s) == Recover(h, s, Pending(s)) \o Pending(s)

\* Nothing in it twice, all of it said by Claude, none of it by the assistant.
LEMMA SuffixItems ==
  ASSUME NEW h \in Seq(Items), NEW s \in Seq(Items), s # <<>>, Once(s), ~FromAssistant(Last(s))
  PROVE  /\ Suffix(h, s) \in Seq(Items) /\ Once(Suffix(h, s))
         /\ \A x \in ToSet(Suffix(h, s)) :
               \/ x \in Unsaid(s)
               \/ x \in ToSet(s) /\ x.kind = "output" /\ x.id \notin Ids(h, "output")
         /\ \A x \in ToSet(Suffix(h, s)) : x \in ToSet(s) /\ ~FromAssistant(x)
         /\ \A n \in Ids(h, "call") :
               Item("output", n) \in ToSet(s) /\ n \notin Ids(h, "output")
                  => Item("output", n) \in ToSet(Suffix(h, s))
<1> DEFINE P == Pending(s)
           C == Ids(h, "call") \ (Ids(h, "output") \cup Ids(P, "output"))
           R == Picked(s, C)
<1>1. Suffix(h, s) = R \o P
  BY DEF Suffix, Recover
<1>2. P \in Seq(Items) /\ Once(P) /\ ToSet(P) \subseteq ToSet(s) /\ ToSet(P) \subseteq Unsaid(s)
  BY PendingItems
<1>3. R \in Seq(Items) /\ Once(R) /\ ToSet(R) = {x \in ToSet(s) : x.kind = "output" /\ x.id \in C}
  BY PickedItems
<1>4. \A x \in ToSet(P) : x.kind = "output" => x.id \in Ids(P, "output")
  BY <1>2, IdsItems
<1>5. \A n \in Ids(P, "output") : Item("output", n) \in ToSet(P)
  BY <1>2, IdsItems
<1>6. \A x \in ToSet(R) \cap ToSet(P) : ~Traced(x)
  BY <1>3, <1>4
<1> HIDE DEF P, R
<1>7. R \o P \in Seq(Items) /\ ToSet(R \o P) = ToSet(R) \cup ToSet(P)
  BY <1>2, <1>3, Joined
<1>8. Once(R \o P)
  BY <1>2, <1>3, <1>6, OnceJoined
<1>9. \A x \in ToSet(R) : x \in ToSet(s) /\ x.kind = "output" /\ x.id \notin Ids(h, "output")
  BY <1>3
<1>10. \A x \in ToSet(R \o P) : x \in ToSet(s) /\ ~FromAssistant(x)
  BY <1>2, <1>7, <1>9, UnsaidItems DEF FromAssistant
<1>11. ASSUME NEW n \in Ids(h, "call"), Item("output", n) \in ToSet(s), n \notin Ids(h, "output")
       PROVE  Item("output", n) \in ToSet(R \o P)
  BY <1>3, <1>5, <1>7, <1>11, ItemIs
<1> QED
  BY <1>1, <1>2, <1>7, <1>8, <1>9, <1>10, <1>11

\* The history and Claude's transcript fit together: what Claude said last is
\* new, and every committed call has its result, if not in the history then
\* with Claude.
Fitting(h, s) ==
  /\ Once(h) /\ ResultsCalled(h)
  /\ Unsaid(s) \cap ToSet(h) = {}
  /\ \A x \in ToSet(h) : x.kind = "call" => Item("output", x.id) \in ToSet(h) \cup ToSet(s)

\* The transcripts that Claude sends.
Sendable(s) ==
  /\ s \in Seq(Items) /\ s # <<>> /\ Once(s) /\ CallsAnswered(s)
  /\ ~FromAssistant(Last(s)) /\ \A x \in ToSet(s) : Traced(x)

\* With a history the turn adds no call; what it sends is answered when the two
\* fit together.
LEMMA SuffixInput ==
  ASSUME NEW h \in Seq(Items), NEW s, Sendable(s), NEW turn, turn = Repair(Suffix(h, s), h)
  PROVE  /\ turn \in Seq(Items) /\ Once(turn)
         /\ \A x \in ToSet(turn) : x.kind # "call"
         /\ \A x \in ToSet(turn) : \/ x \in ToSet(s)
                                   \/ x.kind = "note" /\ Item("output", x.id) \in ToSet(s)
         /\ \A x \in ToSet(turn) : x.kind = "output" => x \in ToSet(s) /\ x.id \in Ids(h, "call")
         /\ Fitting(h, s) => Once(h \o turn) /\ CallsAnswered(h \o turn) /\ ResultsCalled(h \o turn)
<1> DEFINE J == Suffix(h, s)
<1>0. s \in Seq(Items) /\ s # <<>> /\ Once(s) /\ ~FromAssistant(Last(s)) /\ \A x \in ToSet(s) : Traced(x)
  BY DEF Sendable
<1>1. /\ J \in Seq(Items) /\ Once(J)
      /\ \A x \in ToSet(J) : \/ x \in Unsaid(s)
                             \/ x \in ToSet(s) /\ x.kind = "output" /\ x.id \notin Ids(h, "output")
      /\ \A x \in ToSet(J) : x \in ToSet(s) /\ ~FromAssistant(x)
      /\ \A n \in Ids(h, "call") : Item("output", n) \in ToSet(s) /\ n \notin Ids(h, "output")
                                      => Item("output", n) \in ToSet(J)
  BY <1>0, SuffixItems
<1> HIDE DEF J
<1>2. turn = Repair(J, h)
  BY DEF J
<1>3. Ids(J, "call") = {}
  <2>1. \A n \in Ids(J, "call") : Item("call", n) \in ToSet(J)
    BY <1>1, IdsItems
  <2> QED
    BY <1>1, <2>1, ItemIs DEF FromAssistant
<1>4. turn \in Seq(Items) /\ Once(turn)
  BY <1>1, <1>2, RepairItems
<1>5. /\ \A x \in ToSet(turn) : \/ x \in ToSet(J)
                                \/ x.kind = "note" /\ Item("output", x.id) \in ToSet(J)
      /\ \A x \in ToSet(turn) : x.kind = "call" => x \in ToSet(J)
      /\ \A x \in ToSet(turn) : x.kind = "output" => x \in ToSet(J) /\ x.id \in Ids(h, "call")
      /\ \A x \in ToSet(J) : x.kind # "output" \/ x.id \in Ids(h, "call") => x \in ToSet(turn)
  BY <1>1, <1>2, <1>3, RepairedItems
<1>6. \A x \in ToSet(turn) : x.kind # "call"
  BY <1>1, <1>5 DEF FromAssistant
<1>7. ASSUME Fitting(h, s)
      PROVE  Once(h \o turn) /\ CallsAnswered(h \o turn) /\ ResultsCalled(h \o turn)
  <2> DEFINE b == h \o turn
  <2>1. /\ \A i \in DOMAIN h : i \in DOMAIN b /\ b[i] = h[i]
        /\ \A i \in DOMAIN turn : Len(h) + i \in DOMAIN b /\ b[Len(h) + i] = turn[i]
        /\ \A i \in DOMAIN b : \/ i \in DOMAIN h /\ b[i] = h[i]
                               \/ i - Len(h) \in DOMAIN turn /\ b[i] = turn[i - Len(h)]
        /\ DOMAIN b = 1..(Len(h) + Len(turn))
    BY <1>4, Joined
  <2>2. DOMAIN h = 1..Len(h) /\ Len(h) \in Nat /\ DOMAIN turn = 1..Len(turn) /\ Len(turn) \in Nat
    BY <1>4, Member
  <2>3. /\ \A i \in DOMAIN h : h[i] \in ToSet(h) /\ h[i] = Item(h[i].kind, h[i].id)
        /\ \A i \in DOMAIN turn : turn[i] \in ToSet(turn) /\ turn[i] = Item(turn[i].kind, turn[i].id)
        /\ \A x \in ToSet(h) : \E i \in DOMAIN h : h[i] = x
        /\ \A x \in ToSet(turn) : \E i \in DOMAIN turn : turn[i] = x
    BY <1>4, Member, ItemIs
  <2>4. \A x \in ToSet(h) : /\ x.kind = "output" => x.id \in Ids(h, "output")
                            /\ x.kind = "call" => x.id \in Ids(h, "call")
    BY IdsItems
  <2>5. /\ \A n \in Ids(h, "output") : \E i \in DOMAIN h : h[i] = Item("output", n)
        /\ \A n \in Ids(h, "call") : \E i \in DOMAIN h : h[i] = Item("call", n)
    BY IdsItems
  <2>6. \A x \in ToSet(h) \cap ToSet(turn) : ~Traced(x)
    BY <1>1, <1>5, <1>7, <2>4 DEF Fitting, Traced
  <2>7. Once(b)
    BY <1>4, <1>7, <2>6, OnceJoined DEF Fitting
  <2> HIDE DEF b
  <2>8. CallsAnswered(b)
    <3>1. SUFFICES ASSUME NEW i \in DOMAIN b, b[i].kind = "call"
                   PROVE  \E j \in DOMAIN b : j > i /\ b[j] = Item("output", b[i].id)
      BY DEF CallsAnswered
    <3>2. i \in DOMAIN h /\ b[i] = h[i]
      BY <1>6, <2>1, <2>3, <3>1
    <3>3. h[i] \in ToSet(h) /\ h[i] = Item("call", h[i].id) /\ h[i].id \in Ids(h, "call") /\ Traced(h[i])
      BY <2>3, <2>4, <3>1, <3>2 DEF Traced
    <3>4. CASE h[i].id \in Ids(h, "output")
      <4>1. PICK j \in DOMAIN h : h[j] = Item("output", h[i].id)
        BY <2>5, <3>4
      <4>2. PICK k \in DOMAIN h : k < j /\ h[k] = Item("call", h[i].id)
        BY <1>7, <4>1, ItemIs DEF Fitting, ResultsCalled
      <4>3. k = i
        BY <1>7, <3>2, <3>3, <4>2 DEF Fitting, Once
      <4>4. j > i
        BY <2>2, <4>2, <4>3
      <4> QED
        BY <2>1, <3>2, <4>1, <4>4
    <3>5. CASE h[i].id \notin Ids(h, "output")
      <4>1. Item("output", h[i].id) \in ToSet(s)
        BY <1>7, <2>4, <3>1, <3>2, <3>3, <3>5, ItemIs DEF Fitting
      <4>2. Item("output", h[i].id) \in ToSet(turn)
        BY <1>1, <1>5, <3>3, <3>5, <4>1, ItemIs
      <4>3. PICK m \in DOMAIN turn : turn[m] = Item("output", h[i].id)
        BY <2>3, <4>2
      <4>4. Len(h) + m \in DOMAIN b /\ b[Len(h) + m] = turn[m] /\ Len(h) + m > i
        BY <2>1, <2>2, <3>2
      <4> QED
        BY <3>2, <4>3, <4>4
    <3> QED
      BY <3>4, <3>5
  <2>9. ResultsCalled(b)
    <3>1. SUFFICES ASSUME NEW j \in DOMAIN b, b[j].kind = "output"
                   PROVE  \E i \in DOMAIN b : i < j /\ b[i] = Item("call", b[j].id)
      BY DEF ResultsCalled
    <3>2. CASE j \in DOMAIN h /\ b[j] = h[j]
      <4>1. PICK i \in DOMAIN h : i < j /\ h[i] = Item("call", h[j].id)
        BY <1>7, <3>1, <3>2 DEF Fitting, ResultsCalled
      <4> QED
        BY <2>1, <3>2, <4>1
    <3>3. CASE j - Len(h) \in DOMAIN turn /\ b[j] = turn[j - Len(h)]
      <4>1. b[j].id \in Ids(h, "call")
        BY <1>5, <2>3, <3>1, <3>3
      <4>2. PICK i \in DOMAIN h : h[i] = Item("call", b[j].id)
        BY <2>5, <4>1
      <4>3. i < j
        BY <2>1, <2>2, <3>3
      <4> QED
        BY <2>1, <4>2, <4>3
    <3> QED
      BY <2>1, <3>2, <3>3
  <2> QED
    BY <2>7, <2>8, <2>9 DEF b
<1>8. \A x \in ToSet(turn) : \/ x \in ToSet(s)
                             \/ x.kind = "note" /\ Item("output", x.id) \in ToSet(s)
  BY <1>1, <1>5
<1>9. \A x \in ToSet(turn) : x.kind = "output" => x \in ToSet(s) /\ x.id \in Ids(h, "call")
  BY <1>1, <1>5
<1> QED
  BY <1>4, <1>6, <1>7, <1>8, <1>9

\* The item that stands for a compacted history.
Opaque == <<Item("opaque", 0)>>

\* A compacted history is one item, which is no call.
LEMMA OpaqueItem ==
  ASSUME CodexAssumption
  PROVE  /\ Opaque \in Seq(Items) /\ Len(Opaque) = 1 /\ DOMAIN Opaque = {1} /\ Opaque # <<>>
         /\ ToSet(Opaque) = {Item("opaque", 0)} /\ Ids(Opaque, "call") = {}
         /\ Once(Opaque) /\ Opaque[1] = Item("opaque", 0)
<1>1. Item("opaque", 0) \in Items
  <2>1. "opaque" \in Kinds /\ 0 \in 0..MaxId
    BY DEF CodexAssumption, Kinds
  <2> QED
    BY <2>1, ItemIs
<1>2. Opaque \in Seq(Items) /\ Len(Opaque) = 1 /\ DOMAIN Opaque = {1} /\ ToSet(Opaque) = {Item("opaque", 0)}
      /\ Opaque[1] = Item("opaque", 0) /\ Opaque # <<>>
  <2>1. <<>> \in Seq(Items)
    BY EmptySeq
  <2> QED
    BY <1>1, <2>1, Appended DEF Opaque
<1>3. Ids(Opaque, "call") = {}
  BY <1>2, ItemIs DEF Ids
<1>4. Once(Opaque)
  BY <1>2 DEF Once
<1> QED
  BY <1>2, <1>3, <1>4

\* A transcript of neither calls nor results is answered.
LEMMA NothingToAnswer ==
  ASSUME NEW s \in Seq(Items), \A x \in ToSet(s) : x.kind \notin {"call", "output"}
  PROVE  CallsAnswered(s) /\ ResultsCalled(s)
  BY Member DEF CallsAnswered, ResultsCalled

\* What a turn builds on and what it adds, in both attempts: what it adds is
\* said by Claude, or the note of a result that Claude holds; a result has its
\* call; and if the two fit, or if there is no history or a compacted one, what
\* is sent is valid, and is what is committed.
LEMMA Inputs ==
  ASSUME CodexAssumption, NEW h \in Seq(Items), NEW s, Sendable(s),
         NEW a, \/ a = Assembled(h, s)
                \/ h # <<>> /\ a = Compacted(Assembled(h, s))
  PROVE  /\ a.base \in {h, Opaque} /\ (h = <<>> => a.base = <<>>) /\ a.turn \in Seq(Items)
         /\ \A x \in ToSet(a.turn) : \/ x \in ToSet(s)
                                     \/ x.kind = "note" /\ Item("output", x.id) \in ToSet(s)
         /\ \A x \in ToSet(a.turn) : x.kind = "output" =>
               x.id \in Ids(a.turn, "call") \cup Ids(a.base, "call")
         /\ a.base # <<>> => \A x \in ToSet(a.turn) : x.kind # "call"
         /\ a.base = Opaque => \A x \in ToSet(a.turn) : x.kind # "output"
         /\ a.base \in {<<>>, Opaque} \/ Fitting(h, s) =>
               /\ Once(a.base \o a.turn) /\ ResultsCalled(a.base \o a.turn)
               /\ CallsAnswered(a.base \o a.turn) /\ Valid(a.sent)
<1>0. s \in Seq(Items) /\ Once(s) /\ CallsAnswered(s) /\ \A x \in ToSet(s) : Traced(x)
  BY DEF Sendable
<1>1. CASE h = <<>>
  <2>1. a = [base |-> <<>>, turn |-> Repair(s, <<>>), sent |-> Repair(s, <<>>)]
    BY <1>1 DEF Assembled
  <2> DEFINE R == Repair(s, <<>>)
  <2>2. a.base = <<>> /\ a.turn = R /\ a.sent = R
    BY <2>1
  <2>3. R \in Seq(Items) /\ Once(R) /\ CallsAnswered(R) /\ ResultsCalled(R)
    BY <1>0, RepairItems, WholeInput
  <2>4. Valid(R) /\ <<>> \o R = R
    BY <2>3, AnsweredIsValid, ConcatEmptySeq
  <2>5. /\ \A x \in ToSet(R) : \/ x \in ToSet(s)
                               \/ x.kind = "note" /\ Item("output", x.id) \in ToSet(s)
    BY <1>0, RepairedItems
  <2>6. \A x \in ToSet(R) : x.kind = "output" => x.id \in Ids(R, "call")
    <3>1. SUFFICES ASSUME NEW j \in DOMAIN R, R[j].kind = "output" PROVE R[j].id \in Ids(R, "call")
      BY <2>3, Member
    <3>2. PICK i \in DOMAIN R : R[i] = Item("call", R[j].id)
      BY <2>3, <3>1 DEF ResultsCalled
    <3>3. R[i].kind = "call" /\ R[i].id = R[j].id
      BY <3>2, ItemIs
    <3> QED
      BY <3>3 DEF Ids
  <2>7. <<>> # Opaque
    BY OpaqueItem
  <2> HIDE DEF R
  <2> QED
    BY <1>1, <2>2, <2>3, <2>4, <2>5, <2>6, <2>7
<1>2. CASE h # <<>>
  <2> DEFINE T == Repair(Suffix(h, s), h)
             first == [base |-> h, turn |-> T, sent |-> Repair(h \o T, <<>>)]
  <2>1. Assembled(h, s) = first
    BY <1>2 DEF Assembled, Suffix
  <2>2. /\ T \in Seq(Items) /\ Once(T)
        /\ \A x \in ToSet(T) : x.kind # "call"
        /\ \A x \in ToSet(T) : \/ x \in ToSet(s)
                               \/ x.kind = "note" /\ Item("output", x.id) \in ToSet(s)
        /\ \A x \in ToSet(T) : x.kind = "output" => x \in ToSet(s) /\ x.id \in Ids(h, "call")
        /\ Fitting(h, s) => Once(h \o T) /\ CallsAnswered(h \o T) /\ ResultsCalled(h \o T)
    BY SuffixInput
  <2> HIDE DEF T
  <2>3. CASE a = first
    <3>1. a.base = h /\ a.turn = T /\ a.sent = Repair(h \o T, <<>>)
      BY <2>3
    <3>2. ASSUME Fitting(h, s) PROVE Valid(a.sent)
      <4>1. h \o T \in Seq(Items)
        BY <2>2, Joined
      <4>2. Valid(h \o T) /\ Repair(h \o T, <<>>) = h \o T
        BY <2>2, <3>2, <4>1, AnsweredIsValid
      <4> QED
        BY <3>1, <4>2
    <3>3. ASSUME h = Opaque PROVE Fitting(h, s)
      <4>1. \A x \in ToSet(h) : x.kind = "opaque"
        BY <3>3, OpaqueItem, ItemIs
      <4>2. Once(h) /\ ResultsCalled(h)
        BY <3>3, <4>1, OpaqueItem, NothingToAnswer
      <4>3. Unsaid(s) \cap ToSet(h) = {}
        BY <1>0, <4>1, UnsaidItems DEF Traced
      <4> QED
        BY <4>1, <4>2, <4>3 DEF Fitting
    <3>4. h = Opaque => \A x \in ToSet(T) : x.kind # "output"
      BY <2>2, OpaqueItem
    <3> QED
      BY <1>2, <2>2, <3>1, <3>2, <3>3, <3>4
  <2>4. CASE a = Compacted(first)
    <3> DEFINE C == Repair(T, Opaque)
    <3>1. a.base = Opaque /\ a.turn = C /\ a.sent = Opaque \o C
      BY <2>4 DEF Compacted, Opaque
    <3>2. Ids(T, "call") = {}
      <4>1. \A n \in Ids(T, "call") : Item("call", n) \in ToSet(T)
        BY <2>2, IdsItems
      <4> QED
        BY <2>2, <4>1, ItemIs
    <3>3. C \in Seq(Items) /\ Once(C)
      BY <2>2, RepairItems
    <3>4. /\ \A x \in ToSet(C) : \/ x \in ToSet(T)
                                 \/ x.kind = "note" /\ Item("output", x.id) \in ToSet(T)
          /\ \A x \in ToSet(C) : x.kind = "call" => x \in ToSet(T)
          /\ \A x \in ToSet(C) : x.kind = "output" =>
                x \in ToSet(T) /\ x.id \in Ids(T, "call") \cup Ids(Opaque, "call")
      BY <2>2, RepairedItems
    <3> HIDE DEF C
    <3>5. \A x \in ToSet(C) : x.kind \notin {"call", "output"}
      BY <2>2, <3>2, <3>4, OpaqueItem
    <3>6. \A x \in ToSet(C) : \/ x \in ToSet(s)
                              \/ x.kind = "note" /\ Item("output", x.id) \in ToSet(s)
      <4>1. \A n : Item("output", n) \in ToSet(T) => Item("output", n) \in ToSet(s)
        BY <2>2, ItemIs
      <4> QED
        BY <2>2, <3>4, <4>1
    <3>7. Opaque \o C \in Seq(Items) /\ ToSet(Opaque \o C) = {Item("opaque", 0)} \cup ToSet(C)
      BY <3>3, OpaqueItem, Joined
    <3>8. Once(Opaque \o C)
      <4>1. \A x \in ToSet(Opaque) \cap ToSet(C) : ~Traced(x)
        BY OpaqueItem, ItemIs DEF Traced
      <4> QED
        BY <3>3, <4>1, OpaqueItem, OnceJoined
    <3>9. CallsAnswered(Opaque \o C) /\ ResultsCalled(Opaque \o C)
      <4>1. \A x \in ToSet(Opaque \o C) : x.kind \notin {"call", "output"}
        BY <3>5, <3>7, ItemIs
      <4> QED
        BY <3>7, <4>1, NothingToAnswer
    <3>10. Valid(Opaque \o C)
      BY <3>7, <3>8, <3>9, AnsweredIsValid
    <3> QED
      BY <1>2, <3>1, <3>3, <3>5, <3>6, <3>8, <3>9, <3>10
  <2> QED
    BY <2>1, <2>3, <2>4
<1> QED
  BY <1>1, <1>2

-----------------------------------------------------------------------------
(* The inductive invariant *)

\* Ids are handed out in order; only a summary may have the next one.
Old(x) == \/ x.id < fresh \/ x.kind = "opaque"
          \/ x.kind = "summary" /\ x.id <= fresh

\* Claude's transcript repeats nothing, has a result for every call, and does
\* not end with the assistant's word while a turn is due.
ClaudeInv ==
  /\ \A x \in ToSet(shown) : Old(x) /\ Traced(x)
  /\ Once(shown) /\ CallsAnswered(shown)
  /\ asked = "turn" => shown # <<>> /\ ~FromAssistant(Last(shown))
  /\ asked = "summary" => shown # <<>> /\ hooks # "none"

\* What a summary replaced, Claude shows no more, but for the results of calls
\* that are gone; and until the finished hook clears the history a reset is due.
ReplayInv ==
  /\ \A x \in ToSet(shown) : x.id >= floor \/ x.kind = "output"
  /\ hooks # "none" /\ asked # "summary" =>
        \A x \in ToSet(shown) : x.id >= fresh \/ x.kind = "output"
  /\ hooks = "fallback" /\ ~crossed => pendingReset \/ (asked # "summary" /\ history = <<>>)
  /\ ~crossed /\ ~missed => \A x \in ToSet(history) : Traced(x) => x.id >= floor

\* What the history holds across routes and compactions.
BridgeInv ==
  /\ floor <= fresh
  /\ \A x \in ToSet(history) : Old(x)
  /\ \A x \in lost : x.id < fresh /\ FromAssistant(x) /\ x \notin ToSet(shown)
  /\ route # "codex" => history = <<>>
  /\ hooks = "missed" => missed
  /\ hooks = "provider" /\ asked = "summary" /\ ~crossed => history = Opaque
  /\ hooks # "none" /\ asked # "summary" =>
        \A x \in ToSet(history) : x.id < fresh \/ x.kind = "opaque"
  /\ hooks = "provider" /\ asked # "summary" /\ ~crossed =>
        \A x \in ToSet(history) : x.kind \notin {"call", "output"}

\* Nothing went wrong that the bridge cannot know of, or its traces are gone.
Clean == ~missed /\ ~crossed /\ lost \cap ToSet(history) = {}

\* The history and Claude's transcript fit together whenever a turn may follow.
FittingInv ==
  Clean => /\ Once(history) /\ ResultsCalled(history)
           /\ hooks = "none" \/ asked = "summary" => Fitting(history, shown)

TurnInv == TypeOK /\ ClaudeInv /\ ReplayInv /\ BridgeInv /\ FittingInv /\ RejectedOnlyAfterLoss

-----------------------------------------------------------------------------
(* What a turn sends *)

\* Answered transcripts, one after the other.
LEMMA CallsAnsweredJoined ==
  ASSUME NEW s \in Seq(Items), NEW t \in Seq(Items), CallsAnswered(s), CallsAnswered(t)
  PROVE  CallsAnswered(s \o t)
<1> DEFINE b == s \o t
<1>1. /\ \A i \in DOMAIN s : i \in DOMAIN b /\ b[i] = s[i]
      /\ \A i \in DOMAIN t : Len(s) + i \in DOMAIN b /\ b[Len(s) + i] = t[i]
      /\ \A i \in DOMAIN b : \/ i \in DOMAIN s /\ b[i] = s[i]
                             \/ i - Len(s) \in DOMAIN t /\ b[i] = t[i - Len(s)]
      /\ DOMAIN b = 1..(Len(s) + Len(t))
  BY Joined
<1>2. DOMAIN t = 1..Len(t) /\ Len(t) \in Nat /\ Len(s) \in Nat
  BY Member
<1> HIDE DEF b
<1>3. SUFFICES ASSUME NEW i \in DOMAIN b, b[i].kind = "call"
               PROVE  \E j \in DOMAIN b : j > i /\ b[j] = Item("output", b[i].id)
  BY DEF CallsAnswered, b
<1>4. CASE i \in DOMAIN s /\ b[i] = s[i]
  <2>1. PICK j \in DOMAIN s : j > i /\ s[j] = Item("output", s[i].id)
    BY <1>3, <1>4 DEF CallsAnswered
  <2> QED
    BY <1>1, <1>4, <2>1
<1>5. CASE i - Len(s) \in DOMAIN t /\ b[i] = t[i - Len(s)]
  <2>1. PICK j \in DOMAIN t : j > i - Len(s) /\ t[j] = Item("output", t[i - Len(s)].id)
    BY <1>3, <1>5 DEF CallsAnswered
  <2>2. Len(s) + j > i
    BY <1>1, <1>2, <2>1
  <2> QED
    BY <1>1, <1>5, <2>1, <2>2
<1> QED
  BY <1>1, <1>4, <1>5

\* What Claude sends can be sent: its transcript, and the request for a summary.
LEMMA BodyItems ==
  ASSUME CodexAssumption, TypeOK, ClaudeInv, Infers
  PROVE  /\ Sendable(Body)
         /\ \A x \in ToSet(Body) : x \in ToSet(shown) \/ (asked = "summary" /\ x = Item("prompt", fresh))
         /\ ToSet(shown) \subseteq ToSet(Body)
         /\ Unsaid(Body) \subseteq Unsaid(shown) \cup {Item("prompt", fresh)}
<1>1. shown \in Seq(Items) /\ fresh \in 0..MaxId
  BY DEF TypeOK
<1>2. CASE asked = "summary"
  <2> DEFINE p == Item("prompt", fresh)
  <2>1. p \in Items /\ p.kind = "prompt"
    <3>1. "prompt" \in Kinds
      BY DEF Kinds
    <3> QED
      BY <1>1, <3>1, ItemIs
  <2>2. Body = Append(shown, p)
    BY <1>2 DEF Body
  <2> HIDE DEF p
  <2>3. /\ Body = shown \o <<p>> /\ Body \in Seq(Items) /\ ToSet(Body) = ToSet(shown) \cup {p}
        /\ Body # <<>> /\ Last(Body) = p
        /\ <<p>> \in Seq(Items) /\ ToSet(<<p>>) = {p} /\ DOMAIN <<p>> = {1}
    BY <1>1, <2>1, <2>2, Appended
  <2>4. ~FromAssistant(p) /\ Traced(p) /\ ~Old(p)
    BY <1>1, <2>1, ItemIs DEF FromAssistant, Traced, Old, p, CodexAssumption
  <2>5. CallsAnswered(<<p>>)
    BY <2>1, <2>3, NothingToAnswer
  <2>6. Once(<<p>>)
    BY <2>3 DEF Once
  <2>7. CallsAnswered(Body)
    BY <1>1, <2>3, <2>5, CallsAnsweredJoined DEF ClaudeInv
  <2>8. Once(Body)
    <3>1. \A x \in ToSet(shown) \cap ToSet(<<p>>) : ~Traced(x)
      BY <2>3, <2>4 DEF ClaudeInv
    <3> QED
      BY <1>1, <2>3, <2>6, <3>1, OnceJoined DEF ClaudeInv
  <2>9. Sendable(Body)
    BY <2>3, <2>4, <2>7, <2>8 DEF Sendable, ClaudeInv
  <2>10. Unsaid(Body) \subseteq Unsaid(shown) \cup {p}
    <3>1. Unsaid(<<p>>) \subseteq {p}
      BY <2>3, UnsaidItems
    <3>2. Unsaid(shown \o <<p>>) \subseteq Unsaid(shown) \cup Unsaid(<<p>>)
      BY <1>1, <2>3, UnsaidJoined
    <3> QED
      BY <2>3, <3>1, <3>2
  <2> QED
    BY <1>2, <2>3, <2>9, <2>10 DEF p
<1>3. CASE asked # "summary"
  <2>1. asked = "turn" /\ Body = shown
    BY <1>3 DEF Infers, Body
  <2> QED
    BY <1>1, <2>1 DEF Sendable, ClaudeInv
<1> QED
  BY <1>2, <1>3

\* Every turn starts on the history that is there: another route left none.
LEMMA EntersHistory ==
  ASSUME BridgeInv
  PROVE  /\ Entered("codex").items = history
         /\ Entered("other").items = <<>>
         /\ \A x \in {"codex", "other"} :
               /\ Entered(x).flag \in {FALSE, pendingReset}
               /\ hooks # "none" /\ ~Entered(x).crosses => Entered(x).flag = pendingReset
               /\ Entered(x).crosses \in BOOLEAN
  BY DEF BridgeInv, Entered

\* No compaction was undone, by this change of route or an earlier one.
Straight(x) == ~crossed /\ ~Entered(x).crosses

\* What a turn builds on, and what it adds to it.
LEMMA Taken ==
  ASSUME CodexAssumption, TurnInv, Infers, NEW a \in Attempts(Entered("codex").items)
  PROVE  /\ a.base \in {history, Opaque} /\ (history = <<>> => a.base = <<>>)
         /\ a.base \in Seq(Items) /\ Len(a.base) <= MaxItems /\ a.turn \in Seq(Items)
         /\ \A x \in ToSet(a.base) : Old(x)
         /\ \A x \in ToSet(a.turn) :
               \/ Old(x) /\ x.kind # "opaque"
               \/ asked = "summary" /\ x = Item("prompt", fresh)
         /\ Straight("codex") /\ ~missed =>
               \A x \in ToSet(a.base) \cup ToSet(a.turn) : Traced(x) => x.id >= floor
         /\ Straight("codex") /\ ~missed /\ lost \cap ToSet(a.base) = {} =>
               /\ Once(a.base \o a.turn) /\ ResultsCalled(a.base \o a.turn)
               /\ CallsAnswered(a.base \o a.turn) /\ Valid(a.sent)
         /\ a.base # <<>> => \A x \in ToSet(a.turn) : x.kind # "call"
         /\ a.base = Opaque => \A x \in ToSet(a.turn) : x.kind # "output"
         /\ lost \cap ToSet(a.turn) = {}
         /\ hooks = "provider" /\ asked = "summary" /\ Straight("codex") => a.base = Opaque
<1>1. /\ history \in Seq(Items) /\ Len(history) <= MaxItems /\ shown \in Seq(Items)
      /\ fresh \in 0..MaxId /\ floor \in 0..MaxId
      /\ ClaudeInv /\ ReplayInv /\ BridgeInv /\ FittingInv /\ TypeOK
  BY DEF TurnInv, TypeOK
<1>2. Entered("codex").items = history
  BY <1>1, EntersHistory
<1>3. /\ Sendable(Body) /\ ToSet(shown) \subseteq ToSet(Body)
      /\ \A x \in ToSet(Body) : x \in ToSet(shown) \/ (asked = "summary" /\ x = Item("prompt", fresh))
      /\ Unsaid(Body) \subseteq Unsaid(shown) \cup {Item("prompt", fresh)}
  BY <1>1, BodyItems
<1>4. a = Assembled(history, Body) \/ (history # <<>> /\ a = Compacted(Assembled(history, Body)))
  BY <1>2 DEF Attempts
<1>5. /\ a.base \in {history, Opaque} /\ (history = <<>> => a.base = <<>>) /\ a.turn \in Seq(Items)
      /\ \A x \in ToSet(a.turn) : \/ x \in ToSet(Body)
                                  \/ x.kind = "note" /\ Item("output", x.id) \in ToSet(Body)
      /\ \A x \in ToSet(a.turn) : x.kind = "output" =>
            x.id \in Ids(a.turn, "call") \cup Ids(a.base, "call")
      /\ a.base # <<>> => \A x \in ToSet(a.turn) : x.kind # "call"
      /\ a.base = Opaque => \A x \in ToSet(a.turn) : x.kind # "output"
      /\ a.base \in {<<>>, Opaque} \/ Fitting(history, Body) =>
            /\ Once(a.base \o a.turn) /\ ResultsCalled(a.base \o a.turn)
            /\ CallsAnswered(a.base \o a.turn) /\ Valid(a.sent)
  BY <1>1, <1>3, <1>4, Inputs
<1>6. a.base \in Seq(Items) /\ Len(a.base) <= MaxItems
  BY <1>1, <1>5, OpaqueItem DEF CodexAssumption
<1>7. \A x \in ToSet(a.base) : Old(x)
  BY <1>1, <1>5, OpaqueItem, ItemIs DEF BridgeInv, Old
<1>8. \A x \in ToSet(a.turn) : \/ x \in ToSet(shown)
                               \/ x.kind = "note" /\ Item("output", x.id) \in ToSet(shown)
                               \/ asked = "summary" /\ x = Item("prompt", fresh)
  BY <1>3, <1>5, ItemIs
<1>9. \A x \in ToSet(a.turn) : \/ Old(x) /\ x.kind # "opaque"
                               \/ asked = "summary" /\ x = Item("prompt", fresh)
  BY <1>1, <1>8, ItemIs DEF ClaudeInv, Old, Traced
<1>10. ASSUME Straight("codex"), ~missed, NEW x \in ToSet(a.base) \cup ToSet(a.turn), Traced(x)
       PROVE  x.id >= floor
  <2>0. ~crossed
    BY <1>10 DEF Straight
  <2>1. \A y \in ToSet(a.base) : Traced(y) => y.id >= floor
    BY <1>1, <1>5, <1>10, <2>0, OpaqueItem, ItemIs DEF ReplayInv, Traced
  <2>2. \A y \in ToSet(a.turn) : Traced(y) /\ y.kind # "output" => y.id >= floor
    BY <1>1, <1>8, ItemIs DEF ReplayInv, BridgeInv, Traced
  <2>3. CASE x \in ToSet(a.turn) /\ x.kind = "output"
    <3>1. \/ Item("call", x.id) \in ToSet(a.turn)
          \/ Item("call", x.id) \in ToSet(a.base)
      BY <1>5, <1>6, <2>3, IdsItems
    <3> QED
      BY <2>1, <2>2, <3>1, ItemIs DEF Traced
  <2> QED
    BY <1>10, <2>1, <2>2, <2>3
<1>11. ASSUME Straight("codex"), ~missed, lost \cap ToSet(a.base) = {}
       PROVE  /\ Once(a.base \o a.turn) /\ ResultsCalled(a.base \o a.turn)
              /\ CallsAnswered(a.base \o a.turn) /\ Valid(a.sent)
  <2>1. CASE a.base = history
    <3>1. Fitting(history, shown)
      BY <1>1, <1>11, <2>1 DEF FittingInv, Clean, Straight, Infers
    <3>2. Item("prompt", fresh) \notin ToSet(history)
      BY <1>1, ItemIs DEF BridgeInv, Old
    <3>3. Fitting(history, Body)
      BY <1>3, <3>1, <3>2 DEF Fitting
    <3> QED
      BY <1>5, <3>3
  <2> QED
    BY <1>5, <2>1
<1>12. lost \cap ToSet(a.turn) = {}
  BY <1>1, <1>8, ItemIs DEF BridgeInv, FromAssistant
<1>13. hooks = "provider" /\ asked = "summary" /\ Straight("codex") => a.base = Opaque
  BY <1>1, <1>5 DEF BridgeInv, Straight
<1> QED
  BY <1>5, <1>6, <1>7, <1>9, <1>10, <1>11, <1>12, <1>13

-----------------------------------------------------------------------------
(* Claude's side of a turn *)

\* The end of two transcripts is the end of the second.
LEMMA LastJoined ==
  ASSUME NEW s \in Seq(Items), NEW t \in Seq(Items), t # <<>>
  PROVE  s \o t # <<>> /\ Last(s \o t) = Last(t)
<1>1. Len(t) \in DOMAIN t /\ Last(t) = t[Len(t)]
  BY LastItem
<1>2. Len(s \o t) = Len(s) + Len(t) /\ (s \o t)[Len(s) + Len(t)] = t[Len(t)]
      /\ Len(s) + Len(t) \in DOMAIN (s \o t)
  BY <1>1, Joined
<1>3. s \o t # <<>>
  BY <1>1, ConcatEqualIffEmpty
<1> QED
  BY <1>1, <1>2, <1>3 DEF Last

\* The items of an answer to a turn, and the results of its calls.
Answer(out) ==
  /\ out \in Seq(Items) /\ Results(out) \in Seq(Items) /\ Len(out) \in Nat \ {0}
  /\ Once(out) /\ Once(Results(out)) /\ CallsAnswered(out \o Results(out))
  /\ \A x \in ToSet(out) : FromAssistant(x) /\ x.id >= fresh /\ x.id < fresh + Len(out)
  /\ \A x \in ToSet(Results(out)) : x.kind = "output" /\ x.id >= fresh /\ x.id < fresh + Len(out)
  /\ \A x \in ToSet(out) : x.kind = "call" => Item("output", x.id) \in ToSet(Results(out))
  /\ \E x \in ToSet(out) : FromAssistant(x)

\* Every answer to a turn is such a one.
LEMMA AnswerItems ==
  ASSUME CodexAssumption, TypeOK, asked = "turn", NEW out \in Outputs, fresh + Len(out) <= MaxId
  PROVE  Answer(out)
<1>0. fresh \in Nat /\ MaxId \in Nat
  BY DEF TypeOK, CodexAssumption
<1>1. PICK k \in {"reply", "call"}, n \in {1, 2} :
        /\ Len(out) = n /\ (k = "reply" => n = 1)
        /\ out = [i \in 1..n |-> out[i]]
        /\ \A i \in 1..n : out[i] = Item(k, fresh + i - 1)
  <2>1. CASE out = <<Item("reply", fresh)>>
    <3>1. /\ Len(out) = 1 /\ out = [i \in 1..1 |-> out[i]]
          /\ \A i \in 1..1 : out[i] = Item("reply", fresh + i - 1)
      BY <1>0, <2>1
    <3> QED
      BY <3>1
  <2>2. CASE out = <<Item("call", fresh)>>
    <3>1. /\ Len(out) = 1 /\ out = [i \in 1..1 |-> out[i]]
          /\ \A i \in 1..1 : out[i] = Item("call", fresh + i - 1)
      BY <1>0, <2>2
    <3> QED
      BY <3>1
  <2>3. CASE out = <<Item("call", fresh), Item("call", fresh + 1)>>
    <3>1. /\ Len(out) = 2 /\ out = [i \in 1..2 |-> out[i]]
          /\ \A i \in 1..2 : out[i] = Item("call", fresh + i - 1)
      BY <1>0, <2>3
    <3> QED
      BY <3>1
  <2> QED
    BY <2>1, <2>2, <2>3 DEF Outputs
<1>2. \A i \in 1..n : fresh + i - 1 \in 0..MaxId /\ fresh + i - 1 >= fresh /\ fresh + i - 1 < fresh + n
  BY <1>0, <1>1
<1>3. k \in Kinds /\ "output" \in Kinds /\ n \in Nat \ {0} /\ 1 \in 1..n
  BY DEF Kinds
<1>4. out \in Seq(Items) /\ DOMAIN out = 1..n /\ \A i \in 1..n : out[i] \in Items
  <2>1. \A i \in 1..n : out[i] \in Items
    BY <1>1, <1>2, <1>3, ItemIs
  <2> QED
    BY <1>1, <1>3, <2>1, Transcript
<1>5. \A i \in 1..n : /\ out[i].kind = k /\ out[i].id = fresh + i - 1
                      /\ FromAssistant(out[i])
  BY <1>1, ItemIs DEF FromAssistant
<1>6. \A i, j \in 1..n : fresh + i - 1 = fresh + j - 1 => i = j
  BY <1>0, <1>3
<1>7. Once(out)
  BY <1>4, <1>5, <1>6 DEF Once
<1>8. \A x \in ToSet(out) : FromAssistant(x) /\ x.id >= fresh /\ x.id < fresh + n
  BY <1>2, <1>4, <1>5 DEF ToSet
<1>9. \E x \in ToSet(out) : FromAssistant(x)
  BY <1>3, <1>4, <1>5 DEF ToSet
<1>10. CASE k = "reply"
  <2>1. Results(out) = <<>>
    BY <1>3, <1>5, <1>10 DEF Results
  <2>2. Results(out) \in Seq(Items) /\ ToSet(Results(out)) = {} /\ Once(Results(out))
    BY <2>1, EmptySeq DEF Once, ToSet
  <2>3. out \o Results(out) = out
    BY <1>4, <2>1, ConcatEmptySeq
  <2>4. \A x \in ToSet(out) : x.kind # "call"
    BY <1>4, <1>5, <1>10 DEF ToSet
  <2>5. CallsAnswered(out)
    BY <1>4, <1>5, <1>10 DEF CallsAnswered
  <2> QED
    BY <1>1, <1>3, <1>4, <1>7, <1>8, <1>9, <2>2, <2>3, <2>4, <2>5 DEF Answer
<1>11. CASE k = "call"
  <2> DEFINE R == Results(out)
  <2>1. R = [i \in 1..n |-> Item("output", fresh + i - 1)]
    BY <1>3, <1>4, <1>5, <1>11 DEF Results
  <2>2. \A i \in 1..n : R[i] = Item("output", fresh + i - 1)
    BY <2>1
  <2>3. R = [i \in 1..n |-> R[i]]
    BY <2>1
  <2> HIDE DEF R
  <2>4. \A i \in 1..n : R[i] \in Items /\ R[i].kind = "output" /\ R[i].id = fresh + i - 1
    BY <1>2, <1>3, <2>2, ItemIs
  <2>5. R \in Seq(Items) /\ Len(R) = n /\ DOMAIN R = 1..n
    BY <1>3, <2>3, <2>4, Transcript
  <2>6. Once(R)
    BY <1>6, <2>4, <2>5 DEF Once
  <2>7. \A x \in ToSet(R) : x.kind = "output" /\ x.id >= fresh /\ x.id < fresh + n
    BY <1>2, <2>4, <2>5 DEF ToSet
  <2>8. \A x \in ToSet(out) : x.kind = "call" => Item("output", x.id) \in ToSet(R)
    BY <1>4, <1>5, <2>2, <2>5 DEF ToSet
  <2>9. CallsAnswered(out \o R)
    <3> DEFINE b == out \o R
    <3>1. /\ \A i \in 1..n : n + i \in DOMAIN b /\ b[n + i] = R[i]
          /\ \A i \in DOMAIN b : \/ i \in 1..n /\ b[i] = out[i]
                                 \/ i - n \in 1..n /\ b[i] = R[i - n]
      <4>1. /\ \A i \in DOMAIN R : Len(out) + i \in DOMAIN b /\ b[Len(out) + i] = R[i]
            /\ \A i \in DOMAIN b : \/ i \in DOMAIN out /\ b[i] = out[i]
                                   \/ i - Len(out) \in DOMAIN R /\ b[i] = R[i - Len(out)]
        BY <1>4, <2>5, Joined
      <4>2. Len(out) = n /\ DOMAIN out = 1..n /\ DOMAIN R = 1..n
        BY <1>1, <1>4, <2>5
      <4> HIDE DEF b
      <4> QED
        BY <4>1, <4>2
    <3> HIDE DEF b
    <3>2. SUFFICES ASSUME NEW i \in DOMAIN b, b[i].kind = "call"
                   PROVE  \E j \in DOMAIN b : j > i /\ b[j] = Item("output", b[i].id)
      BY DEF CallsAnswered, b
    <3>3. i \in 1..n /\ b[i] = out[i]
      BY <2>4, <3>1, <3>2
    <3>4. b[n + i] = Item("output", b[i].id) /\ n + i > i
      BY <1>3, <1>5, <2>2, <3>1, <3>3
    <3> QED
      BY <3>1, <3>3, <3>4
  <2> QED
    BY <1>1, <1>3, <1>4, <1>7, <1>8, <1>9, <2>5, <2>6, <2>7, <2>8, <2>9 DEF Answer, R
<1> QED
  BY <1>10, <1>11

\* What a step adds to Claude's transcript, if it does not replace it.
Young(x) == x.kind \in {"prompt", "reply", "call", "output"} /\ x.id >= fresh /\ x.id < fresh'

\* Claude's transcript after a step that only adds to it.
Grown ==
  /\ fresh' \in 0..MaxId /\ fresh <= fresh'
  /\ shown' \in Seq(Items) /\ Len(shown') <= MaxShown
  /\ Once(shown') /\ CallsAnswered(shown')
  /\ ToSet(shown) \subseteq ToSet(shown')
  /\ \A x \in ToSet(shown') : x \in ToSet(shown) \/ Young(x)

\* A transcript grows by an answered one of new items.
LEMMA GrowsBy ==
  ASSUME CodexAssumption, TypeOK, ClaudeInv, NEW t \in Seq(Items), Once(t), CallsAnswered(t),
         shown' = shown \o t, Len(shown \o t) <= MaxShown,
         fresh' \in 0..MaxId, fresh <= fresh', \A x \in ToSet(t) : Young(x)
  PROVE  Grown /\ ToSet(shown') = ToSet(shown) \cup ToSet(t)
<1>1. shown \in Seq(Items) /\ fresh \in 0..MaxId
  BY DEF TypeOK
<1>2. \A x \in ToSet(shown) \cap ToSet(t) : ~Traced(x)
  <2>1. \A x \in ToSet(shown) : x.id \in 0..MaxId
    BY <1>1, Member, ItemIs
  <2>2. \A x \in ToSet(shown) : x.id < fresh \/ x.kind \in {"opaque", "summary"}
    BY DEF ClaudeInv, Old
  <2>3. \A x \in ToSet(t) : x.kind \notin {"opaque", "summary"} /\ x.id >= fresh
    BY DEF Young
  <2>4. \A n \in 0..MaxId : ~(n < fresh /\ n >= fresh)
    BY <1>1 DEF CodexAssumption
  <2> QED
    BY <2>1, <2>2, <2>3, <2>4
<1>3. Once(shown \o t) /\ CallsAnswered(shown \o t)
  BY <1>1, <1>2, OnceJoined, CallsAnsweredJoined DEF ClaudeInv
<1>4. shown \o t \in Seq(Items) /\ ToSet(shown \o t) = ToSet(shown) \cup ToSet(t)
  BY <1>1, Joined
<1> QED
  BY <1>3, <1>4 DEF Grown

\* Claude receives the answer to a turn.
LEMMA AnswerReceived ==
  ASSUME CodexAssumption, TypeOK, ClaudeInv, asked = "turn", NEW out \in Outputs, Receives(out)
  PROVE  /\ Grown /\ Answer(out) /\ fresh' = fresh + Len(out) /\ fresh < fresh'
         /\ asked' \in {"nothing", "turn"}
         /\ asked' = "turn" => shown' # <<>> /\ ~FromAssistant(Last(shown'))
         /\ \A x \in Unsaid(shown') : x.kind = "output" /\ x.id >= fresh
         /\ \A x \in ToSet(out) : x.kind = "call" => Item("output", x.id) \in ToSet(shown')
<1> DEFINE R == Results(out)
<1>1. /\ fresh + Len(out) <= MaxId /\ Len(shown \o out \o R) <= MaxShown
      /\ shown' = shown \o out \o R /\ fresh' = fresh + Len(out)
      /\ asked' = IF R = <<>> THEN "nothing" ELSE "turn"
  BY DEF Receives
<1>2. Answer(out)
  BY <1>1, AnswerItems
<1>3. /\ out \in Seq(Items) /\ R \in Seq(Items) /\ Len(out) \in Nat \ {0}
      /\ Once(out) /\ Once(R) /\ CallsAnswered(out \o R)
      /\ \A x \in ToSet(out) : FromAssistant(x) /\ x.id >= fresh /\ x.id < fresh + Len(out)
      /\ \A x \in ToSet(R) : x.kind = "output" /\ x.id >= fresh /\ x.id < fresh + Len(out)
      /\ \A x \in ToSet(out) : x.kind = "call" => Item("output", x.id) \in ToSet(R)
      /\ \E x \in ToSet(out) : FromAssistant(x)
  BY <1>2 DEF Answer
<1> HIDE DEF R
<1>4. fresh \in 0..MaxId /\ shown \in Seq(Items) /\ MaxId \in Nat
  BY DEF TypeOK, CodexAssumption
<1>5. fresh' \in 0..MaxId /\ fresh < fresh' /\ fresh <= fresh'
  BY <1>1, <1>3, <1>4
<1> DEFINE t == out \o R
<1>6. /\ t \in Seq(Items) /\ ToSet(t) = ToSet(out) \cup ToSet(R)
      /\ shown \o out \o R = shown \o t
  BY <1>3, <1>4, Joined, ConcatAssociative
<1>7. Once(t)
  <2>1. \A x \in ToSet(out) \cap ToSet(R) : ~Traced(x)
    BY <1>3 DEF FromAssistant
  <2> QED
    BY <1>3, <2>1, OnceJoined
<1>8. \A x \in ToSet(t) : Young(x)
  BY <1>1, <1>3, <1>6 DEF Young, FromAssistant
<1>9. CallsAnswered(t)
  BY <1>3
<1> HIDE DEF t
<1>10. Grown /\ ToSet(shown') = ToSet(shown) \cup ToSet(t)
  BY <1>1, <1>5, <1>6, <1>7, <1>8, <1>9, GrowsBy
<1>11. ASSUME asked' = "turn" PROVE shown' # <<>> /\ ~FromAssistant(Last(shown'))
  <2>1. R # <<>>
    BY <1>1, <1>11
  <2>2. Last(R) \in ToSet(R)
    BY <1>3, <2>1, LastItem
  <2>3. shown \o out \in Seq(Items)
    BY <1>3, <1>4, Joined
  <2>4. shown' # <<>> /\ Last(shown') = Last(R)
    BY <1>1, <1>3, <2>1, <2>3, LastJoined
  <2> QED
    BY <1>3, <2>2, <2>4 DEF FromAssistant
<1>12. \A x \in Unsaid(shown') : x.kind = "output" /\ x.id >= fresh
  <2>1. Unsaid(shown \o t) \subseteq Unsaid(t)
    BY <1>3, <1>4, <1>6, UnsaidJoined
  <2>2. \A x \in Unsaid(t) : x \in ToSet(t) /\ ~FromAssistant(x)
    BY <1>6, UnsaidItems
  <2> QED
    BY <1>1, <1>3, <1>6, <2>1, <2>2
<1>13. \A x \in ToSet(out) : x.kind = "call" => Item("output", x.id) \in ToSet(shown')
  BY <1>3, <1>6, <1>10
<1> QED
  BY <1>1, <1>2, <1>5, <1>10, <1>11, <1>12, <1>13

\* Claude receives a summary: it replaces everything but a result in flight.
LEMMA SummaryReceived ==
  ASSUME CodexAssumption, TypeOK, ClaudeInv, asked = "summary", NEW out \in Outputs, Receives(out)
  PROVE  /\ out = <<Item("reply", fresh + 1)>> /\ out \in Seq(Items)
         /\ ToSet(out) = {Item("reply", fresh + 1)} /\ Once(out)
         /\ fresh' = fresh + 2 /\ fresh' \in 0..MaxId
         /\ shown' \in Seq(Items) /\ Len(shown') <= MaxShown
         /\ Once(shown') /\ CallsAnswered(shown')
         /\ \A x \in ToSet(shown') : \/ x = Item("summary", fresh')
                                     \/ x \in ToSet(shown) /\ x.kind = "output"
         /\ asked' \in {"nothing", "turn"}
         /\ asked' = "turn" => shown' # <<>> /\ ~FromAssistant(Last(shown'))
<1>1. out = <<Item("reply", fresh + 1)>>
  BY DEF Outputs
<1>2. /\ fresh \in 0..MaxId /\ shown \in Seq(Items) /\ MaxId \in Nat /\ shown # <<>>
      /\ MaxShown \in Nat /\ MaxShown >= 2
  BY DEF TypeOK, CodexAssumption, ClaudeInv
<1> DEFINE sum == Item("summary", fresh + 2)
           last == Last(shown)
<1>3. /\ fresh' = fresh + 2 /\ fresh + 2 <= MaxId
      /\ \/ shown' = <<sum>> /\ asked' = "nothing"
         \/ last.kind = "output" /\ shown' = <<sum, last>> /\ asked' = "turn"
  BY DEF Receives
<1>4. fresh' \in 0..MaxId /\ fresh + 1 \in 0..MaxId
  BY <1>2, <1>3
<1>5. sum \in Items /\ sum.kind = "summary" /\ Item("reply", fresh + 1) \in Items
  <2>1. "summary" \in Kinds /\ "reply" \in Kinds
    BY DEF Kinds
  <2> QED
    BY <1>3, <1>4, <2>1, ItemIs
<1>6. last \in ToSet(shown) /\ last \in Items
  BY <1>2, LastItem
<1>7. out \in Seq(Items) /\ ToSet(out) = {Item("reply", fresh + 1)} /\ Once(out)
  <2>1. /\ <<Item("reply", fresh + 1)>> \in Seq(Items)
        /\ ToSet(<<Item("reply", fresh + 1)>>) = {Item("reply", fresh + 1)}
        /\ DOMAIN <<Item("reply", fresh + 1)>> = {1}
    BY <1>2, <1>5, Appended
  <2> QED
    BY <1>1, <2>1 DEF Once
<1> HIDE DEF sum, last
<1>8. <<sum>> \in Seq(Items) /\ Len(<<sum>>) = 1 /\ ToSet(<<sum>>) = {sum} /\ DOMAIN <<sum>> = {1}
  BY <1>2, <1>5, Appended
<1>9. Once(<<sum>>)
  BY <1>8 DEF Once
<1>10. CASE shown' = <<sum>> /\ asked' = "nothing"
  <2>1. \A x \in ToSet(shown') : x = sum
    BY <1>8, <1>10
  <2>2. CallsAnswered(shown')
    BY <1>5, <1>8, <1>10, <2>1, NothingToAnswer
  <2>3. shown' \in Seq(Items) /\ Len(shown') <= MaxShown /\ Once(shown')
    BY <1>2, <1>8, <1>9, <1>10
  <2>4. \A x \in ToSet(shown') : x = Item("summary", fresh')
    BY <1>3, <2>1 DEF sum
  <2> QED
    BY <1>1, <1>3, <1>4, <1>7, <1>10, <2>2, <2>3, <2>4
<1>11. CASE last.kind = "output" /\ shown' = <<sum, last>> /\ asked' = "turn"
  <2>1. <<last>> \in Seq(Items) /\ Len(<<last>>) = 1 /\ ToSet(<<last>>) = {last} /\ DOMAIN <<last>> = {1}
    BY <1>2, <1>6, Appended
  <2>2. Once(<<last>>)
    BY <2>1 DEF Once
  <2>3. Append(<<sum>>, last) = <<sum, last>>
    <3> DEFINE t == <<sum, last>>
               u == Append(<<sum>>, last)
    <3>1. t = [i \in 1..2 |-> t[i]] /\ t[1] = sum /\ t[2] = last
      OBVIOUS
    <3>2. u \in Seq(Items) /\ Len(u) = 2 /\ u[1] = <<sum>>[1] /\ u[2] = last
      <4>1. /\ u \in Seq(Items) /\ Len(u) = Len(<<sum>>) + 1 /\ u[Len(<<sum>>) + 1] = last
            /\ \A i \in 1..Len(<<sum>>) : u[i] = <<sum>>[i]
        BY <1>6, <1>8, AppendProperties
      <4> HIDE DEF u
      <4> QED
        BY <1>8, <4>1
    <3> HIDE DEF t, u
    <3>3. \A i \in 1..2 : i = 1 \/ i = 2
      OBVIOUS
    <3>4. <<sum>>[1] = sum
      OBVIOUS
    <3>5. t \in Seq(Items) /\ Len(t) = 2
      <4>1. \A i \in 1..2 : t[i] \in Items
        BY <1>5, <1>6, <3>1, <3>3
      <4> QED
        BY <3>1, <4>1, Transcript
    <3>6. \A i \in 1..2 : u[i] = t[i]
      BY <3>1, <3>2, <3>3, <3>4
    <3>7. u = t
      BY <3>2, <3>5, <3>6, SeqEqual
    <3> QED
      BY <3>7 DEF t, u
  <2>4. /\ shown' \in Seq(Items) /\ ToSet(shown') = {sum, last} /\ shown' = <<sum>> \o <<last>>
        /\ shown' # <<>> /\ Last(shown') = last
    <3>1. /\ Append(<<sum>>, last) \in Seq(Items)
          /\ ToSet(Append(<<sum>>, last)) = ToSet(<<sum>>) \cup {last}
          /\ Append(<<sum>>, last) = <<sum>> \o <<last>>
          /\ Append(<<sum>>, last) # <<>> /\ Last(Append(<<sum>>, last)) = last
      BY <1>6, <1>8, Appended
    <3> QED
      BY <1>8, <1>11, <2>3, <3>1
  <2>5. Len(shown') = 2
    BY <1>11
  <2>6. Once(shown')
    <3>1. \A x \in ToSet(<<sum>>) \cap ToSet(<<last>>) : ~Traced(x)
      BY <1>5, <1>8, <1>11, <2>1
    <3> QED
      BY <1>8, <1>9, <2>1, <2>2, <2>4, <3>1, OnceJoined
  <2>7. CallsAnswered(shown')
    <3>1. \A x \in ToSet(shown') : x.kind # "call"
      BY <1>5, <1>11, <2>4
    <3> QED
      BY <2>4, <3>1, Member DEF CallsAnswered
  <2>8. ~FromAssistant(last)
    BY <1>11 DEF FromAssistant
  <2>9. \A x \in ToSet(shown') : \/ x = Item("summary", fresh')
                                 \/ x \in ToSet(shown) /\ x.kind = "output"
    BY <1>3, <1>6, <1>11, <2>4 DEF sum
  <2> QED
    BY <1>1, <1>2, <1>3, <1>4, <1>7, <1>11, <2>4, <2>5, <2>6, <2>7, <2>8, <2>9
<1> QED
  BY <1>3, <1>10, <1>11

\* Claude gives an answer up: it says at most that it did, or runs the call of
\* a partial answer.
LEMMA GivenUp ==
  ASSUME CodexAssumption, TypeOK, ClaudeInv, Infers, GivesUp
  PROVE  /\ Grown
         /\ asked' \in {"nothing", "turn", "summary"}
         /\ asked' = "turn" => shown' # <<>> /\ ~FromAssistant(Last(shown'))
         /\ \A x \in Unsaid(shown') : x \in Unsaid(shown) \/ (x.kind = "output" /\ x.id >= fresh)
         /\ hooks' \in {"none", hooks}
         /\ asked' = "summary" <=> hooks' # "none"
         /\ hooks' # "none" => asked = "summary" /\ hooks' = hooks /\ fresh' = fresh /\ shown' = shown
<1>1. /\ fresh \in 0..MaxId /\ shown \in Seq(Items) /\ Len(shown) <= MaxShown /\ MaxId \in Nat
      /\ MaxShown \in Nat /\ Len(shown) \in Nat
  BY Member DEF TypeOK, CodexAssumption
<1>2. \/ asked = "summary" /\ hooks # "none"
      \/ asked = "turn" /\ hooks = "none"
  BY DEF Infers, ClaudeInv
<1>3. Once(shown) /\ CallsAnswered(shown)
  BY DEF ClaudeInv
<1>4. shown' = shown /\ fresh' = fresh => Grown
  BY <1>1, <1>3 DEF Grown
<1>5. CASE UNCHANGED <<client, hooks>>
  BY <1>2, <1>4, <1>5 DEF client, ClaudeInv
<1>6. CASE /\ asked = "summary"
           /\ asked' = "nothing" /\ hooks' = "none" /\ UNCHANGED <<shown, fresh>>
  BY <1>2, <1>4, <1>6
<1>7. ASSUME asked = "turn", fresh < MaxId, UNCHANGED hooks, fresh' = fresh + 1,
             NEW t \in Seq(Items), shown' = shown \o t, Len(shown) + Len(t) <= MaxShown,
             Once(t), CallsAnswered(t), t # <<>>,
             \A x \in ToSet(t) : x.kind \in {"reply", "call", "output"} /\ x.id = fresh,
             \E x \in ToSet(t) : FromAssistant(x),
             asked' = "nothing" \/ (asked' = "turn" /\ Last(t).kind = "output")
      PROVE  /\ Grown
             /\ asked' \in {"nothing", "turn", "summary"}
             /\ asked' = "turn" => shown' # <<>> /\ ~FromAssistant(Last(shown'))
             /\ \A x \in Unsaid(shown') : x \in Unsaid(shown) \/ (x.kind = "output" /\ x.id >= fresh)
             /\ hooks' \in {"none", hooks}
             /\ asked' = "summary" <=> hooks' # "none"
             /\ hooks' # "none" => asked = "summary" /\ hooks' = hooks /\ fresh' = fresh /\ shown' = shown
  <2>1. fresh' \in 0..MaxId /\ fresh < fresh' /\ fresh <= fresh'
    BY <1>1, <1>7
  <2>2. \A x \in ToSet(t) : Young(x)
    BY <1>1, <1>7, <2>1 DEF Young
  <2>3. Len(shown \o t) <= MaxShown
    BY <1>1, <1>7, Joined
  <2>4. Grown
    BY <1>7, <2>1, <2>2, <2>3, GrowsBy
  <2>5. Last(shown') = Last(t) /\ shown' # <<>>
    BY <1>1, <1>7, LastJoined
  <2>6. \A x \in Unsaid(shown') : x.kind = "output" /\ x.id >= fresh
    <3>1. Unsaid(shown \o t) \subseteq Unsaid(t)
      BY <1>1, <1>7, UnsaidJoined
    <3>2. \A x \in Unsaid(t) : x \in ToSet(t) /\ ~FromAssistant(x)
      BY <1>7, UnsaidItems
    <3> QED
      BY <1>1, <1>7, <3>1, <3>2 DEF FromAssistant
  <2> QED
    BY <1>2, <1>7, <2>4, <2>5, <2>6 DEF FromAssistant
<1> DEFINE reply == Item("reply", fresh)
           call == Item("call", fresh)
           output == Item("output", fresh)
<1>8. reply \in Items /\ call \in Items /\ output \in Items
  <2>1. "reply" \in Kinds /\ "call" \in Kinds /\ "output" \in Kinds
    BY DEF Kinds
  <2> QED
    BY <1>1, <2>1, ItemIs
<1>9. /\ reply.kind = "reply" /\ call.kind = "call" /\ output.kind = "output"
      /\ reply.id = fresh /\ call.id = fresh /\ output.id = fresh
  BY ItemIs
<1>10. output = Item("output", call.id)
  BY <1>9
<1> HIDE DEF reply, call, output
<1>11. /\ <<reply>> \in Seq(Items) /\ Len(<<reply>>) = 1 /\ ToSet(<<reply>>) = {reply}
       /\ DOMAIN <<reply>> = {1} /\ Append(shown, reply) = shown \o <<reply>>
  BY <1>1, <1>8, Appended
<1>12. CASE /\ asked = "turn" /\ Len(shown) < MaxShown /\ fresh < MaxId
            /\ shown' = Append(shown, reply) /\ fresh' = fresh + 1
            /\ asked' = "nothing" /\ UNCHANGED hooks
  <2>1. CallsAnswered(<<reply>>)
    BY <1>9, <1>11, NothingToAnswer
  <2>2. Once(<<reply>>) /\ <<reply>> # <<>>
    BY <1>11 DEF Once
  <2>3. Len(shown) + Len(<<reply>>) <= MaxShown
    BY <1>1, <1>11, <1>12
  <2>4. /\ \A x \in ToSet(<<reply>>) : x.kind \in {"reply", "call", "output"} /\ x.id = fresh
        /\ \E x \in ToSet(<<reply>>) : FromAssistant(x)
    BY <1>9, <1>11 DEF FromAssistant
  <2>5. shown' = shown \o <<reply>>
    BY <1>11, <1>12
  <2> QED
    BY <1>7, <1>11, <1>12, <2>1, <2>2, <2>3, <2>4, <2>5
<1>13. CASE /\ asked = "turn" /\ Len(shown) + 2 <= MaxShown /\ fresh < MaxId
            /\ shown' = shown \o <<call, output>> /\ fresh' = fresh + 1
            /\ UNCHANGED <<asked, hooks>>
  <2> DEFINE t == <<call, output>>
  <2>1. t = [i \in 1..2 |-> t[i]] /\ t[1] = call /\ t[2] = output /\ Len(t) = 2 /\ t # <<>>
    OBVIOUS
  <2> HIDE DEF t
  <2>2. \A i \in 1..2 : i = 1 \/ i = 2
    OBVIOUS
  <2>3. \A i \in 1..2 : t[i] \in Items
    BY <1>8, <2>1, <2>2
  <2>4. t \in Seq(Items) /\ DOMAIN t = 1..2
    BY <2>1, <2>3, Transcript
  <2>5. ToSet(t) = {call, output}
    <3>1. 1 \in 1..2 /\ 2 \in 1..2
      OBVIOUS
    <3> QED
      BY <2>1, <2>2, <2>4, <3>1 DEF ToSet
  <2>6. Once(t)
    BY <1>9, <2>1, <2>2, <2>4 DEF Once
  <2>7. CallsAnswered(t)
    <3>1. SUFFICES ASSUME NEW i \in 1..2, t[i].kind = "call"
                   PROVE  \E j \in 1..2 : j > i /\ t[j] = Item("output", t[i].id)
      BY <2>4 DEF CallsAnswered
    <3>2. i = 1
      BY <1>9, <2>1, <2>2, <3>1
    <3>3. 2 \in 1..2 /\ 2 > i
      BY <3>2
    <3> QED
      BY <1>10, <2>1, <3>2, <3>3
  <2>8. /\ \A x \in ToSet(t) : x.kind \in {"reply", "call", "output"} /\ x.id = fresh
        /\ \E x \in ToSet(t) : FromAssistant(x)
    BY <1>9, <2>5 DEF FromAssistant
  <2>9. Last(t).kind = "output"
    BY <1>9, <2>1 DEF Last
  <2>10. shown' = shown \o t
    BY <1>13 DEF t
  <2> QED
    BY <1>7, <1>13, <2>1, <2>4, <2>6, <2>7, <2>8, <2>9, <2>10
<1>14. \/ UNCHANGED <<client, hooks>>
       \/ /\ asked = "turn" /\ Len(shown) < MaxShown /\ fresh < MaxId
          /\ shown' = Append(shown, reply) /\ fresh' = fresh + 1
          /\ asked' = "nothing" /\ UNCHANGED hooks
       \/ /\ asked = "turn" /\ Len(shown) + 2 <= MaxShown /\ fresh < MaxId
          /\ shown' = shown \o <<call, output>> /\ fresh' = fresh + 1
          /\ UNCHANGED <<asked, hooks>>
       \/ /\ asked = "summary"
          /\ asked' = "nothing" /\ hooks' = "none" /\ UNCHANGED <<shown, fresh>>
  BY DEF GivesUp, reply, call, output
<1> QED
  BY <1>5, <1>6, <1>12, <1>13, <1>14

-----------------------------------------------------------------------------
(* The invariant is inductive *)

\* Results keep their calls when transcripts are joined.
LEMMA ResultsCalledJoined ==
  ASSUME NEW s \in Seq(Items), NEW t \in Seq(Items), ResultsCalled(s),
         \A x \in ToSet(t) : x.kind # "output"
  PROVE  ResultsCalled(s \o t)
<1> DEFINE b == s \o t
<1>1. /\ \A i \in DOMAIN s : i \in DOMAIN b /\ b[i] = s[i]
      /\ \A i \in DOMAIN b : \/ i \in DOMAIN s /\ b[i] = s[i]
                             \/ i - Len(s) \in DOMAIN t /\ b[i] = t[i - Len(s)]
  BY Joined
<1>2. \A i \in DOMAIN t : t[i] \in ToSet(t)
  BY Member
<1> HIDE DEF b
<1>3. SUFFICES ASSUME NEW j \in DOMAIN b, b[j].kind = "output"
               PROVE  \E i \in DOMAIN b : i < j /\ b[i] = Item("call", b[j].id)
  BY DEF ResultsCalled, b
<1>4. j \in DOMAIN s /\ b[j] = s[j]
  BY <1>1, <1>2, <1>3
<1>5. PICK i \in DOMAIN s : i < j /\ s[i] = Item("call", s[j].id)
  BY <1>3, <1>4 DEF ResultsCalled
<1> QED
  BY <1>1, <1>4, <1>5

\* A call of an answered transcript has its result in it.
LEMMA AnsweredCalls ==
  ASSUME NEW s \in Seq(Items), CallsAnswered(s), NEW x \in ToSet(s), x.kind = "call"
  PROVE  Item("output", x.id) \in ToSet(s)
<1>1. PICK i \in DOMAIN s : s[i] = x
  BY Member
<1>2. PICK j \in DOMAIN s : s[j] = Item("output", x.id)
  BY <1>1 DEF CallsAnswered
<1> QED
  BY <1>2, Member

\* Nothing, and a compacted history, fit any transcript of Claude's.
LEMMA NothingFits ==
  ASSUME CodexAssumption, NEW s \in Seq(Items), \A x \in ToSet(s) : Traced(x)
  PROVE  /\ <<>> \in Seq(Items) /\ ToSet(<<>>) = {} /\ Len(<<>>) = 0
         /\ Once(<<>>) /\ ResultsCalled(<<>>) /\ Fitting(<<>>, s)
         /\ Once(Opaque) /\ ResultsCalled(Opaque) /\ Fitting(Opaque, s)
<1>1. <<>> \in Seq(Items) /\ Len(<<>>) = 0 /\ ToSet(<<>>) = {} /\ Once(<<>>) /\ ResultsCalled(<<>>)
  BY EmptySeq DEF ToSet, Once, ResultsCalled
<1>2. Fitting(<<>>, s)
  BY <1>1 DEF Fitting
<1>3. Opaque \in Seq(Items) /\ Once(Opaque) /\ \A x \in ToSet(Opaque) : x.kind = "opaque"
  BY OpaqueItem, ItemIs
<1>4. ResultsCalled(Opaque)
  BY <1>3, NothingToAnswer
<1>5. Fitting(Opaque, s)
  BY <1>3, <1>4, UnsaidItems DEF Fitting, Traced
<1> QED
  BY <1>1, <1>2, <1>3, <1>4, <1>5

\* The ids of a transcript are numbers.
LEMMA NumberIds ==
  ASSUME CodexAssumption, NEW s \in Seq(Items)
  PROVE  \A x \in ToSet(s) : x.id \in Int
  BY Member, ItemIs DEF CodexAssumption

\* So are those of the state.
LEMMA ItemIds ==
  ASSUME CodexAssumption, TypeOK
  PROVE  /\ \A x \in ToSet(history) \cup ToSet(shown) \cup lost : x.id \in Int
         /\ fresh \in Int /\ floor \in Int /\ MaxId \in Int
  BY Member, ItemIs DEF TypeOK, CodexAssumption

\* What a growing transcript of Claude's keeps.
LEMMA GrownKeeps ==
  ASSUME CodexAssumption, TypeOK, ClaudeInv, ReplayInv, BridgeInv, Grown
  PROVE  /\ \A x \in ToSet(shown') : Old(x)' /\ Traced(x)
         /\ \A x \in ToSet(shown') : x.id >= floor \/ x.kind = "output"
         /\ \A x \in lost : x.id < fresh' /\ FromAssistant(x) /\ x \notin ToSet(shown')
         /\ \A x \in ToSet(history) : Old(x)'
<1>1. fresh \in Int /\ fresh' \in Int /\ floor \in Int /\ fresh <= fresh' /\ floor <= fresh
  BY ItemIds DEF Grown, BridgeInv
<1>2. \A x \in ToSet(history) \cup ToSet(shown) \cup lost : x.id \in Int
  BY ItemIds
<1>3. \A x \in ToSet(shown') : x \in ToSet(shown) \/ Young(x)
  BY DEF Grown
<1>4. \A x \in ToSet(shown') : x \notin ToSet(shown) => x.id \in Int
  BY Member, ItemIs DEF Grown
<1>5. \A x \in ToSet(history) \cup ToSet(shown) : Old(x) => Old(x)'
  BY <1>1, <1>2 DEF Old
<1>6. \A x : Young(x) => Old(x)' /\ Traced(x) /\ x.id >= fresh
  BY DEF Young, Old, Traced
<1>7. \A x \in ToSet(shown') : Old(x)' /\ Traced(x)
  BY <1>3, <1>5, <1>6 DEF ClaudeInv
<1>8. \A x \in ToSet(shown') : x.id >= floor \/ x.kind = "output"
  BY <1>1, <1>3, <1>4, <1>6 DEF ReplayInv
<1>9. \A x \in lost : x.id < fresh' /\ FromAssistant(x) /\ x \notin ToSet(shown')
  <2>1. SUFFICES ASSUME NEW x \in lost
                 PROVE  x.id < fresh' /\ FromAssistant(x) /\ x \notin ToSet(shown')
    OBVIOUS
  <2>2. x.id < fresh /\ FromAssistant(x) /\ x \notin ToSet(shown)
    BY DEF BridgeInv
  <2>3. x.id \in Int /\ ~(x.id >= fresh)
    BY <1>1, <1>2, <2>2
  <2> QED
    BY <1>1, <1>3, <1>6, <2>2, <2>3
<1>10. \A x \in ToSet(history) : Old(x)'
  BY <1>5 DEF BridgeInv
<1> QED
  BY <1>7, <1>8, <1>9, <1>10

\* What a turn commits: nothing twice, each result after its call, nothing that
\* was replaced, nothing newer than the answer.
Commits(a, out, items) ==
  /\ items \in Seq(Items)
  /\ ToSet(items) = ToSet(a.base) \cup ToSet(a.turn) \cup ToSet(out)
  /\ \A x \in ToSet(items) : x.id < fresh' \/ x.kind = "opaque"
  /\ \A x \in ToSet(items) \ ToSet(out) :
        \/ Old(x)
        \/ asked = "summary" /\ x = Item("prompt", fresh)
  /\ Straight("codex") /\ ~missed => \A x \in ToSet(items) : Traced(x) => x.id >= floor
  /\ Straight("codex") /\ ~missed /\ lost \cap ToSet(items) = {} =>
        /\ Once(items) /\ ResultsCalled(items)
        /\ \A x \in ToSet(items) : x.kind = "call" =>
              x \in ToSet(out) \/ Item("output", x.id) \in ToSet(items)

\* That is what an answer to any attempt of a turn commits.
LEMMA Committed ==
  ASSUME CodexAssumption, TurnInv, Infers, NEW a \in Attempts(Entered("codex").items),
         NEW out \in Seq(Items), Once(out), fresh' \in Int, fresh < fresh',
         \A x \in ToSet(out) : FromAssistant(x) /\ x.id >= fresh /\ x.id < fresh',
         NEW items, items = a.base \o a.turn \o out
  PROVE  Commits(a, out, items)
<1> DEFINE b == a.base \o a.turn
<1>1. TypeOK /\ ClaudeInv /\ ReplayInv /\ BridgeInv
  BY DEF TurnInv
<1>2. fresh \in Int /\ floor \in Int /\ floor <= fresh
  BY <1>1, ItemIds DEF BridgeInv
<1>3. /\ a.base \in Seq(Items) /\ a.turn \in Seq(Items)
      /\ \A x \in ToSet(a.base) : Old(x)
      /\ \A x \in ToSet(a.turn) :
            \/ Old(x) /\ x.kind # "opaque"
            \/ asked = "summary" /\ x = Item("prompt", fresh)
      /\ Straight("codex") /\ ~missed =>
            \A x \in ToSet(a.base) \cup ToSet(a.turn) : Traced(x) => x.id >= floor
      /\ Straight("codex") /\ ~missed /\ lost \cap ToSet(a.base) = {} =>
            Once(b) /\ ResultsCalled(b) /\ CallsAnswered(b)
  BY Taken
<1>4. b \in Seq(Items) /\ ToSet(b) = ToSet(a.base) \cup ToSet(a.turn)
  BY <1>3, Joined
<1>5. items = b \o out
  OBVIOUS
<1> HIDE DEF b
<1>6. items \in Seq(Items) /\ ToSet(items) = ToSet(b) \cup ToSet(out)
  BY <1>4, <1>5, Joined
<1>7. \A x \in ToSet(items) : x.id \in Int
  BY <1>6, NumberIds
<1>8. \A x \in ToSet(b) : Old(x) \/ (asked = "summary" /\ x = Item("prompt", fresh))
  BY <1>3, <1>4
<1>9. \A x \in ToSet(items) : x.id < fresh' \/ x.kind = "opaque"
  BY <1>2, <1>6, <1>7, <1>8, ItemIs DEF Old
<1>10. \A x \in ToSet(b) \cap ToSet(out) : ~Traced(x)
  BY <1>2, <1>6, <1>7, <1>8, ItemIs DEF Old, FromAssistant
<1>11. ASSUME Straight("codex"), ~missed PROVE \A x \in ToSet(items) : Traced(x) => x.id >= floor
  BY <1>2, <1>3, <1>4, <1>6, <1>7, <1>11
<1>12. ASSUME Straight("codex"), ~missed, lost \cap ToSet(items) = {}
       PROVE  /\ Once(items) /\ ResultsCalled(items)
              /\ \A x \in ToSet(items) : x.kind = "call" =>
                    x \in ToSet(out) \/ Item("output", x.id) \in ToSet(items)
  <2>1. Once(b) /\ ResultsCalled(b) /\ CallsAnswered(b)
    BY <1>3, <1>4, <1>6, <1>12
  <2>2. Once(items)
    BY <1>4, <1>5, <1>10, <2>1, OnceJoined
  <2>3. ResultsCalled(items)
    <3>1. \A x \in ToSet(out) : x.kind # "output"
      BY DEF FromAssistant
    <3> QED
      BY <1>4, <1>5, <2>1, <3>1, ResultsCalledJoined
  <2>4. \A x \in ToSet(b) : x.kind = "call" => Item("output", x.id) \in ToSet(b)
    BY <1>4, <2>1, AnsweredCalls
  <2> QED
    BY <1>6, <2>2, <2>3, <2>4
<1> QED
  BY <1>4, <1>6, <1>8, <1>9, <1>11, <1>12 DEF Commits

\* Entering a route leaves the flags of a compaction under way as they are,
\* unless that undoes the compaction.
LEMMA Enters ==
  ASSUME TypeOK, BridgeInv, NEW x \in {"codex", "other"}, Enter(x)
  PROVE  /\ route' = x /\ crossed' \in BOOLEAN /\ (~crossed' <=> Straight(x))
         /\ Entered(x).flag \in BOOLEAN
         /\ hooks # "none" /\ ~crossed' => Entered(x).flag = pendingReset
  BY EntersHistory DEF Enter, Straight, TypeOK

\* An answer to a turn of Claude's is committed, and received.
LEMMA TurnDoneKeeps ==
  ASSUME CodexAssumption, TurnInv, TurnDone, asked = "turn"
  PROVE  TurnInv'
<1>1. TypeOK /\ ClaudeInv /\ ReplayInv /\ BridgeInv /\ FittingInv
  BY DEF TurnInv
<1>2. /\ Infers /\ Enter("codex") /\ rejected' = FALSE
      /\ UNCHANGED <<hooks, floor, lost, missed>>
  BY DEF TurnDone
<1>3. PICK a \in Attempts(Entered("codex").items), out \in Outputs :
        Valid(a.sent) /\ Commit(a, out, Entered("codex").flag) /\ Receives(out)
  BY DEF TurnDone
<1>4. hooks = "none" /\ hooks' = "none"
  BY <1>2 DEF Infers
<1>5. /\ route' = "codex" /\ crossed' \in BOOLEAN /\ (~crossed' <=> Straight("codex"))
      /\ Entered("codex").flag \in BOOLEAN
  BY <1>1, <1>2, Enters
<1>6. /\ Grown /\ Answer(out) /\ fresh' = fresh + Len(out) /\ fresh < fresh'
      /\ asked' \in {"nothing", "turn"}
      /\ asked' = "turn" => shown' # <<>> /\ ~FromAssistant(Last(shown'))
      /\ \A x \in Unsaid(shown') : x.kind = "output" /\ x.id >= fresh
      /\ \A x \in ToSet(out) : x.kind = "call" => Item("output", x.id) \in ToSet(shown')
  BY <1>1, <1>3, AnswerReceived
<1>7. /\ \A x \in ToSet(shown') : Old(x)' /\ Traced(x)
      /\ \A x \in ToSet(shown') : x.id >= floor \/ x.kind = "output"
      /\ \A x \in lost : x.id < fresh' /\ FromAssistant(x) /\ x \notin ToSet(shown')
  BY <1>1, <1>6, GrownKeeps
<1>8. /\ fresh \in Int /\ fresh' \in Int /\ floor \in Int /\ floor <= fresh /\ fresh' \in 0..MaxId
      /\ shown' \in Seq(Items) /\ Len(shown') <= MaxShown /\ Once(shown') /\ CallsAnswered(shown')
  BY <1>1, <1>6, ItemIds DEF Grown, BridgeInv
<1> DEFINE items == a.base \o a.turn \o out
<1>9. /\ out \in Seq(Items) /\ Once(out) /\ fresh < fresh' /\ fresh' \in Int
      /\ \A x \in ToSet(out) : FromAssistant(x) /\ x.id >= fresh /\ x.id < fresh'
  BY <1>6, <1>8 DEF Answer
<1>items. items = a.base \o a.turn \o out
  OBVIOUS
<1> HIDE DEF items
<1>10. /\ items \in Seq(Items)
       /\ ToSet(items) = ToSet(a.base) \cup ToSet(a.turn) \cup ToSet(out)
       /\ \A x \in ToSet(items) : x.id < fresh' \/ x.kind = "opaque"
       /\ \A x \in ToSet(items) \ ToSet(out) :
             \/ Old(x)
             \/ asked = "summary" /\ x = Item("prompt", fresh)
       /\ Straight("codex") /\ ~missed => \A x \in ToSet(items) : Traced(x) => x.id >= floor
       /\ Straight("codex") /\ ~missed /\ lost \cap ToSet(items) = {} =>
             /\ Once(items) /\ ResultsCalled(items)
             /\ \A x \in ToSet(items) : x.kind = "call" =>
                   x \in ToSet(out) \/ Item("output", x.id) \in ToSet(items)
  <2>1. Infers /\ a \in Attempts(Entered("codex").items)
    BY <1>2, <1>3
  <2>2. Commits(a, out, items)
    BY <1>9, <1>items, <2>1, Committed
  <2> QED
    BY <2>2 DEF Commits
<1>11. \/ history' = items /\ Len(items) <= MaxItems /\ pendingReset' = Entered("codex").flag
       \/ history' = <<>> /\ pendingReset' = FALSE
  BY <1>3, <1>items DEF Commit, Fits
<1>12. /\ <<>> \in Seq(Items) /\ ToSet(<<>>) = {} /\ Len(<<>>) = 0
       /\ Once(<<>>) /\ ResultsCalled(<<>>) /\ Fitting(<<>>, shown')
  BY <1>7, <1>8, NothingFits
<1>13. history' = <<>> \/ history' = items
  BY <1>11
<1>14. TypeOK'
  <2>1. history' \in Seq(Items) /\ Len(history') <= MaxItems /\ pendingReset' \in BOOLEAN
    <3>1. 0 <= MaxItems
      BY DEF CodexAssumption
    <3>2. CASE history' = items /\ Len(items) <= MaxItems /\ pendingReset' = Entered("codex").flag
      BY <1>5, <1>10, <3>2
    <3>3. CASE history' = <<>> /\ pendingReset' = FALSE
      BY <1>12, <3>1, <3>3
    <3> QED
      BY <1>11, <3>2, <3>3
  <2> QED
    BY <1>1, <1>2, <1>5, <1>6, <1>8, <2>1 DEF TypeOK
<1>15. ClaudeInv'
  BY <1>4, <1>6, <1>7, <1>8 DEF ClaudeInv
<1>16. ReplayInv'
  BY <1>2, <1>4, <1>5, <1>7, <1>10, <1>12, <1>13 DEF ReplayInv
<1>17. BridgeInv'
  <2>1. \A x \in ToSet(history') : Old(x)'
    BY <1>10, <1>12, <1>13 DEF Old
  <2>2. floor' <= fresh'
    BY <1>2, <1>8, <1>9
  <2>3. \A x \in lost' : x.id < fresh' /\ FromAssistant(x) /\ x \notin ToSet(shown')
    BY <1>2, <1>7
  <2> QED
    BY <1>4, <1>5, <2>1, <2>2, <2>3 DEF BridgeInv
<1>18. FittingInv'
  <2>1. SUFFICES ASSUME Clean'
                 PROVE  Once(history') /\ ResultsCalled(history') /\ Fitting(history', shown')
    BY DEF FittingInv, Fitting, Once, ResultsCalled, Unsaid
  <2>2. Straight("codex") /\ ~missed /\ lost \cap ToSet(history') = {}
    BY <1>2, <1>5, <2>1 DEF Clean
  <2>3. CASE history' = <<>>
    BY <1>12, <2>3
  <2>4. CASE history' = items
    <3>1. /\ Once(items) /\ ResultsCalled(items)
          /\ \A x \in ToSet(items) : x.kind = "call" =>
                x \in ToSet(out) \/ Item("output", x.id) \in ToSet(items)
      BY <1>10, <2>2, <2>4
    <3>2. \A x \in ToSet(items) : x.kind = "output" => x.id < fresh
      BY <1>9, <1>10, ItemIs DEF Old, FromAssistant
    <3>3. Unsaid(shown') \cap ToSet(items) = {}
      <4>1. \A x \in ToSet(items) : x.id \in Int
        BY <1>10, NumberIds
      <4> QED
        BY <1>6, <1>8, <3>2, <4>1
    <3> QED
      BY <1>6, <2>4, <3>1, <3>3 DEF Fitting
  <2> QED
    BY <1>13, <2>3, <2>4
<1>19. RejectedOnlyAfterLoss'
  BY <1>2 DEF RejectedOnlyAfterLoss
<1> QED
  BY <1>14, <1>15, <1>16, <1>17, <1>18, <1>19 DEF TurnInv

\* What a summary that Claude received keeps.
LEMMA SummaryKeeps ==
  ASSUME CodexAssumption, TypeOK, ClaudeInv, BridgeInv, asked = "summary",
         NEW out \in Outputs, Receives(out)
  PROVE  /\ \A x \in ToSet(shown') : /\ Old(x)' /\ Traced(x)
                                     /\ x.id >= floor \/ x.kind = "output"
                                     /\ x.id >= fresh' \/ x.kind = "output"
         /\ \A x \in lost : x.id < fresh' /\ FromAssistant(x) /\ x \notin ToSet(shown')
         /\ floor <= fresh' /\ fresh < fresh' /\ fresh \in Int
<1>1. /\ fresh' = fresh + 2
      /\ \A x \in ToSet(shown') : \/ x = Item("summary", fresh')
                                  \/ x \in ToSet(shown) /\ x.kind = "output"
  BY SummaryReceived
<1>2. /\ fresh \in Int /\ fresh' \in Int /\ floor \in Int /\ floor <= fresh /\ fresh < fresh'
      /\ \A x \in ToSet(shown) \cup lost : x.id \in Int
  BY <1>1, ItemIds DEF BridgeInv
<1>3. \A x \in ToSet(shown') : /\ Old(x)' /\ Traced(x)
                               /\ x.id >= floor \/ x.kind = "output"
                               /\ x.id >= fresh' \/ x.kind = "output"
  <2>1. SUFFICES ASSUME NEW x \in ToSet(shown')
                 PROVE  /\ Old(x)' /\ Traced(x)
                        /\ x.id >= floor \/ x.kind = "output"
                        /\ x.id >= fresh' \/ x.kind = "output"
    OBVIOUS
  <2>2. CASE x = Item("summary", fresh')
    BY <1>2, <2>2, ItemIs DEF Old, Traced
  <2>3. CASE x \in ToSet(shown) /\ x.kind = "output"
    BY <1>2, <2>3 DEF ClaudeInv, Old, Traced
  <2> QED
    BY <1>1, <2>1, <2>2, <2>3
<1>4. \A x \in lost : x.id < fresh' /\ FromAssistant(x) /\ x \notin ToSet(shown')
  <2>1. \A x \in lost : x.id < fresh' /\ FromAssistant(x) /\ x \notin ToSet(shown)
    BY <1>2 DEF BridgeInv
  <2>2. \A x \in ToSet(shown') : FromAssistant(x) => x \in ToSet(shown)
    BY <1>1, ItemIs DEF FromAssistant
  <2> QED
    BY <2>1, <2>2
<1>5. floor <= fresh'
  BY <1>2
<1> QED
  BY <1>2, <1>3, <1>4, <1>5

\* A summary is committed, and received.
LEMMA SummaryDoneKeeps ==
  ASSUME CodexAssumption, TurnInv, TurnDone, asked = "summary"
  PROVE  TurnInv'
<1>1. TypeOK /\ ClaudeInv /\ ReplayInv /\ BridgeInv /\ FittingInv
  BY DEF TurnInv
<1>2. /\ Infers /\ Enter("codex") /\ rejected' = FALSE
      /\ UNCHANGED <<hooks, floor, lost, missed>>
  BY DEF TurnDone
<1>3. PICK a \in Attempts(Entered("codex").items), out \in Outputs :
        Valid(a.sent) /\ Commit(a, out, Entered("codex").flag) /\ Receives(out)
  BY DEF TurnDone
<1>4. hooks # "none" /\ hooks' = hooks /\ hooks' \in {"none", "provider", "fallback", "missed"}
  BY <1>1, <1>2 DEF ClaudeInv, TypeOK
<1>5. /\ route' = "codex" /\ crossed' \in BOOLEAN /\ (~crossed' <=> Straight("codex"))
      /\ Entered("codex").flag \in BOOLEAN
      /\ ~crossed' => Entered("codex").flag = pendingReset
  BY <1>1, <1>2, <1>4, Enters
<1> DEFINE reply == Item("reply", fresh + 1)
<1>6. /\ out \in Seq(Items) /\ ToSet(out) = {reply} /\ Once(out)
      /\ fresh' = fresh + 2 /\ fresh' \in 0..MaxId
      /\ shown' \in Seq(Items) /\ Len(shown') <= MaxShown
      /\ Once(shown') /\ CallsAnswered(shown')
      /\ \A x \in ToSet(shown') : \/ x = Item("summary", fresh')
                                  \/ x \in ToSet(shown) /\ x.kind = "output"
      /\ asked' \in {"nothing", "turn"}
      /\ asked' = "turn" => shown' # <<>> /\ ~FromAssistant(Last(shown'))
  BY <1>1, <1>3, SummaryReceived
<1>7. /\ fresh \in Int /\ fresh' \in Int /\ floor \in Int /\ floor <= fresh /\ fresh < fresh'
  BY <1>1, <1>6, ItemIds DEF BridgeInv
<1>8. reply.kind = "reply" /\ reply.id = fresh + 1 /\ FromAssistant(reply)
  BY ItemIs DEF FromAssistant
<1> DEFINE items == a.base \o a.turn \o out
<1>items. items = a.base \o a.turn \o out
  OBVIOUS
<1> HIDE DEF items, reply
<1>9. Commits(a, out, items)
  <2>1. \A x \in ToSet(out) : FromAssistant(x) /\ x.id >= fresh /\ x.id < fresh'
    BY <1>6, <1>7, <1>8
  <2>2. /\ out \in Seq(Items) /\ Once(out) /\ fresh' \in Int /\ fresh < fresh'
        /\ Infers /\ a \in Attempts(Entered("codex").items)
    BY <1>2, <1>3, <1>6, <1>7
  <2> QED
    BY <1>items, <2>1, <2>2, Committed
<1>10. /\ items \in Seq(Items)
       /\ ToSet(items) = ToSet(a.base) \cup ToSet(a.turn) \cup ToSet(out)
       /\ \A x \in ToSet(items) : x.id < fresh' \/ x.kind = "opaque"
       /\ Straight("codex") /\ ~missed => \A x \in ToSet(items) : Traced(x) => x.id >= floor
       /\ Straight("codex") /\ ~missed /\ lost \cap ToSet(items) = {} =>
             Once(items) /\ ResultsCalled(items)
  BY <1>9 DEF Commits
<1>11. \/ history' = items /\ Len(items) <= MaxItems /\ pendingReset' = Entered("codex").flag
       \/ history' = <<>> /\ pendingReset' = FALSE
  BY <1>3, <1>items DEF Commit, Fits
<1>12. /\ <<>> \in Seq(Items) /\ ToSet(<<>>) = {} /\ Len(<<>>) = 0
       /\ Once(<<>>) /\ ResultsCalled(<<>>)
  BY EmptySeq DEF ToSet, Once, ResultsCalled
<1>13. history' = <<>> \/ history' = items
  BY <1>11
<1>14. TypeOK'
  <2>1. history' \in Seq(Items) /\ Len(history') <= MaxItems /\ pendingReset' \in BOOLEAN
    <3>1. 0 <= MaxItems
      BY DEF CodexAssumption
    <3>2. CASE history' = items /\ Len(items) <= MaxItems /\ pendingReset' = Entered("codex").flag
      BY <1>5, <1>10, <3>2
    <3>3. CASE history' = <<>> /\ pendingReset' = FALSE
      BY <1>12, <3>1, <3>3
    <3> QED
      BY <1>11, <3>2, <3>3
  <2> QED
    BY <1>1, <1>2, <1>5, <1>6, <2>1 DEF TypeOK
<1>15. /\ \A x \in ToSet(shown') : /\ Old(x)' /\ Traced(x)
                                   /\ x.id >= floor \/ x.kind = "output"
                                   /\ x.id >= fresh' \/ x.kind = "output"
       /\ \A x \in lost : x.id < fresh' /\ FromAssistant(x) /\ x \notin ToSet(shown')
  BY <1>1, <1>3, SummaryKeeps
<1>16. ClaudeInv'
  BY <1>6, <1>15 DEF ClaudeInv
<1>17. ReplayInv'
  <2>1. ~crossed' => ~crossed
    BY <1>5 DEF Straight
  <2>2. hooks' = "fallback" /\ ~crossed' => pendingReset' \/ history' = <<>>
    BY <1>1, <1>4, <1>5, <1>11, <2>1 DEF ReplayInv
  <2>3. ~crossed' /\ ~missed' => \A x \in ToSet(history') : Traced(x) => x.id >= floor'
    BY <1>2, <1>5, <1>10, <1>12, <1>13
  <2> QED
    BY <1>2, <1>6, <1>15, <2>2, <2>3 DEF ReplayInv
<1>18. BridgeInv'
  <2>1. \A x \in ToSet(history') : x.id < fresh' \/ x.kind = "opaque"
    BY <1>10, <1>12, <1>13
  <2>2. floor' <= fresh'
    BY <1>2, <1>7
  <2>3. \A x \in lost' : x.id < fresh' /\ FromAssistant(x) /\ x \notin ToSet(shown')
    BY <1>2, <1>15
  <2>4. ASSUME hooks' = "provider", ~crossed'
        PROVE  \A x \in ToSet(history') : x.kind \notin {"call", "output"}
    <3>1. a.base = Opaque /\ \A x \in ToSet(a.turn) : x.kind # "call" /\ x.kind # "output"
      <4>1. a.base = Opaque
        BY <1>2, <1>3, <1>4, <1>5, <2>4, Taken
      <4>2. /\ a.base # <<>> => \A x \in ToSet(a.turn) : x.kind # "call"
            /\ a.base = Opaque => \A x \in ToSet(a.turn) : x.kind # "output"
        BY <1>2, <1>3, Taken
      <4> QED
        BY <4>1, <4>2, OpaqueItem
    <3>2. \A x \in ToSet(a.base) : x.kind = "opaque"
      BY <3>1, OpaqueItem, ItemIs
    <3>3. \A x \in ToSet(items) : x.kind \notin {"call", "output"}
      BY <1>6, <1>8, <1>10, <3>1, <3>2
    <3> QED
      BY <1>12, <1>13, <3>3
  <2>5. hooks' = "missed" => missed'
    BY <1>1, <1>2 DEF BridgeInv
  <2>6. route' = "codex" /\ asked' # "summary"
    BY <1>5, <1>6
  <2>7. \A x \in ToSet(history') : Old(x)'
    BY <2>1 DEF Old
  <2> QED
    BY <2>1, <2>2, <2>3, <2>4, <2>5, <2>6, <2>7 DEF BridgeInv
<1>19. FittingInv'
  <2>1. SUFFICES ASSUME Clean'
                 PROVE  Once(history') /\ ResultsCalled(history')
    BY <1>4, <1>6 DEF FittingInv, Once, ResultsCalled
  <2>2. Straight("codex") /\ ~missed /\ lost \cap ToSet(history') = {}
    BY <1>2, <1>5, <2>1 DEF Clean
  <2> QED
    BY <1>10, <1>12, <1>13, <2>2
<1>20. RejectedOnlyAfterLoss'
  BY <1>2 DEF RejectedOnlyAfterLoss
<1> QED
  BY <1>14, <1>16, <1>17, <1>18, <1>19, <1>20 DEF TurnInv

\* A fit outlives what Claude adds of its own: prompts and results with new ids.
LEMMA FitGrows ==
  ASSUME CodexAssumption, TypeOK, BridgeInv, Grown, Fitting(history, shown),
         \A x \in Unsaid(shown') : x \in Unsaid(shown) \/ (x.kind \in {"prompt", "output"} /\ x.id >= fresh)
  PROVE  Fitting(history, shown')
<1>1. \A x \in ToSet(history) : x.id \in Int /\ fresh \in Int
  BY ItemIds
<1>2. \A x \in ToSet(history) : ~(x.kind \in {"prompt", "output"} /\ x.id >= fresh)
  BY <1>1 DEF BridgeInv, Old
<1>3. Unsaid(shown') \cap ToSet(history) = {}
  BY <1>2 DEF Fitting
<1> QED
  BY <1>3 DEF Fitting, Grown

\* A turn that is given up keeps at most a compaction.
LEMMA GivenUpKeeps ==
  ASSUME CodexAssumption, TurnInv, Infers, Enter("codex"), GivesUp,
         NEW a \in Attempts(Entered("codex").items),
         history' = a.base, pendingReset' = Entered("codex").flag,
         UNCHANGED <<floor, lost, missed>>, rejected' \in BOOLEAN, rejected' => ~Valid(a.sent)
  PROVE  TurnInv'
<1>1. TypeOK /\ ClaudeInv /\ ReplayInv /\ BridgeInv /\ FittingInv
  BY DEF TurnInv
<1>2. /\ route' = "codex" /\ crossed' \in BOOLEAN /\ (~crossed' <=> Straight("codex"))
      /\ Entered("codex").flag \in BOOLEAN
      /\ hooks # "none" /\ ~crossed' => Entered("codex").flag = pendingReset
  BY <1>1, Enters
<1>3. /\ Grown
      /\ asked' \in {"nothing", "turn", "summary"}
      /\ asked' = "turn" => shown' # <<>> /\ ~FromAssistant(Last(shown'))
      /\ \A x \in Unsaid(shown') : x \in Unsaid(shown) \/ (x.kind = "output" /\ x.id >= fresh)
      /\ hooks' \in {"none", hooks}
      /\ asked' = "summary" <=> hooks' # "none"
      /\ hooks' # "none" => asked = "summary" /\ hooks' = hooks /\ fresh' = fresh /\ shown' = shown
  BY <1>1, GivenUp
<1>4. /\ \A x \in ToSet(shown') : Old(x)' /\ Traced(x)
      /\ \A x \in ToSet(shown') : x.id >= floor \/ x.kind = "output"
      /\ \A x \in lost : x.id < fresh' /\ FromAssistant(x) /\ x \notin ToSet(shown')
      /\ \A x \in ToSet(history) : Old(x)'
  BY <1>1, <1>3, GrownKeeps
<1>5. /\ floor \in Int /\ floor <= fresh /\ fresh \in Int /\ fresh' \in Int /\ fresh <= fresh'
      /\ fresh' \in 0..MaxId /\ shown' \in Seq(Items) /\ Len(shown') <= MaxShown
      /\ Once(shown') /\ CallsAnswered(shown')
  BY <1>1, <1>3, ItemIds DEF Grown, BridgeInv
<1>6. /\ a.base \in {history, Opaque} /\ a.base \in Seq(Items) /\ Len(a.base) <= MaxItems
      /\ Straight("codex") /\ ~missed => \A x \in ToSet(a.base) : Traced(x) => x.id >= floor
      /\ Straight("codex") /\ ~missed /\ lost \cap ToSet(a.base) = {} => Valid(a.sent)
      /\ hooks = "provider" /\ asked = "summary" /\ Straight("codex") => a.base = Opaque
  BY Taken
<1>7. TypeOK'
  <2>1. hooks' \in {"none", "provider", "fallback", "missed"}
    BY <1>1, <1>3 DEF TypeOK
  <2> QED
    BY <1>1, <1>2, <1>3, <1>5, <1>6, <2>1 DEF TypeOK
<1>8. ClaudeInv'
  <2>1. asked' = "summary" => shown' # <<>> /\ hooks' # "none"
    BY <1>1, <1>3 DEF ClaudeInv
  <2> QED
    BY <1>3, <1>4, <1>5, <2>1 DEF ClaudeInv
<1>9. ReplayInv'
  <2>1. hooks' = "fallback" /\ ~crossed' => pendingReset'
    BY <1>1, <1>2, <1>3 DEF ReplayInv, Straight
  <2>2. ~crossed' /\ ~missed' => \A x \in ToSet(history') : Traced(x) => x.id >= floor'
    BY <1>2, <1>6
  <2> QED
    BY <1>3, <1>4, <2>1, <2>2 DEF ReplayInv
<1>10. BridgeInv'
  <2>1. \A x \in ToSet(history') : Old(x)'
    BY <1>4, <1>6, OpaqueItem, ItemIs DEF Old
  <2>2. floor' <= fresh'
    BY <1>5
  <2>3. \A x \in lost' : x.id < fresh' /\ FromAssistant(x) /\ x \notin ToSet(shown')
    BY <1>4
  <2>4. hooks' = "missed" => missed'
    BY <1>1, <1>3 DEF BridgeInv
  <2>5. hooks' = "provider" /\ ~crossed' => history' = Opaque
    BY <1>2, <1>3, <1>6
  <2>6. hooks' # "none" => asked' = "summary"
    BY <1>3
  <2> QED
    BY <1>2, <2>1, <2>2, <2>3, <2>4, <2>5, <2>6 DEF BridgeInv
<1>11. FittingInv'
  <2>1. SUFFICES ASSUME Clean'
                 PROVE  Fitting(history', shown')
    BY DEF FittingInv, Fitting, Once, ResultsCalled, Unsaid
  <2>2. Straight("codex") /\ ~missed /\ lost \cap ToSet(a.base) = {}
    BY <1>2, <2>1 DEF Clean
  <2>3. CASE a.base = history
    <3>1. Fitting(history, shown)
      BY <1>1, <2>2, <2>3 DEF FittingInv, Clean, Straight, Infers
    <3>2. Fitting(history, shown')
      BY <1>1, <1>3, <3>1, FitGrows
    <3> QED
      BY <2>3, <3>2
  <2>4. CASE a.base = Opaque
    BY <1>4, <1>5, <2>4, NothingFits
  <2> QED
    BY <1>6, <2>3, <2>4
<1>12. RejectedOnlyAfterLoss'
  BY <1>2, <1>6 DEF RejectedOnlyAfterLoss
<1> QED
  BY <1>7, <1>8, <1>9, <1>10, <1>11, <1>12 DEF TurnInv

\* An answer that never reaches Claude is committed all the same, but when it
\* does not fit.
LEMMA TurnLostKeeps ==
  ASSUME CodexAssumption, TurnInv, TurnLost
  PROVE  TurnInv'
<1>1. TypeOK /\ ClaudeInv /\ ReplayInv /\ BridgeInv /\ FittingInv
  BY DEF TurnInv
<1>2. /\ Infers /\ asked = "turn" /\ lost = {} /\ Enter("codex") /\ rejected' = FALSE
      /\ UNCHANGED <<shown, asked, hooks, floor, missed>>
  BY DEF TurnLost
<1>3. PICK a \in Attempts(Entered("codex").items), out \in Outputs :
        /\ Valid(a.sent) /\ fresh + Len(out) <= MaxId
        /\ \/ Commit(a, out, Entered("codex").flag)
           \/ ~Fits(a.base \o a.turn \o out) /\ history' = a.base
              /\ pendingReset' = Entered("codex").flag
        /\ lost' = ToSet(out) /\ fresh' = fresh + Len(out)
  BY DEF TurnLost
<1>4. hooks = "none"
  BY <1>2 DEF Infers
<1>5. /\ route' = "codex" /\ crossed' \in BOOLEAN /\ (~crossed' <=> Straight("codex"))
      /\ Entered("codex").flag \in BOOLEAN
  BY <1>1, <1>2, Enters
<1>6. Answer(out)
  BY <1>1, <1>2, <1>3, AnswerItems
<1>7. /\ out \in Seq(Items) /\ Once(out) /\ Len(out) \in Nat \ {0}
      /\ \A x \in ToSet(out) : FromAssistant(x) /\ x.id >= fresh /\ x.id < fresh + Len(out)
      /\ \E x \in ToSet(out) : FromAssistant(x)
  BY <1>6 DEF Answer
<1>8. /\ fresh \in 0..MaxId /\ shown \in Seq(Items) /\ Len(shown) <= MaxShown
      /\ Once(shown) /\ CallsAnswered(shown) /\ MaxId \in Nat
  BY <1>1 DEF TypeOK, ClaudeInv, CodexAssumption
<1>9. fresh' \in 0..MaxId /\ fresh < fresh' /\ fresh <= fresh' /\ fresh' \in Int
  BY <1>3, <1>7, <1>8
<1>10. Grown
  BY <1>2, <1>8, <1>9 DEF Grown
<1>11. /\ \A x \in ToSet(shown) : Old(x)' /\ Traced(x)
       /\ \A x \in ToSet(history) : Old(x)'
  BY <1>1, <1>2, <1>10, GrownKeeps
<1> DEFINE items == a.base \o a.turn \o out
<1>items. items = a.base \o a.turn \o out
  OBVIOUS
<1> HIDE DEF items
<1>12. Commits(a, out, items)
  <2>1. \A x \in ToSet(out) : FromAssistant(x) /\ x.id >= fresh /\ x.id < fresh'
    BY <1>3, <1>7
  <2>2. Infers /\ a \in Attempts(Entered("codex").items) /\ out \in Seq(Items) /\ Once(out)
    BY <1>2, <1>3, <1>7
  <2> QED
    BY <1>9, <1>items, <2>1, <2>2, Committed
<1>13. /\ items \in Seq(Items) /\ ToSet(out) \subseteq ToSet(items)
       /\ \A x \in ToSet(items) : x.id < fresh' \/ x.kind = "opaque"
       /\ Straight("codex") /\ ~missed => \A x \in ToSet(items) : Traced(x) => x.id >= floor
  BY <1>12 DEF Commits
<1>14. /\ a.base \in {history, Opaque} /\ a.base \in Seq(Items) /\ Len(a.base) <= MaxItems
       /\ Straight("codex") /\ ~missed => \A x \in ToSet(a.base) : Traced(x) => x.id >= floor
  BY <1>2, <1>3, Taken
<1>15. \/ history' = items /\ Len(items) <= MaxItems /\ pendingReset' = Entered("codex").flag
       \/ history' = <<>> /\ pendingReset' = FALSE
       \/ history' = a.base /\ pendingReset' = Entered("codex").flag
  BY <1>3, <1>items DEF Commit, Fits
<1>16. /\ <<>> \in Seq(Items) /\ ToSet(<<>>) = {} /\ Len(<<>>) = 0
       /\ Fitting(<<>>, shown) /\ Fitting(Opaque, shown)
  BY <1>8, <1>11, NothingFits DEF Fitting
<1>17. history' \in {items, <<>>, a.base}
  BY <1>15
<1>18. TypeOK'
  <2>1. history' \in Seq(Items) /\ Len(history') <= MaxItems /\ pendingReset' \in BOOLEAN
    <3>1. 0 <= MaxItems
      BY DEF CodexAssumption
    <3> QED
      BY <1>5, <1>13, <1>14, <1>15, <1>16, <3>1
  <2>2. lost' \subseteq Items
    BY <1>3, <1>7, Member
  <2> QED
    BY <1>1, <1>2, <1>5, <1>9, <2>1, <2>2 DEF TypeOK
<1>19. ClaudeInv'
  BY <1>1, <1>2, <1>8, <1>11 DEF ClaudeInv
<1>20. ReplayInv'
  <2>1. ~crossed' /\ ~missed' => \A x \in ToSet(history') : Traced(x) => x.id >= floor'
    BY <1>2, <1>5, <1>13, <1>14, <1>16, <1>17
  <2> QED
    BY <1>1, <1>2, <1>4, <2>1 DEF ReplayInv
<1>21. BridgeInv'
  <2>1. \A x \in ToSet(history') : Old(x)'
    BY <1>11, <1>13, <1>14, <1>16, <1>17, OpaqueItem, ItemIs DEF Old
  <2>2. floor' <= fresh'
    BY <1>1, <1>2, <1>9, ItemIds DEF BridgeInv
  <2>3. \A x \in lost' : x.id < fresh' /\ FromAssistant(x) /\ x \notin ToSet(shown')
    <3>1. SUFFICES ASSUME NEW x \in ToSet(out)
                   PROVE  x.id < fresh' /\ FromAssistant(x) /\ x \notin ToSet(shown)
      BY <1>2, <1>3
    <3>2. x.id >= fresh /\ x.id < fresh' /\ FromAssistant(x)
      BY <1>3, <1>7
    <3>3. \A y \in ToSet(shown) : FromAssistant(y) => y.id < fresh /\ y.id \in Int
      BY <1>1, ItemIds DEF ClaudeInv, Old, FromAssistant
    <3> QED
      BY <1>8, <3>2, <3>3
  <2> QED
    BY <1>2, <1>4, <1>5, <2>1, <2>2, <2>3 DEF BridgeInv
<1>22. FittingInv'
  <2>1. SUFFICES ASSUME Clean'
                 PROVE  Fitting(history', shown)
    BY <1>2 DEF FittingInv, Fitting, Once, ResultsCalled, Unsaid
  <2>2. Straight("codex") /\ ~missed /\ ToSet(out) \cap ToSet(history') = {}
    BY <1>2, <1>3, <1>5, <2>1 DEF Clean
  <2>3. history' # items
    BY <1>7, <1>13, <2>2
  <2>4. CASE history' = a.base /\ a.base = history
    BY <1>1, <1>2, <1>4, <2>2, <2>4 DEF FittingInv, Clean, Straight
  <2>5. CASE history' = <<>> \/ (history' = a.base /\ a.base = Opaque)
    BY <1>16, <2>5
  <2> QED
    BY <1>14, <1>17, <2>3, <2>4, <2>5
<1>23. RejectedOnlyAfterLoss'
  BY <1>2 DEF RejectedOnlyAfterLoss
<1> QED
  BY <1>18, <1>19, <1>20, <1>21, <1>22, <1>23 DEF TurnInv

\* A turn that another route answers, or fails to: it leaves no history.
LEMMA OtherTurnKeeps ==
  ASSUME CodexAssumption, TurnInv, OtherTurn
  PROVE  TurnInv'
<1>1. TypeOK /\ ClaudeInv /\ ReplayInv /\ BridgeInv
  BY DEF TurnInv
<1>2. /\ Infers /\ Enter("other") /\ rejected' = FALSE
      /\ history' = <<>> /\ pendingReset' = Entered("other").flag
      /\ UNCHANGED <<floor, lost, missed>>
  BY <1>1, EntersHistory DEF OtherTurn
<1>3. /\ route' = "other" /\ crossed' \in BOOLEAN /\ (~crossed' <=> Straight("other"))
      /\ Entered("other").flag \in BOOLEAN
      /\ hooks # "none" /\ ~crossed' => Entered("other").flag = pendingReset
  BY <1>1, <1>2, Enters
<1>4. asked \in {"turn", "summary"} /\ (asked = "turn" <=> hooks = "none")
  BY <1>1, <1>2 DEF Infers, ClaudeInv
<1> DEFINE Kept ==
      /\ fresh' \in 0..MaxId /\ floor <= fresh'
      /\ shown' \in Seq(Items) /\ Len(shown') <= MaxShown
      /\ Once(shown') /\ CallsAnswered(shown')
      /\ \A x \in ToSet(shown') : /\ Old(x)' /\ Traced(x)
                                  /\ x.id >= floor \/ x.kind = "output"
      /\ \A x \in lost : x.id < fresh' /\ FromAssistant(x) /\ x \notin ToSet(shown')
      /\ asked' \in {"nothing", "turn", "summary"}
      /\ asked' = "turn" => shown' # <<>> /\ ~FromAssistant(Last(shown'))
      /\ hooks' \in {"none", hooks}
      /\ asked' = "summary" =>
            asked = "summary" /\ hooks # "none" /\ hooks' = hooks /\ shown' # <<>>
      /\ hooks' # "none" /\ asked' # "summary" =>
            \A x \in ToSet(shown') : x.id >= fresh' \/ x.kind = "output"
<1>5. Kept
  <2>1. ASSUME Grown PROVE
          /\ fresh' \in 0..MaxId /\ floor <= fresh'
          /\ shown' \in Seq(Items) /\ Len(shown') <= MaxShown
          /\ Once(shown') /\ CallsAnswered(shown')
          /\ \A x \in ToSet(shown') : /\ Old(x)' /\ Traced(x)
                                      /\ x.id >= floor \/ x.kind = "output"
          /\ \A x \in lost : x.id < fresh' /\ FromAssistant(x) /\ x \notin ToSet(shown')
    <3>1. floor <= fresh'
      BY <1>1, <2>1, ItemIds DEF BridgeInv, Grown
    <3> QED
      BY <1>1, <2>1, <3>1, GrownKeeps DEF Grown
  <2>2. ASSUME NEW out \in Outputs, Receives(out), UNCHANGED hooks PROVE Kept
    <3>1. CASE asked = "turn"
      <4>1. /\ Grown /\ asked' \in {"nothing", "turn"}
            /\ asked' = "turn" => shown' # <<>> /\ ~FromAssistant(Last(shown'))
        BY <1>1, <2>2, <3>1, AnswerReceived
      <4> QED
        BY <1>4, <2>1, <2>2, <3>1, <4>1
    <3>2. CASE asked = "summary"
      <4>1. /\ fresh' \in 0..MaxId
            /\ shown' \in Seq(Items) /\ Len(shown') <= MaxShown
            /\ Once(shown') /\ CallsAnswered(shown')
            /\ asked' \in {"nothing", "turn"}
            /\ asked' = "turn" => shown' # <<>> /\ ~FromAssistant(Last(shown'))
        BY <1>1, <2>2, <3>2, SummaryReceived
      <4>2. /\ \A x \in ToSet(shown') : /\ Old(x)' /\ Traced(x)
                                        /\ x.id >= floor \/ x.kind = "output"
                                        /\ x.id >= fresh' \/ x.kind = "output"
            /\ \A x \in lost : x.id < fresh' /\ FromAssistant(x) /\ x \notin ToSet(shown')
            /\ floor <= fresh'
        BY <1>1, <2>2, <3>2, SummaryKeeps
      <4> QED
        BY <2>2, <4>1, <4>2
    <3> QED
      BY <1>4, <3>1, <3>2
  <2>3. ASSUME GivesUp PROVE Kept
    <3>1. /\ Grown
          /\ asked' \in {"nothing", "turn", "summary"}
          /\ asked' = "turn" => shown' # <<>> /\ ~FromAssistant(Last(shown'))
          /\ hooks' \in {"none", hooks}
          /\ asked' = "summary" <=> hooks' # "none"
          /\ hooks' # "none" => asked = "summary" /\ hooks' = hooks /\ shown' = shown
      BY <1>1, <1>2, <2>3, GivenUp
    <3>2. shown' = shown /\ asked = "summary" => shown' # <<>>
      BY <1>1 DEF ClaudeInv
    <3> QED
      BY <2>1, <3>1, <3>2
  <2> QED
    BY <2>2, <2>3 DEF OtherTurn
<1> HIDE DEF Kept
<1>6. /\ <<>> \in Seq(Items) /\ ToSet(<<>>) = {} /\ Len(<<>>) = 0
      /\ Fitting(<<>>, shown')
  BY <1>5, NothingFits DEF Kept
<1>7. TypeOK'
  <2>1. history' \in Seq(Items) /\ Len(history') <= MaxItems
    BY <1>2, <1>6 DEF CodexAssumption
  <2>2. hooks' \in {"none", "provider", "fallback", "missed"}
    BY <1>1, <1>5 DEF TypeOK, Kept
  <2> QED
    BY <1>1, <1>2, <1>3, <1>5, <2>1, <2>2 DEF TypeOK, Kept
<1>8. ClaudeInv'
  BY <1>5 DEF ClaudeInv, Kept
<1>9. ToSet(history') = {}
  BY <1>2, <1>6
<1>10. ReplayInv'
  <2>1. hooks' = "fallback" /\ ~crossed' /\ asked' = "summary" => pendingReset'
    BY <1>1, <1>2, <1>3, <1>5 DEF ReplayInv, Straight, Kept
  <2> QED
    BY <1>2, <1>5, <1>9, <2>1 DEF ReplayInv, Kept
<1>11. BridgeInv'
  <2>1. ~(hooks' = "provider" /\ asked' = "summary" /\ ~crossed')
    <3>1. SUFFICES ASSUME hooks' = "provider", asked' = "summary", ~crossed'
                   PROVE  FALSE
      OBVIOUS
    <3>2. hooks = "provider" /\ asked = "summary" /\ ~crossed /\ ~Entered("other").crosses
      BY <1>3, <1>5, <3>1 DEF Kept, Straight
    <3>3. history = Opaque
      BY <1>1, <3>2 DEF BridgeInv
    <3>4. route = "codex"
      BY <1>1, <3>3, OpaqueItem DEF BridgeInv
    <3> QED
      BY <3>2, <3>4 DEF Entered
  <2>2. hooks' = "missed" => missed'
    BY <1>1, <1>2, <1>5 DEF BridgeInv, Kept
  <2>3. floor' <= fresh'
    BY <1>2, <1>5 DEF Kept
  <2>4. \A x \in lost' : x.id < fresh' /\ FromAssistant(x) /\ x \notin ToSet(shown')
    BY <1>2, <1>5 DEF Kept
  <2> QED
    BY <1>2, <1>9, <2>1, <2>2, <2>3, <2>4 DEF BridgeInv
<1>12. FittingInv'
  <2>1. Fitting(history', shown')
    BY <1>2, <1>6
  <2> QED
    BY <2>1 DEF FittingInv, Fitting, Once, ResultsCalled, Unsaid
<1>13. RejectedOnlyAfterLoss'
  BY <1>2 DEF RejectedOnlyAfterLoss
<1> QED
  BY <1>7, <1>8, <1>10, <1>11, <1>12, <1>13 DEF TurnInv

\* A new prompt.
LEMMA PromptKeeps ==
  ASSUME CodexAssumption, TurnInv, Prompt
  PROVE  TurnInv'
<1>1. TypeOK /\ ClaudeInv /\ ReplayInv /\ BridgeInv /\ FittingInv /\ RejectedOnlyAfterLoss
  BY DEF TurnInv
<1> DEFINE p == Item("prompt", fresh)
<1>2. /\ hooks = "none" /\ hooks' = "none" /\ fresh < MaxId /\ Len(shown) < MaxShown
      /\ shown' = Append(shown, p) /\ fresh' = fresh + 1 /\ asked' = "turn"
      /\ UNCHANGED <<history, pendingReset, route, floor, lost, missed, crossed, rejected>>
  BY DEF Prompt, store, past
<1>3. /\ fresh \in 0..MaxId /\ shown \in Seq(Items) /\ MaxId \in Nat /\ MaxShown \in Nat
      /\ Len(shown) \in Nat
  BY <1>1, Member DEF TypeOK, CodexAssumption
<1>4. p \in Items /\ p.kind = "prompt" /\ p.id = fresh
  <2>1. "prompt" \in Kinds
    BY DEF Kinds
  <2> QED
    BY <1>3, <2>1, ItemIs
<1> HIDE DEF p
<1>5. /\ shown' = shown \o <<p>> /\ shown' # <<>> /\ Last(shown') = p
      /\ <<p>> \in Seq(Items) /\ Len(<<p>>) = 1 /\ ToSet(<<p>>) = {p} /\ DOMAIN <<p>> = {1}
  BY <1>2, <1>3, <1>4, Appended
<1>6. fresh' \in 0..MaxId /\ fresh <= fresh'
  BY <1>2, <1>3
<1>7. ~FromAssistant(p) /\ Young(p)
  BY <1>2, <1>3, <1>4 DEF FromAssistant, Young
<1>8. Grown
  <2>1. Once(<<p>>)
    BY <1>5 DEF Once
  <2>2. CallsAnswered(<<p>>)
    BY <1>4, <1>5, NothingToAnswer
  <2>3. Len(shown \o <<p>>) <= MaxShown
    BY <1>2, <1>3, <1>5, Joined
  <2>4. \A x \in ToSet(<<p>>) : Young(x)
    BY <1>5, <1>7
  <2> QED
    BY <1>1, <1>5, <1>6, <2>1, <2>2, <2>3, <2>4, GrowsBy
<1>9. /\ \A x \in ToSet(shown') : Old(x)' /\ Traced(x)
      /\ \A x \in ToSet(shown') : x.id >= floor \/ x.kind = "output"
      /\ \A x \in lost : x.id < fresh' /\ FromAssistant(x) /\ x \notin ToSet(shown')
      /\ \A x \in ToSet(history) : Old(x)'
  BY <1>1, <1>8, GrownKeeps
<1>10. TypeOK'
  BY <1>1, <1>2, <1>8 DEF TypeOK, Grown
<1>11. ClaudeInv'
  BY <1>2, <1>5, <1>7, <1>8, <1>9 DEF ClaudeInv, Grown
<1>12. ReplayInv'
  BY <1>1, <1>2, <1>9 DEF ReplayInv
<1>13. BridgeInv'
  <2>1. floor' <= fresh'
    BY <1>1, <1>2, ItemIds DEF BridgeInv
  <2> QED
    BY <1>1, <1>2, <1>9, <2>1 DEF BridgeInv
<1>14. FittingInv'
  <2>1. SUFFICES ASSUME Clean'
                 PROVE  Fitting(history, shown')
    BY <1>2 DEF FittingInv, Fitting, Once, ResultsCalled, Unsaid
  <2>2. Fitting(history, shown)
    BY <1>1, <1>2, <2>1 DEF FittingInv, Clean
  <2>3. \A x \in Unsaid(shown') : x \in Unsaid(shown) \/ (x.kind \in {"prompt", "output"} /\ x.id >= fresh)
    <3>1. Unsaid(shown \o <<p>>) \subseteq Unsaid(shown) \cup Unsaid(<<p>>)
      BY <1>3, <1>5, UnsaidJoined
    <3>2. Unsaid(<<p>>) \subseteq {p}
      BY <1>5, UnsaidItems
    <3>3. p.id >= fresh
      BY <1>3, <1>4
    <3> QED
      BY <1>4, <1>5, <3>1, <3>2, <3>3
  <2> QED
    BY <1>1, <1>8, <2>2, <2>3, FitGrows
<1>15. RejectedOnlyAfterLoss'
  BY <1>1, <1>2 DEF RejectedOnlyAfterLoss
<1> QED
  BY <1>10, <1>11, <1>12, <1>13, <1>14, <1>15 DEF TurnInv

\* A compaction begins: the bridge makes room, or never hears of it.
LEMMA CompactKeeps ==
  ASSUME CodexAssumption, TurnInv, PreCompact \/ PreCompactMissed
  PROVE  TurnInv'
<1>1. TypeOK /\ ClaudeInv /\ ReplayInv /\ BridgeInv /\ FittingInv
  BY DEF TurnInv
<1>2. /\ asked' = "summary" /\ shown # <<>> /\ hooks' # "none"
      /\ hooks' \in {"provider", "fallback", "missed"}
      /\ UNCHANGED <<route, shown, fresh, floor, lost, crossed>>
  BY DEF PreCompact, PreCompactMissed, Compacts, store, past
<1>3. \/ /\ hooks' = "provider" /\ history' = Opaque /\ history # <<>> /\ pendingReset' = FALSE
         /\ missed' = missed /\ rejected' = FALSE
      \/ /\ hooks' = "fallback" /\ history' = <<>> /\ pendingReset' = TRUE
         /\ missed' = missed /\ rejected' = FALSE
      \/ hooks' = "missed" /\ missed' = TRUE /\ UNCHANGED <<history, pendingReset, rejected>>
  BY DEF PreCompact, PreCompactMissed, InstallCompaction, Fallback, Opaque, store, past
<1>4. /\ <<>> \in Seq(Items) /\ ToSet(<<>>) = {} /\ Len(<<>>) = 0
      /\ Fitting(<<>>, shown) /\ Fitting(Opaque, shown)
  <2>1. shown \in Seq(Items) /\ \A x \in ToSet(shown) : Traced(x)
    BY <1>1 DEF TypeOK, ClaudeInv
  <2> QED
    BY <2>1, NothingFits DEF Fitting
<1>5. /\ Opaque \in Seq(Items) /\ Len(Opaque) <= MaxItems
      /\ \A x \in ToSet(Opaque) : x.kind = "opaque"
  <2>1. Len(Opaque) = 1 /\ 1 <= MaxItems
    BY OpaqueItem DEF CodexAssumption
  <2> QED
    BY <2>1, OpaqueItem, ItemIs
<1>6. hooks' # "missed" => \A x \in ToSet(history') : x.kind = "opaque"
  <2>1. CASE history' = Opaque
    BY <1>5, <2>1
  <2>2. CASE history' = <<>>
    BY <1>4, <2>2
  <2> QED
    BY <1>3, <2>1, <2>2
<1>7. TypeOK'
  <2>1. history' \in Seq(Items) /\ Len(history') <= MaxItems
    <3>1. 0 <= MaxItems
      BY DEF CodexAssumption
    <3>2. history \in Seq(Items) /\ Len(history) <= MaxItems
      BY <1>1 DEF TypeOK
    <3> QED
      BY <1>3, <1>4, <1>5, <3>1, <3>2
  <2>2. pendingReset' \in BOOLEAN /\ missed' \in BOOLEAN /\ rejected' \in BOOLEAN
    BY <1>1, <1>3 DEF TypeOK
  <2> QED
    BY <1>1, <1>2, <2>1, <2>2 DEF TypeOK
<1>8. ClaudeInv'
  BY <1>1, <1>2 DEF ClaudeInv, Old
<1>9. ReplayInv'
  <2>1. hooks' = "fallback" => pendingReset'
    BY <1>3
  <2>2. ~missed' => \A x \in ToSet(history') : ~Traced(x)
    BY <1>3, <1>6 DEF Traced
  <2> QED
    BY <1>1, <1>2, <2>1, <2>2 DEF ReplayInv
<1>10. BridgeInv'
  <2>1. \A x \in ToSet(history') : Old(x)'
    BY <1>1, <1>2, <1>3, <1>6 DEF BridgeInv, Old
  <2>2. route' # "codex" => history' = <<>>
    BY <1>1, <1>2, <1>3 DEF BridgeInv
  <2>3. hooks' = "missed" => missed'
    BY <1>3
  <2>4. hooks' = "provider" => history' = Opaque
    BY <1>3
  <2> QED
    BY <1>1, <1>2, <2>1, <2>2, <2>3, <2>4 DEF BridgeInv
<1>11. FittingInv'
  <2>1. SUFFICES ASSUME Clean'
                 PROVE  Fitting(history', shown')
    BY DEF FittingInv, Fitting, Once, ResultsCalled, Unsaid
  <2>2. ~missed'
    BY <2>1 DEF Clean
  <2> QED
    BY <1>2, <1>3, <1>4, <2>2
<1>12. RejectedOnlyAfterLoss'
  BY <1>3 DEF RejectedOnlyAfterLoss
<1> QED
  BY <1>7, <1>8, <1>9, <1>10, <1>11, <1>12 DEF TurnInv

\* A compaction ends, and what it replaced is gone; or its hook is lost.
LEMMA CompactFinishedKeeps ==
  ASSUME CodexAssumption, TurnInv, CompactFinished
  PROVE  TurnInv'
<1>1. TypeOK /\ ClaudeInv /\ ReplayInv /\ BridgeInv /\ FittingInv
  BY DEF TurnInv
<1>2. /\ asked # "summary" /\ hooks # "none" /\ hooks' = "none" /\ rejected' = FALSE
      /\ floor' = IF hooks = "fallback" THEN fresh ELSE floor
      /\ UNCHANGED <<route, shown, asked, fresh, lost, missed, crossed>>
  BY DEF CompactFinished, client, past
<1>3. \/ history' = <<>> /\ pendingReset' = FALSE
      \/ ~pendingReset /\ UNCHANGED <<history, pendingReset>>
  BY DEF CompactFinished
<1>4. shown \in Seq(Items) /\ \A x \in ToSet(shown) : Traced(x)
  BY <1>1 DEF TypeOK, ClaudeInv
<1>5. /\ <<>> \in Seq(Items) /\ ToSet(<<>>) = {} /\ Len(<<>>) = 0 /\ Fitting(<<>>, shown)
  BY <1>4, NothingFits
<1>6. /\ fresh \in Int /\ floor \in Int /\ floor <= fresh
      /\ \A x \in ToSet(history) \cup ToSet(shown) : x.id \in Int
  BY <1>1, ItemIds DEF BridgeInv
<1>7. /\ \A x \in ToSet(shown) : x.id >= fresh \/ x.kind = "output"
      /\ \A x \in ToSet(history) : x.id < fresh \/ x.kind = "opaque"
  BY <1>1, <1>2 DEF ReplayInv, BridgeInv
<1>8. hooks = "fallback" /\ ~crossed => history' = <<>>
  BY <1>1, <1>2, <1>3 DEF ReplayInv
<1>9. TypeOK'
  <2>1. history' \in Seq(Items) /\ Len(history') <= MaxItems /\ pendingReset' \in BOOLEAN
    <3>1. 0 <= MaxItems
      BY DEF CodexAssumption
    <3>2. history \in Seq(Items) /\ Len(history) <= MaxItems /\ pendingReset \in BOOLEAN
      BY <1>1 DEF TypeOK
    <3> QED
      BY <1>3, <1>5, <3>1, <3>2
  <2>2. floor' \in 0..MaxId
    BY <1>1, <1>2 DEF TypeOK
  <2> QED
    BY <1>1, <1>2, <2>1, <2>2 DEF TypeOK
<1>10. ClaudeInv'
  BY <1>1, <1>2 DEF ClaudeInv, Old
<1>11. ReplayInv'
  <2>1. \A x \in ToSet(shown') : x.id >= floor' \/ x.kind = "output"
    BY <1>1, <1>2, <1>7 DEF ReplayInv
  <2>2. ~crossed /\ ~missed => \A x \in ToSet(history') : Traced(x) => x.id >= floor'
    BY <1>1, <1>2, <1>3, <1>5, <1>8 DEF ReplayInv
  <2> QED
    BY <1>2, <2>1, <2>2 DEF ReplayInv
<1>12. BridgeInv'
  <2>1. floor' <= fresh'
    BY <1>2, <1>6
  <2>2. \A x \in ToSet(history') : Old(x)'
    BY <1>1, <1>2, <1>3, <1>5 DEF BridgeInv, Old
  <2>3. route' # "codex" => history' = <<>>
    BY <1>1, <1>2, <1>3 DEF BridgeInv
  <2> QED
    BY <1>1, <1>2, <2>1, <2>2, <2>3 DEF BridgeInv
<1>13. FittingInv'
  <2>1. SUFFICES ASSUME Clean'
                 PROVE  Fitting(history', shown)
    BY <1>2 DEF FittingInv, Fitting, Once, ResultsCalled, Unsaid
  <2>2. CASE history' = <<>>
    BY <1>5, <2>2
  <2>3. CASE history' = history /\ history' # <<>>
    <3>1. Clean /\ hooks = "provider"
      <4>1. Clean
        BY <1>2, <2>1, <2>3 DEF Clean
      <4> QED
        BY <1>1, <1>2, <1>8, <2>3, <4>1 DEF BridgeInv, Clean, TypeOK
    <3>2. Once(history) /\ ResultsCalled(history)
      BY <1>1, <3>1 DEF FittingInv
    <3>3. \A x \in ToSet(history) : x.kind \notin {"call", "output"}
      BY <1>1, <1>2, <3>1 DEF BridgeInv, Clean
    <3>4. \A x \in ToSet(shown) : x \notin ToSet(history)
      <4>1. SUFFICES ASSUME NEW x \in ToSet(shown), x \in ToSet(history)
                     PROVE  FALSE
        OBVIOUS
      <4>2. x.kind # "opaque" /\ x.kind # "output" /\ x.id \in Int
        BY <1>4, <1>6, <3>3, <4>1 DEF Traced
      <4>3. x.id >= fresh /\ x.id < fresh
        BY <1>7, <4>1, <4>2
      <4> QED
        BY <1>6, <4>2, <4>3
    <3>5. Unsaid(shown) \subseteq ToSet(shown)
      BY <1>4, UnsaidItems
    <3> QED
      BY <2>3, <3>2, <3>3, <3>4, <3>5 DEF Fitting
  <2> QED
    BY <1>3, <2>2, <2>3
<1>14. RejectedOnlyAfterLoss'
  BY <1>2 DEF RejectedOnlyAfterLoss
<1> QED
  BY <1>9, <1>10, <1>11, <1>12, <1>13, <1>14 DEF TurnInv

\* The hook that ends a compaction is lost.
LEMMA CompactFinishedMissedKeeps ==
  ASSUME TurnInv, CompactFinishedMissed
  PROVE  TurnInv'
<1>1. TypeOK /\ ClaudeInv /\ ReplayInv /\ BridgeInv
  BY DEF TurnInv
<1>2. /\ asked # "summary" /\ hooks' = "none" /\ missed' = TRUE
      /\ UNCHANGED <<history, pendingReset, route, shown, asked, fresh, floor, lost, crossed, rejected>>
  BY DEF CompactFinishedMissed, store, client
<1>3. TypeOK'
  BY <1>1, <1>2 DEF TypeOK
<1>4. ClaudeInv'
  BY <1>1, <1>2 DEF ClaudeInv, Old
<1>5. ReplayInv'
  BY <1>1, <1>2 DEF ReplayInv
<1>6. BridgeInv'
  BY <1>1, <1>2 DEF BridgeInv, Old
<1>7. FittingInv' /\ RejectedOnlyAfterLoss'
  BY <1>2 DEF FittingInv, Clean, RejectedOnlyAfterLoss
<1> QED
  BY <1>3, <1>4, <1>5, <1>6, <1>7 DEF TurnInv

\* /clear: both sides begin anew.
LEMMA ClearKeeps ==
  ASSUME CodexAssumption, TurnInv, ContextClear
  PROVE  TurnInv'
<1>1. TypeOK /\ hooks = "none" /\ asked = "nothing"
  BY DEF TurnInv, ContextClear
<1>2. /\ history' = <<>> /\ pendingReset' = FALSE /\ route' = "none"
      /\ shown' = <<>> /\ floor' = fresh
      /\ lost' = {} /\ missed' = FALSE /\ crossed' = FALSE /\ rejected' = FALSE
      /\ UNCHANGED <<asked, hooks, fresh>>
  BY DEF ContextClear
<1>3. /\ <<>> \in Seq(Items) /\ ToSet(<<>>) = {} /\ Len(<<>>) = 0 /\ Once(<<>>)
      /\ CallsAnswered(<<>>) /\ Fitting(<<>>, <<>>)
  <2>1. <<>> \in Seq(Items) /\ ToSet(<<>>) = {}
    BY EmptySeq DEF ToSet
  <2> QED
    BY <2>1, NothingFits, NothingToAnswer
<1>4. TypeOK'
  <2>1. history' \in Seq(Items) /\ Len(history') <= MaxItems
    BY <1>2, <1>3 DEF CodexAssumption
  <2>2. shown' \in Seq(Items) /\ Len(shown') <= MaxShown
    BY <1>2, <1>3 DEF CodexAssumption
  <2> QED
    BY <1>1, <1>2, <2>1, <2>2 DEF TypeOK
<1>5. ClaudeInv'
  BY <1>1, <1>2, <1>3 DEF ClaudeInv
<1>6. ReplayInv'
  BY <1>1, <1>2, <1>3 DEF ReplayInv
<1>7. BridgeInv'
  <2>1. floor' <= fresh'
    BY <1>1, <1>2, ItemIds
  <2> QED
    BY <1>1, <1>2, <1>3, <2>1 DEF BridgeInv
<1>8. FittingInv'
  <2>1. Fitting(history', shown')
    BY <1>2, <1>3
  <2> QED
    BY <2>1 DEF FittingInv, Fitting, Once, ResultsCalled, Unsaid
<1>9. RejectedOnlyAfterLoss'
  BY <1>2 DEF RejectedOnlyAfterLoss
<1> QED
  BY <1>4, <1>5, <1>6, <1>7, <1>8, <1>9 DEF TurnInv

\* It holds at the start.
LEMMA Begins ==
  ASSUME CodexAssumption, Init
  PROVE  TurnInv
<1>1. /\ <<>> \in Seq(Items) /\ ToSet(<<>>) = {} /\ Len(<<>>) = 0 /\ Once(<<>>)
      /\ CallsAnswered(<<>>) /\ Fitting(<<>>, <<>>)
  <2>1. <<>> \in Seq(Items) /\ ToSet(<<>>) = {}
    BY EmptySeq DEF ToSet
  <2> QED
    BY <2>1, NothingFits, NothingToAnswer
<1>2. 0 <= MaxItems /\ 0 <= MaxShown /\ 0 \in 0..MaxId
  BY DEF CodexAssumption
<1>3. TypeOK
  BY <1>1, <1>2 DEF Init, TypeOK
<1>4. ClaudeInv /\ ReplayInv
  BY <1>1 DEF Init, ClaudeInv, ReplayInv
<1>5. BridgeInv
  BY <1>1 DEF Init, BridgeInv
<1>6. FittingInv /\ RejectedOnlyAfterLoss
  <2>1. Fitting(history, shown)
    BY <1>1 DEF Init
  <2> QED
    BY <2>1 DEF Init, FittingInv, Fitting, RejectedOnlyAfterLoss
<1> QED
  BY <1>3, <1>4, <1>5, <1>6 DEF TurnInv

\* No step of Claude's, of a route or of a hook breaks the invariant.
LEMMA Continues ==
  ASSUME CodexAssumption, TurnInv, [Next]_vars
  PROVE  TurnInv'
<1>1. CASE TurnDone
  <2>1. asked = "turn" \/ asked = "summary"
    BY <1>1 DEF TurnDone, Infers
  <2> QED
    BY <1>1, <2>1, TurnDoneKeeps, SummaryDoneKeeps
<1>2. CASE TurnLost
  BY <1>2, TurnLostKeeps
<1>3. CASE TurnFails
  <2>1. PICK a \in Attempts(Entered("codex").items) :
          history' = a.base /\ pendingReset' = Entered("codex").flag
    BY <1>3 DEF TurnFails
  <2>2. /\ a \in Attempts(Entered("codex").items) /\ Infers /\ Enter("codex") /\ GivesUp
        /\ rejected' = FALSE /\ UNCHANGED <<floor, lost, missed>>
    BY <1>3, <2>1 DEF TurnFails
  <2> QED
    BY <2>1, <2>2, GivenUpKeeps
<1>4. CASE TurnRejected
  <2>1. PICK a \in Attempts(Entered("codex").items) :
          ~Valid(a.sent) /\ history' = a.base /\ pendingReset' = Entered("codex").flag
    BY <1>4 DEF TurnRejected
  <2>2. /\ a \in Attempts(Entered("codex").items) /\ Infers /\ Enter("codex") /\ GivesUp
        /\ rejected' = TRUE /\ UNCHANGED <<floor, lost, missed>>
    BY <1>4, <2>1 DEF TurnRejected
  <2> QED
    BY <2>1, <2>2, GivenUpKeeps
<1>5. CASE OtherTurn
  BY <1>5, OtherTurnKeeps
<1>6. CASE Prompt
  BY <1>6, PromptKeeps
<1>7. CASE PreCompact \/ PreCompactMissed
  BY <1>7, CompactKeeps
<1>8. CASE CompactFinished
  BY <1>8, CompactFinishedKeeps
<1>9. CASE CompactFinishedMissed
  BY <1>9, CompactFinishedMissedKeeps
<1>10. CASE ContextClear
  BY <1>10, ClearKeeps
<1>11. CASE UNCHANGED vars
  <2>1. UNCHANGED <<history, pendingReset, route, shown, asked, fresh, hooks, floor, lost,
                    missed, crossed, rejected>>
    BY <1>11 DEF vars, store, client, past
  <2> QED
    BY <2>1 DEF TurnInv, TypeOK, ClaudeInv, ReplayInv, BridgeInv, FittingInv, Clean, Old,
         RejectedOnlyAfterLoss
<1> QED
  BY <1>1, <1>2, <1>3, <1>4, <1>5, <1>6, <1>7, <1>8, <1>9, <1>10, <1>11 DEF Next

-----------------------------------------------------------------------------
(* The theorems *)

\* The history and Claude's transcript stay in the relation TurnInv through
\* every interleaving of turns, failures, routes and hooks.
THEOREM Invariance == Spec => []TurnInv
<1>1. Init => TurnInv
  BY Begins, CodexAssumption
<1>2. TurnInv /\ [Next]_vars => TurnInv'
  BY Continues, CodexAssumption
<1> QED
  BY <1>1, <1>2, PTL DEF Spec

\* Types, and the limits of the history (encode_items) and of the transcript.
THEOREM TypeCorrect == Spec => []TypeOK
<1>1. TurnInv => TypeOK
  BY DEF TurnInv
<1> QED
  BY <1>1, Invariance, PTL

\* The bridge refuses what it assembled itself only after a reply was lost whose
\* calls it still holds, a hook was missed, or a change of route undid a
\* compaction (validate_continuation_input after recover_pending_outputs and
\* repair_orphaned_outputs).
THEOREM RefusesOnlyAfterLoss == Spec => []RejectedOnlyAfterLoss
<1>1. TurnInv => RejectedOnlyAfterLoss
  BY DEF TurnInv
<1> QED
  BY <1>1, Invariance, PTL

\* Retries, partial answers, summaries and failed turns commit nothing twice
\* (record_successful_turn after history_aware_input).
THEOREM CommitsOnce == Spec => []CommittedOnce
<1>1. TurnInv => CommittedOnce
  BY DEF TurnInv, FittingInv, Clean, Once, Traced, CommittedOnce
<1> QED
  BY <1>1, Invariance, PTL

\* The reset that PreCompact arms survives until the finished hook, and nothing
\* replaced comes back with a later turn (begin_harness_compaction_fallback,
\* serve_context_compact_finished).
THEOREM SummarySeeds == Spec => []SeedsFromSummary
<1>1. ASSUME TurnInv PROVE SeedsFromSummary
  <2>1. SUFFICES ASSUME ~crossed, ~missed, NEW x \in ToSet(history),
                        x.id < floor, x.kind \notin {"note", "opaque"}
                 PROVE  FALSE
    BY DEF SeedsFromSummary, Replaced
  <2>2. x.id >= floor
    BY <1>1, <2>1 DEF TurnInv, ReplayInv, Traced
  <2>3. x.id \in Int /\ floor \in Int
    BY <1>1, CodexAssumption, ItemIds DEF TurnInv
  <2> QED
    BY <2>1, <2>2, <2>3
<1>2. TurnInv => SeedsFromSummary
  BY <1>1
<1> QED
  BY <1>2, Invariance, PTL
=============================================================================
