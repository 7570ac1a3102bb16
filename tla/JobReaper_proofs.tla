-------------------------- MODULE JobReaper_proofs --------------------------
(***************************************************************************)
(* Proofs about the reaper of tool shells: its types, that an exit is      *)
(* settled once, and that only leaks of completed tools are killed, for    *)
(* any number of processes, PIDs, missed looks and reused PIDs.            *)
(*                                                                         *)
(* The tracker is a stale picture keyed by PIDs, and the proof says in     *)
(* what it is true all the same.  An entry shows some process that had its *)
(* PID, with the PID of its parent at birth; one taken for dead had a PID  *)
(* some holder of which has ended.  Where no ancestor of a process shares  *)
(* its PID the links of the table are then the line of descent, the roles  *)
(* are deserved, and the shell whose exit is planned has ended.            *)
(*                                                                         *)
(* Tree, Above, Roles and Line iterate a step a fixed number of times.     *)
(* What every member of such a set has is proved of a set that is closed   *)
(* under the step (the lemmas that end in Least); that the set is closed   *)
(* itself follows from its size (IterationCloses).                         *)
(***************************************************************************)
EXTENDS JobReaper, FiniteSetTheorems, NaturalsInduction, TLAPS

-----------------------------------------------------------------------------
(* Numbers, and iterations on sets *)

\* A set of numbers that has a member has a least one.
LEMMA LeastNat ==
  ASSUME NEW S \in SUBSET Nat, S # {}
  PROVE  \E m \in S : \A k \in S : m <= k
<1> DEFINE less == {ss \in Nat \X Nat : ss[1] < ss[2]}
<1>1. IsWellFoundedOn(less, Nat)
  BY NatLessThanWellFounded DEF OpToRel
<1> HIDE DEF less
<1>2. PICK m \in S : \A k \in S : <<k, m>> \notin less
  BY <1>1, WFMin
<1>3. ASSUME NEW k \in S PROVE m <= k
  <2>1. k \in Nat /\ m \in Nat /\ <<k, m>> \notin less
    BY <1>2
  <2>2. <<k, m>> \in Nat \X Nat
    BY <2>1
  <2>3. ~(k < m)
    BY <2>1, <2>2 DEF less
  <2> QED
    BY <2>1, <2>3
<1> QED
  BY <1>3

\* A set of numbers that has a member and a bound has a greatest one.
LEMMA GreatestNat ==
  ASSUME NEW n \in Nat, NEW S \in SUBSET (0..n), S # {}
  PROVE  \E m \in S : \A k \in S : k <= m
<1> DEFINE T == {n - k : k \in S}
<1>1. T \in SUBSET Nat /\ T # {}
  <2>1. \A k \in S : k \in 0..n /\ n - k \in Nat
    OBVIOUS
  <2> QED
    BY <2>1
<1>2. PICK m \in T : \A k \in T : m <= k
  <2> HIDE DEF T
  <2> QED BY <1>1, LeastNat
<1>3. PICK x \in S : m = n - x
  OBVIOUS
<1>4. \A k \in S : n - x <= n - k
  BY <1>2, <1>3
<1> QED
  BY <1>4

\* f starts with the set A and takes the step G at each number up to N.
Iterated(f, U, A, G, N) ==
  /\ f \in [0..N -> SUBSET U]
  /\ f[0] = A
  /\ \A n \in 1..N : f[n] = G[f[n-1]]

\* An iteration exists: it has no least length that cannot be reached.
LEMMA Iterates ==
  ASSUME NEW U, NEW A \in SUBSET U, NEW G \in [SUBSET U -> SUBSET U], NEW N \in Nat
  PROVE  \E f : Iterated(f, U, A, G, N)
<1> DEFINE bad == {k \in Nat : ~ \E f : Iterated(f, U, A, G, k)}
<1>1. SUFFICES ASSUME bad # {} PROVE FALSE
  OBVIOUS
<1>2. PICK m \in bad : \A k \in bad : m <= k
  <2>1. bad \in SUBSET Nat
    OBVIOUS
  <2> HIDE DEF bad
  <2> QED
    BY <1>1, <2>1, LeastNat
<1>3. m \in Nat /\ ~ \E f : Iterated(f, U, A, G, m)
  OBVIOUS
<1>4. m # 0
  <2> DEFINE one == [n \in 0..0 |-> A]
  <2>1. one \in [0..0 -> SUBSET U] /\ one[0] = A /\ 1..0 = {}
    OBVIOUS
  <2> HIDE DEF one
  <2>2. Iterated(one, U, A, G, 0)
    BY <2>1 DEF Iterated
  <2> QED
    BY <1>3, <2>2
<1>5. m - 1 \in Nat /\ m - 1 \notin bad
  BY <1>2, <1>3, <1>4
<1>6. PICK f : Iterated(f, U, A, G, m - 1)
  BY <1>5
<1>7. f \in [0..(m-1) -> SUBSET U] /\ G[f[m-1]] \in SUBSET U
  BY <1>5, <1>6 DEF Iterated
<1> DEFINE h == [n \in 0..m |-> IF n = m THEN G[f[m-1]] ELSE f[n]]
<1>8. \A n \in 0..m : n # m => n \in 0..(m-1)
  BY <1>3
<1>9. h \in [0..m -> SUBSET U]
  BY <1>7, <1>8
<1>10. h[0] = A /\ h[m] = G[h[m-1]]
  BY <1>3, <1>4, <1>6 DEF Iterated
<1>11. ASSUME NEW n \in 1..m PROVE h[n] = G[h[n-1]]
  <2>1. CASE n = m
    BY <1>10, <2>1
  <2>2. CASE n # m
    <3>1. n \in 1..(m-1) /\ h[n] = f[n] /\ h[n-1] = f[n-1]
      BY <1>3, <2>2
    <3> QED
      BY <1>6, <3>1 DEF Iterated
  <2> QED
    BY <2>1, <2>2
<1> HIDE DEF h
<1>12. Iterated(h, U, A, G, m)
  BY <1>9, <1>10, <1>11 DEF Iterated
<1> QED
  BY <1>3, <1>12

\* A set that has the start and that no step leaves holds all of an iteration.
LEMMA IterationStays ==
  ASSUME NEW N \in Nat, NEW f, NEW C, f[0] \subseteq C,
         \A n \in 1..N : f[n-1] \subseteq C => f[n] \subseteq C
  PROVE  \A n \in 0..N : f[n] \subseteq C
<1> DEFINE bad == {k \in 0..N : ~(f[k] \subseteq C)}
<1>1. SUFFICES ASSUME bad # {} PROVE FALSE
  OBVIOUS
<1>2. PICK m \in bad : \A k \in bad : m <= k
  <2>1. bad \in SUBSET Nat
    OBVIOUS
  <2> HIDE DEF bad
  <2> QED
    BY <1>1, <2>1, LeastNat
<1>3. m \in 0..N /\ ~(f[m] \subseteq C)
  OBVIOUS
<1>4. m \in 1..N /\ m - 1 \in 0..N /\ ~(m <= m - 1)
  BY <1>3
<1>5. f[m-1] \subseteq C
  BY <1>2, <1>4
<1> QED
  BY <1>3, <1>4, <1>5

\* Induction up to a bound, over a set.
LEMMA Inducts ==
  ASSUME NEW N \in Nat, NEW Q, 0 \in Q, \A n \in 1..N : n - 1 \in Q => n \in Q
  PROVE  0..N \subseteq Q
<1> DEFINE bad == {k \in 0..N : k \notin Q}
<1>1. SUFFICES ASSUME bad # {} PROVE FALSE
  OBVIOUS
<1>2. PICK m \in bad : \A k \in bad : m <= k
  <2>1. bad \in SUBSET Nat
    OBVIOUS
  <2> HIDE DEF bad
  <2> QED
    BY <1>1, <2>1, LeastNat
<1>3. m \in 0..N /\ m \notin Q
  OBVIOUS
<1>4. m \in 1..N /\ m - 1 \in 0..N /\ ~(m <= m - 1)
  BY <1>3
<1>5. m - 1 \in Q
  BY <1>2, <1>4
<1> QED
  BY <1>3, <1>4, <1>5

\* As many steps as a set has members, but one, reach all that can be reached
\* in it: a step that adds nothing is the last, and the others add a member.
LEMMA IterationCloses ==
  ASSUME NEW U, IsFiniteSet(U), NEW N \in Nat, Cardinality(U) <= N + 1,
         NEW G \in [SUBSET U -> SUBSET U], NEW f, f[0] \in SUBSET U, f[0] # {},
         \A n \in 1..N : f[n] = f[n-1] \cup G[f[n-1]]
  PROVE  f[N] \in SUBSET U /\ G[f[N]] \subseteq f[N]
<1> DEFINE Good(n) == /\ f[n] \in SUBSET U
                      /\ G[f[n]] \subseteq f[n] \/ Cardinality(f[n]) >= n + 1
           Q == {n \in Nat : Good(n)}
<1>1. \A S \in SUBSET U : IsFiniteSet(S) /\ Cardinality(S) \in Nat
  BY FS_Subset, FS_CardinalityType
<1>2. 0 \in Q
  <2>1. Cardinality(f[0]) # 0
    BY <1>1, FS_EmptySet
  <2> QED
    BY <1>1, <2>1
<1>3. ASSUME NEW n \in 1..N, n - 1 \in Q PROVE n \in Q
  <2> DEFINE S == f[n-1]
             T == f[n]
  <2>0. n \in Nat /\ Good(n-1)
    BY <1>3
  <2>1. S \in SUBSET U /\ T = S \cup G[S] /\ T \in SUBSET U
    <3>1. S \in SUBSET U /\ T = S \cup G[S]
      BY <2>0
    <3>2. G[S] \in SUBSET U
      BY <3>1
    <3> QED
      BY <3>1, <3>2
  <2>2. CASE G[S] \subseteq S
    <3>1. T = S
      BY <2>1, <2>2
    <3>2. G[T] \subseteq T
      BY <2>2, <3>1
    <3> HIDE DEF S, T
    <3>3. T \in SUBSET U /\ (G[T] \subseteq T \/ Cardinality(T) >= n + 1)
      BY <2>1, <3>2
    <3> QED
      BY <2>0, <3>3 DEF T
  <2>3. CASE Cardinality(S) >= n /\ ~(G[S] \subseteq S)
    <3>1. S \in SUBSET T /\ S # T /\ IsFiniteSet(T)
      BY <1>1, <2>1, <2>3
    <3>2. Cardinality(S) <= Cardinality(T) /\ Cardinality(S) # Cardinality(T)
      BY <3>1, FS_Subset
    <3>3. Cardinality(T) >= n + 1
      <4>1. Cardinality(S) \in Nat /\ Cardinality(T) \in Nat /\ n \in Nat
        BY <1>1, <2>1
      <4> QED
        BY <2>3, <3>2, <4>1
    <3> HIDE DEF S, T
    <3>4. T \in SUBSET U /\ (G[T] \subseteq T \/ Cardinality(T) >= n + 1)
      BY <2>1, <3>3
    <3> QED
      BY <2>0, <3>4 DEF T
  <2>4. G[S] \subseteq S \/ Cardinality(S) >= n
    <3>1. (n - 1) + 1 = n
      BY <2>0
    <3> QED
      BY <2>0, <3>1
  <2> QED
    BY <2>2, <2>3, <2>4
<1>4. Good(N)
  <2> HIDE DEF Good
  <2>1. 0..N \subseteq Q
    <3> HIDE DEF Q
    <3> QED
      BY <1>2, <1>3, Inducts
  <2> QED
    BY <2>1
<1>5. CASE Cardinality(f[N]) >= N + 1
  <2>1. Cardinality(f[N]) <= Cardinality(U) /\ (Cardinality(U) = Cardinality(f[N]) => U = f[N])
    BY <1>4, FS_Subset
  <2>2. Cardinality(f[N]) \in Nat /\ Cardinality(U) \in Nat
    BY <1>1, <1>4
  <2>3. U = f[N]
    BY <1>5, <2>1, <2>2
  <2> QED
    BY <1>4, <2>3
<1> QED
  BY <1>4, <1>5

-----------------------------------------------------------------------------
(* The table of the operating system *)

Proc == [pid : Pids, image : Images, parent : 0..MaxBirths, alive : BOOLEAN]
ProcType == procs \in Seq(Proc)

\* The fields of an entry of the table.
LEMMA ProcAt ==
  ASSUME ProcType, NEW b \in DOMAIN procs
  PROVE  /\ procs[b] \in Proc /\ b \in Nat \ {0}
         /\ procs[b].pid \in Pids /\ procs[b].image \in Images /\ procs[b].parent \in 0..MaxBirths
         /\ procs[b].alive \in BOOLEAN
<1>1. procs[b] \in Proc /\ b \in Nat \ {0}
  BY DEF ProcType
<1> QED
  BY <1>1 DEF Proc

\* The holder of a PID has that PID, and is the last that was given it.
LEMMA HolderType ==
  ASSUME ProcType, NEW p, Holder(p) # 0
  PROVE  /\ Holder(p) \in DOMAIN procs /\ procs[Holder(p)].pid = p
         /\ \A b \in DOMAIN procs : procs[b].pid = p => b <= Holder(p)
<1> DEFINE born == {b \in DOMAIN procs : procs[b].pid = p}
<1>1. Len(procs) \in Nat /\ DOMAIN procs = 1..Len(procs)
  BY DEF ProcType
<1>2. born \in SUBSET (0..Len(procs))
  BY <1>1
<1>3. born # {} /\ Holder(p) = CHOOSE b \in born : \A c \in born : c <= b
  BY DEF Holder
<1>4. \E b \in born : \A c \in born : c <= b
  <2> HIDE DEF born
  <2> QED
    BY <1>1, <1>2, <1>3, GreatestNat
<1>5. Holder(p) \in born /\ \A c \in born : c <= Holder(p)
  <2> HIDE DEF born
  <2> QED
    BY <1>3, <1>4
<1> QED
  BY <1>5

\* The PID of a process has a holder.
LEMMA HeldPids ==
  ASSUME ProcType, NEW b \in DOMAIN procs
  PROVE Holder(procs[b].pid) # 0 
<1>1. procs[b].pid = procs[b].pid /\ b # 0
  BY DEF ProcType
<1> DEFINE p == procs[b].pid
           born == {c \in DOMAIN procs : procs[c].pid = p}
<1>2. Len(procs) \in Nat /\ born \in SUBSET (0..Len(procs)) /\ born # {}
  BY DEF ProcType
<1>3. \E c \in born : \A d \in born : d <= c
  <2> HIDE DEF born
  <2> QED
    BY <1>2, GreatestNat
<1>4. Holder(p) \in born
  BY <1>2, <1>3 DEF Holder
<1> QED
  BY <1>4 DEF ProcType

\* Tree: what holds of the root's PID and passes to the unspared children of a
\* PID that holds it is true of the PIDs of the whole tree.
LEMMA TreeReaches ==
  ASSUME ReaperAssumption, ProcType, NEW b \in DOMAIN procs, NEW spared, NEW C,
         procs[b].pid \in C,
         \A p \in Pids \ spared : Live(p) /\ ParentPid(Holder(p)) \in C => p \in C
  PROVE  Tree(b, spared) \subseteq {Holder(p) : p \in C \cap Pids}
<1> DEFINE shown == {p \in Pids \ spared : Live(p)}
           A == {procs[b].pid}
           N == Cardinality(Pids)
           Grown(S) == S \cup {p \in shown : ParentPid(Holder(p)) \in S}
           G == [S \in SUBSET Pids |-> Grown(S)]
           Is(h) == h = [n \in 0..N |-> IF n = 0 THEN A ELSE Grown(h[n-1])]
           f == CHOOSE h : Is(h)
<1>1. N \in Nat
  BY FS_CardinalityType DEF ReaperAssumption
<1>2. A \in SUBSET Pids
  BY ProcAt
<1>3. \A S \in SUBSET Pids : G[S] = Grown(S)
  OBVIOUS
<1>4. G \in [SUBSET Pids -> SUBSET Pids]
  <2>1. \A S \in SUBSET Pids : Grown(S) \in SUBSET Pids
    OBVIOUS
  <2> HIDE DEF Grown
  <2> QED
    BY <2>1
<1>5. \A S : S \subseteq C \cap Pids => Grown(S) \subseteq C \cap Pids
  OBVIOUS
<1>6. Tree(b, spared) = {Holder(p) : p \in f[N]}
  BY DEF Tree
<1> HIDE DEF A, N, G, Grown, f
<1>7. PICK g : Iterated(g, Pids, A, G, N)
  BY <1>1, <1>2, <1>4, Iterates
<1>8. Is(g)
  <2>1. \A n \in 0..N : n # 0 => n \in 1..N /\ n - 1 \in 0..N
    BY <1>1
  <2>2. \A n \in 0..N : g[n] = IF n = 0 THEN A ELSE Grown(g[n-1])
    BY <1>3, <1>7, <2>1 DEF Iterated
  <2> QED
    BY <1>7, <2>2 DEF Iterated
<1>9. Is(f)
  BY <1>8 DEF f
<1>10. f[0] = A /\ \A n \in 1..N : f[n] = Grown(f[n-1])
  BY <1>1, <1>9
<1>11. f[N] \subseteq C \cap Pids
  <2>0. N \in 0..N
    BY <1>1
  <2>1. f[0] \subseteq C \cap Pids
    BY <1>2, <1>10 DEF A
  <2>2. \A n \in 1..N : f[n-1] \subseteq C \cap Pids => f[n] \subseteq C \cap Pids
    BY <1>10, <1>5
  <2> QED
    BY <1>1, <2>0, <2>1, <2>2, IterationStays
<1> QED
  BY <1>6, <1>11

-----------------------------------------------------------------------------
(* The PIDs above one, and what a plan reaps *)

Tables == [Pids -> Meta \cup {None}]
ParentPids(known, S) == {known[q].parent : q \in {x \in S \cap Pids : known[x] # None}}

\* The parents the table names are PIDs, or 0.
LEMMA ParentPidsType ==
  ASSUME NEW known \in Tables, NEW S
  PROVE  ParentPids(known, S) \in SUBSET (Pids \cup {0})
<1>1. \A q \in Pids : known[q] # None => known[q] \in Meta
  BY DEF Tables
<1>2. \A e \in Meta : e.parent \in Pids \cup {0}
  BY DEF Meta
<1> QED
  BY <1>1, <1>2 DEF ParentPids

\* Above as a function of the generation.
LEMMA AboveUnfolds ==
  ASSUME ReaperAssumption, NEW known \in Tables, NEW p \in Pids
  PROVE  \E f : /\ f[0] = ParentPids(known, {p})
                /\ \A n \in 1..Cardinality(Pids) : f[n] = f[n-1] \cup ParentPids(known, f[n-1])
                /\ Above(known, p) = f[Cardinality(Pids)]
<1> DEFINE U == Pids \cup {0}
           N == Cardinality(Pids)
           A == ParentPids(known, {p})
           Grown(S) == S \cup ParentPids(known, S)
           G == [S \in SUBSET U |-> Grown(S)]
           Is(h) == h = [n \in 0..N |-> IF n = 0 THEN A ELSE Grown(h[n-1])]
           f == CHOOSE h : Is(h)
<1>1. N \in Nat
  BY FS_CardinalityType DEF ReaperAssumption
<1>2. \A S : ParentPids(known, S) \in SUBSET U
  BY ParentPidsType
<1>3. \A S \in SUBSET U : G[S] = Grown(S)
  OBVIOUS
<1>4. G \in [SUBSET U -> SUBSET U]
  <2>1. \A S \in SUBSET U : Grown(S) \in SUBSET U
    BY <1>2
  <2> HIDE DEF Grown
  <2> QED
    BY <2>1
<1>5. Above(known, p) = f[N]
  BY DEF Above, ParentPids
<1> HIDE DEF A, N, G, Grown, f
<1>6. PICK g : Iterated(g, U, A, G, N)
  BY <1>1, <1>2, <1>4, Iterates DEF A
<1>7. Is(g)
  <2>1. \A n \in 0..N : n # 0 => n \in 1..N /\ n - 1 \in 0..N
    BY <1>1
  <2>2. \A n \in 0..N : g[n] = IF n = 0 THEN A ELSE Grown(g[n-1])
    BY <1>3, <1>6, <2>1 DEF Iterated
  <2> QED
    BY <1>6, <2>2 DEF Iterated
<1>8. Is(f)
  BY <1>7 DEF f
<1>9. f[0] = A /\ \A n \in 1..N : f[n] = Grown(f[n-1])
  BY <1>1, <1>8
<1> QED
  BY <1>5, <1>9 DEF A, N, Grown

\* What holds of the parent and passes to the parents of those above holds
\* above.
LEMMA AboveLeast ==
  ASSUME ReaperAssumption, NEW known \in Tables, NEW p \in Pids, NEW C,
         known[p] # None => known[p].parent \in C,
         \A q \in C \cap Pids : known[q] # None => known[q].parent \in C
  PROVE  Above(known, p) \subseteq C
<1> DEFINE N == Cardinality(Pids)
<1>1. N \in Nat /\ N \in 0..N
  BY FS_CardinalityType DEF ReaperAssumption
<1>2. PICK f : /\ f[0] = ParentPids(known, {p})
               /\ \A n \in 1..N : f[n] = f[n-1] \cup ParentPids(known, f[n-1])
               /\ Above(known, p) = f[N]
  BY AboveUnfolds
<1>3. f[0] \subseteq C
  BY <1>2 DEF ParentPids
<1>4. \A S : S \subseteq C => ParentPids(known, S) \subseteq C
  BY DEF ParentPids
<1>5. \A n \in 1..N : f[n-1] \subseteq C => f[n] \subseteq C
  BY <1>2, <1>4
<1> HIDE DEF N
<1>6. \A n \in 0..N : f[n] \subseteq C
  BY <1>1, <1>3, <1>5, IterationStays
<1> QED
  BY <1>1, <1>2, <1>6

\* The parent of an entry is above it, and so is all that is above the parent.
LEMMA AboveClosed ==
  ASSUME ReaperAssumption, NEW known \in Tables, NEW p \in Pids, known[p] # None
  PROVE  /\ known[p].parent \in Above(known, p)
         /\ \A q \in Above(known, p) \cap Pids :
               known[q] # None => known[q].parent \in Above(known, p)
<1> DEFINE N == Cardinality(Pids)
           U == Pids \cup {0}
           G == [S \in SUBSET U |-> ParentPids(known, S)]
<1>1. N \in Nat /\ IsFiniteSet(U) /\ Cardinality(U) <= N + 1
  <2>1. IsFiniteSet(Pids) /\ 0 \notin Pids
    BY DEF ReaperAssumption
  <2>2. N \in Nat
    BY <2>1, FS_CardinalityType
  <2>3. IsFiniteSet(U) /\ Cardinality(U) = N + 1
    BY <2>1, FS_AddElement
  <2> QED
    BY <2>2, <2>3
<1>2. PICK f : /\ f[0] = ParentPids(known, {p})
               /\ \A n \in 1..N : f[n] = f[n-1] \cup ParentPids(known, f[n-1])
               /\ Above(known, p) = f[N]
  BY AboveUnfolds
<1>3. \A S : ParentPids(known, S) \in SUBSET U
  BY ParentPidsType
<1>4. G \in [SUBSET U -> SUBSET U]
  BY <1>3
<1>5. known[p].parent \in f[0]
  BY <1>2 DEF ParentPids
<1>6. \A n \in 0..N : f[n] \in SUBSET U /\ known[p].parent \in f[n]
  <2> DEFINE Q == {n \in 0..N : f[n] \in SUBSET U /\ known[p].parent \in f[n]}
  <2>1. 0 \in Q
    BY <1>1, <1>2, <1>3, <1>5
  <2>2. ASSUME NEW n \in 1..N, n - 1 \in Q PROVE n \in Q
    BY <1>1, <1>2, <1>3, <2>2
  <2> HIDE DEF N
  <2>3. 0..N \subseteq Q
    <3> HIDE DEF Q
    <3> QED
      BY <1>1, <2>1, <2>2, Inducts
  <2> QED
    BY <2>3
<1>7. \A n \in 1..N : f[n] = f[n-1] \cup G[f[n-1]]
  <2>1. \A n \in 1..N : n - 1 \in 0..N
    BY <1>1
  <2> QED
    BY <1>2, <1>6, <2>1
<1>8. f[N] \in SUBSET U /\ G[f[N]] \subseteq f[N]
  <2>1. f[0] \in SUBSET U /\ f[0] # {}
    BY <1>1, <1>5, <1>6
  <2> HIDE DEF N, G, U
  <2> QED
    BY <1>1, <1>4, <1>7, <2>1, IterationCloses
<1>9. ParentPids(known, Above(known, p)) \subseteq Above(known, p)
  <2>1. Above(known, p) = f[N]
    BY <1>2
  <2>2. ParentPids(known, f[N]) = G[f[N]]
    BY <1>8
  <2> QED
    BY <1>8, <2>1, <2>2
<1>10. known[p].parent \in Above(known, p)
  BY <1>1, <1>2, <1>6
<1> QED
  BY <1>9, <1>10 DEF ParentPids

\* What a plan reaps was started below a tool shell that no running bash has
\* taken over from, with nothing that is spared on the way.
LEMMA PlanReaps ==
  ASSUME NEW known, NEW roles, NEW above, NEW spares, NEW t,
         NEW b \in Plan(known, roles, above, spares, t).reap
  PROVE  /\ roles[t] \in {"toolShell", "handoff"} /\ ~HandedOff(known, roles, t)
         /\ \E p \in Pids : /\ b = known[p].birth /\ t \in above[p] /\ p \notin spares
                            /\ \A q \in Pids : t \in above[q] /\ q \in above[p] => q \notin spares
BY DEF Plan

-----------------------------------------------------------------------------
(* Types.  That the entries of the tracker are typed needs the shape of the  *)
(* operating system's table: parents are born before their children, and of  *)
(* the processes that had one PID only the last may live.                    *)

Trackers == [known : Tables, unresolved : SUBSET Pids, tries : [Pids -> 0..MaxRetries - 1],
             settled : SUBSET Births, provisional : SUBSET Births,
             deferred : SUBSET Births, abandoned : SUBSET Births]
Dooms == [kill : SUBSET Births, seen : SUBSET Births]

Rooted(ps) ==
  /\ ps \in Seq(Proc) /\ Len(ps) \in Births
  /\ ps[1].parent = 0 /\ ps[1].pid = AgentPid /\ ps[1].image \in RootImages
ParentFirst(ps) ==
  \A b \in DOMAIN ps \ {1} : ps[b].parent \in 1..(b - 1) /\ ps[b].pid # AgentPid
OldHoldersDead(ps) ==
  \A b, c \in DOMAIN ps : b < c /\ ps[b].pid = ps[c].pid => ~ps[b].alive
AgentOnTop(ps) ==
  \A b \in DOMAIN ps \ {1} : ps[b].image = "agent" => ps[b].parent = 1
ProcsInv(ps) == Rooted(ps) /\ ParentFirst(ps) /\ OldHoldersDead(ps) /\ AgentOnTop(ps)

\* The births of the processes are the numbers up to the last one.
LEMMA DomainOfProcs ==
  ASSUME ProcsInv(procs)
  PROVE  /\ ProcType /\ Len(procs) \in Births /\ DOMAIN procs = 1..Len(procs) /\ 1 \in DOMAIN procs
         /\ DOMAIN procs \subseteq Births
<1>1. procs \in Seq(Proc) /\ Len(procs) \in 1..MaxBirths /\ MaxBirths \in Nat
  BY ReaperAssumption DEF ProcsInv, Rooted, Births
<1>2. DOMAIN procs = 1..Len(procs)
  BY <1>1
<1> QED
  BY <1>1, <1>2 DEF ProcType, Births

\* The parent of a process is in the table.
LEMMA ParentPidType ==
  ASSUME ProcsInv(procs), NEW b \in DOMAIN procs
  PROVE  /\ ParentPid(b) \in Pids \cup {0}
         /\ procs[b].parent # 0 => /\ procs[b].parent \in DOMAIN procs
                                   /\ ParentPid(b) = procs[procs[b].parent].pid
         /\ procs[b].parent = 0 => ParentPid(b) = 0
<1>1. procs[b].parent # 0 => procs[b].parent \in DOMAIN procs
  <2>1. CASE b = 1
    BY <2>1 DEF ProcsInv, Rooted
  <2>2. CASE b # 1
    <3>1. procs[b].parent \in 1..(b - 1)
      BY <2>2 DEF ProcsInv, ParentFirst
    <3>2. b \in 1..Len(procs) /\ Len(procs) \in Nat /\ DOMAIN procs = 1..Len(procs)
      BY DomainOfProcs DEF Births
    <3> QED
      BY <3>1, <3>2
  <2> QED
    BY <2>1, <2>2
<1> QED
  BY <1>1, DomainOfProcs, ProcAt DEF ParentPid

\* A look shows the living holder of the PID.
LEMMA LookType ==
  ASSUME ProcsInv(procs), NEW p \in Pids, NEW look \in Looks(p), look # None
  PROVE  /\ look = Seen(p) /\ look \in Meta /\ Live(p)
         /\ look.birth \in DOMAIN procs /\ look.birth = Holder(p)
         /\ procs[look.birth].pid = p /\ procs[look.birth].alive
         /\ look.image = procs[look.birth].image /\ look.parent = ParentPid(look.birth)
         /\ look.alive = TRUE
<1>1. look = Seen(p) /\ Live(p)
  BY DEF Looks
<1>2. Holder(p) \in DOMAIN procs /\ procs[Holder(p)].pid = p /\ procs[Holder(p)].alive
  BY <1>1, DomainOfProcs, HolderType DEF Live
<1>3. Holder(p) \in Births /\ ParentPid(Holder(p)) \in Pids \cup {0} /\ procs[Holder(p)].image \in Images
  BY <1>2, DomainOfProcs, ParentPidType, ProcAt
<1> QED
  BY <1>1, <1>2, <1>3 DEF Seen, Meta

\* What the bookkeeping makes of a tracker is one.
LEMMA ObservedType ==
  ASSUME NEW tr \in Trackers, NEW p \in Pids, NEW look \in Meta \cup {None}
  PROVE  Observed(tr, p, look) \in Trackers
<1>1. CASE look = None
  BY <1>1 DEF Observed, Trackers
<1>2. CASE look # None
  BY <1>2 DEF Observed, Trackers, Tables
<1> QED
  BY <1>1, <1>2

\* A tracker with another table, other unresolved PIDs and other counts.
LEMMA TrackerWith ==
  ASSUME NEW tr \in Trackers, NEW table \in Tables, NEW open \in SUBSET Pids,
         NEW counts \in [Pids -> 0..MaxRetries - 1]
  PROVE  [tr EXCEPT !.known = table, !.unresolved = open, !.tries = counts] \in Trackers
BY DEF Trackers

\* A scan keeps the types: a PID is counted again below the bound only.
LEMMA RetriedType ==
  ASSUME ReaperAssumption, NEW tr \in Trackers, NEW looks \in [tr.unresolved -> Meta \cup {None}]
  PROVE  Retried(tr, looks) \in Trackers
<1> DEFINE left == {p \in tr.unresolved : looks[p] = None}
           spent == {p \in left : tr.tries[p] + 1 >= MaxRetries}
           known == [p \in Pids |-> IF p \in tr.unresolved \ left THEN looks[p] ELSE tr.known[p]]
           tries == [p \in Pids |-> IF p \in left \ spent THEN tr.tries[p] + 1 ELSE 0]
<1>1. known \in Tables
  BY DEF Trackers, Tables
<1>2. tries \in [Pids -> 0..MaxRetries - 1]
  <2>1. \A p \in left \ spent : tr.tries[p] + 1 \in 0..MaxRetries - 1
    BY ReaperAssumption DEF Trackers
  <2>2. 0 \in 0..MaxRetries - 1
    BY DEF ReaperAssumption
  <2> HIDE DEF left, spent
  <2> QED
    BY <2>1, <2>2
<1>3. left \ spent \in SUBSET Pids
  BY DEF Trackers
<1>4. Retried(tr, looks) = [tr EXCEPT !.known = known, !.unresolved = left \ spent, !.tries = tries]
  BY DEF Retried
<1> DEFINE open == left \ spent
           next == [tr EXCEPT !.known = known, !.unresolved = open, !.tries = tries]
<1>5. next \in Trackers
  <2>1. known \in Tables /\ open \in SUBSET Pids /\ tries \in [Pids -> 0..MaxRetries - 1]
    BY <1>1, <1>2, <1>3
  <2> HIDE DEF known, open, tries
  <2> QED
    BY <2>1, TrackerWith
<1>6. Retried(tr, looks) = next
  BY <1>4
<1> HIDE DEF next
<1> QED
  BY <1>5, <1>6

\* The eviction of old entries keeps the types.
LEMMA PurgedType ==
  ASSUME NEW tr \in Trackers, NEW gone
  PROVE  Purged(tr, gone) \in Trackers
<1> DEFINE known == [p \in Pids |-> IF p \in gone THEN None ELSE tr.known[p]]
           births == {tr.known[p].birth : p \in gone}
           kept == {tr.known[p].birth : p \in {q \in Pids \ gone : tr.known[q] # None}}
<1>1. known \in Tables
  BY DEF Trackers, Tables
<1>2. Purged(tr, gone) = [tr EXCEPT !.known = known, !.settled = tr.settled \ births,
                                    !.provisional = tr.provisional \ births,
                                    !.deferred = tr.deferred \cap kept]
  BY DEF Purged
<1> HIDE DEF known, births, kept
<1> QED
  BY <1>1, <1>2 DEF Trackers

\* The births of entries.
LEMMA EntryBirth ==
  ASSUME NEW known \in Tables, NEW p \in Pids, known[p] # None
  PROVE  known[p].birth \in Births /\ known[p].alive \in BOOLEAN /\ known[p].parent \in Pids \cup {0}
BY DEF Tables, Meta

\* A plan reaps births and spares PIDs.
LEMMA PlanType ==
  ASSUME ReaperAssumption, NEW known \in Tables, NEW roles, NEW above,
         above = [p \in Pids |-> Above(known, p)], NEW spares, NEW t
  PROVE  /\ Plan(known, roles, above, spares, t).reap \in SUBSET Births
         /\ Plan(known, roles, above, spares, t).spare \in SUBSET Pids
<1>1. ASSUME NEW p \in Pids, t \in above[p] PROVE known[p] # None
  <2>1. CASE known[p] = None
    <3>1. /\ known[p] # None => known[p].parent \in {}
          /\ \A q \in {} \cap Pids : known[q] # None => known[q].parent \in {}
      BY <2>1
    <3>2. Above(known, p) \subseteq {}
      BY <3>1, AboveLeast
    <3> QED
      BY <1>1, <3>2
  <2> QED
    BY <2>1
<1>2. ASSUME NEW b \in Plan(known, roles, above, spares, t).reap PROVE b \in Births
  <2>1. PICK p \in Pids : b = known[p].birth /\ t \in above[p]
    BY <1>2, PlanReaps
  <2> QED
    BY <1>1, <2>1, EntryBirth
<1>3. Plan(known, roles, above, spares, t).spare \in SUBSET Pids
  BY DEF Plan
<1> QED
  BY <1>2, <1>3

\* The exits that wait to be settled are those of dead entries.
LEMMA PendingKnown ==
  ASSUME NEW tr
  PROVE  /\ Pending(tr) \subseteq Pids
         /\ \A p \in Pending(tr) : /\ tr.known[p] # None /\ ~tr.known[p].alive
                                   /\ tr.known[p].birth \notin tr.settled
BY DEF Pending, Dead

\* The births of the shells that wait to be settled, and of all entries.
Ended(tr) == {tr.known[p].birth : p \in Pending(tr)}
Entries(known) == {known[q].birth : q \in {x \in Pids : known[x] # None}}

\* A tracker with exits kept for later, waited for, and given up.
Deferring(tr, kept, waits, lost) ==
  [tr EXCEPT !.deferred = @ \cup kept, !.provisional = @ \cup waits, !.abandoned = @ \cup lost]

\* From tr to next some of the pending exits are settled, kept or given up.
Settles(tr, next) ==
  \E now, kept, waits, lost :
     /\ now \cup kept \cup waits \cup lost \subseteq Ended(tr)
     /\ next = Settle(Deferring(tr, kept, waits, lost), now \cup lost)

\* What is decided for the exit of t.
Decision(known, registered, held, t) ==
  LET plan == Plan(known, Roles(known, registered), [p \in Pids |-> Above(known, p)],
                   Spares(known, held), t)
  IN  [reap |-> plan.reap, spared |-> plan.spare \cup Spares(known, held), seen |-> Entries(known)]

\* A pass settles, keeps and gives up only pending exits, and decides about
\* them only.
LEMMA PassParts ==
  ASSUME NEW old, NEW registered, NEW final, NEW late, NEW gone, NEW held
  PROVE  /\ Settles(Purged(old, gone), Pass(old, registered, final, late, gone, held).tracker)
         /\ \A claim \in Pass(old, registered, final, late, gone, held).claims :
               \E t \in Pending(Purged(old, gone)) :
                  claim = Decision(Purged(old, gone).known, registered, held, t)
<1> DEFINE tr == Purged(old, gone)
           spares == Spares(tr.known, held)
           roles == Roles(tr.known, registered)
           above == [p \in Pids |-> Above(tr.known, p)]
           Id(p) == tr.known[p].birth
           plan == [p \in Pending(tr) |-> Plan(tr.known, roles, above, spares, p)]
           open == IF tr.unresolved = {} THEN Pending(tr) ELSE {}
           empty == {p \in open : plan[p].empty}
           waiting == {p \in open : plan[p].noClients /\ ~(final /\ Id(p) \in tr.provisional)}
           kept == {Id(p) : p \in empty \cup waiting}
           lost == kept \cap late \cap tr.deferred
           now == {Id(p) : p \in open \ (empty \cup waiting)}
           waits == {Id(p) : p \in waiting}
           entries == {Id(q) : q \in {x \in Pids : tr.known[x] # None}}
           pass == Pass(old, registered, final, late, gone, held)
<1>1. pass.tracker = Settle(Deferring(tr, kept, waits, lost), now \cup lost)
  BY DEF Pass, Deferring
<1>2. pass.claims = {[reap |-> plan[p].reap, spared |-> plan[p].spare \cup spares, seen |-> entries] :
                        p \in {q \in open : plan[q].reap # {}}}
  BY DEF Pass
<1>3. open \subseteq Pending(tr)
  OBVIOUS
<1>4. now \cup kept \cup waits \cup lost \subseteq Ended(tr)
  <2> HIDE DEF tr, plan
  <2>1. empty \subseteq Pending(tr) /\ waiting \subseteq Pending(tr)
    BY <1>3
  <2> HIDE DEF empty, waiting
  <2>2. kept \subseteq Ended(tr)
    BY <2>1 DEF Ended
  <2>3. now \subseteq Ended(tr)
    BY <1>3 DEF Ended
  <2>4. waits \subseteq Ended(tr)
    BY <2>1 DEF Ended
  <2>5. lost \subseteq kept
    OBVIOUS
  <2> QED
    BY <2>2, <2>3, <2>4, <2>5
<1>5. \A t \in Pending(tr) : Decision(tr.known, registered, held, t)
                               = [reap |-> plan[t].reap, spared |-> plan[t].spare \cup spares, seen |-> entries]
  BY DEF Decision, Entries
<1> HIDE DEF tr, open, pass, now, kept, waits, lost, entries, spares, plan
<1>6. \A claim \in pass.claims : \E t \in Pending(tr) :
         claim = Decision(tr.known, registered, held, t)
  BY <1>2, <1>3, <1>5
<1>7. Settles(tr, pass.tracker)
  BY <1>1, <1>4 DEF Settles
<1> QED
  BY <1>6, <1>7 DEF tr, pass

\* To settle exits keeps the types.
LEMMA SettleType ==
  ASSUME NEW tr \in Trackers, NEW S \in SUBSET Births
  PROVE  Settle(tr, S) \in Trackers
BY DEF Settle, Trackers

\* What waits to be settled is a birth.
LEMMA EndedType ==
  ASSUME NEW tr \in Trackers
  PROVE  Ended(tr) \in SUBSET Births
<1>1. \A p \in Pending(tr) : p \in Pids /\ tr.known[p] # None
  BY PendingKnown
<1>2. tr.known \in Tables
  BY DEF Trackers
<1> QED
  BY <1>1, <1>2, EntryBirth DEF Ended

\* A decision is a claim.
LEMMA DecisionType ==
  ASSUME ReaperAssumption, NEW known \in Tables, NEW registered, NEW held, NEW t
  PROVE  Decision(known, registered, held, t) \in Claim
<1> DEFINE roles == Roles(known, registered)
           above == [p \in Pids |-> Above(known, p)]
           spares == Spares(known, held)
           plan == Plan(known, roles, above, spares, t)
<1>1. above = [p \in Pids |-> Above(known, p)]
  OBVIOUS
<1>2. Entries(known) \in SUBSET Births
  <2>1. \A q \in Pids : known[q] # None => known[q].birth \in Births
    BY EntryBirth
  <2> QED
    BY <2>1 DEF Entries
<1>3. spares \in SUBSET Pids
  BY DEF Spares
<1>4. Decision(known, registered, held, t)
         = [reap |-> plan.reap, spared |-> plan.spare \cup spares, seen |-> Entries(known)]
  BY DEF Decision
<1> HIDE DEF above, roles, spares
<1>5. plan.reap \in SUBSET Births /\ plan.spare \in SUBSET Pids
  BY <1>1, PlanType
<1>6. plan.spare \cup spares \in SUBSET Pids
  BY <1>3, <1>5
<1> DEFINE R == plan.reap
           S == plan.spare \cup spares
           E == Entries(known)
<1>7. R \in SUBSET Births /\ S \in SUBSET Pids /\ E \in SUBSET Births
      /\ Decision(known, registered, held, t) = [reap |-> R, spared |-> S, seen |-> E]
  BY <1>2, <1>4, <1>5, <1>6
<1> HIDE DEF plan, R, S, E
<1> QED
  BY <1>7 DEF Claim

\* To keep exits for later keeps the types.
LEMMA DeferringType ==
  ASSUME NEW tr \in Trackers, NEW kept \in SUBSET Births, NEW waits \in SUBSET Births,
         NEW lost \in SUBSET Births
  PROVE  Deferring(tr, kept, waits, lost) \in Trackers
BY DEF Deferring, Trackers

\* A pass keeps the types, and makes claims.
LEMMA PassType ==
  ASSUME ReaperAssumption, NEW old \in Trackers, NEW registered, NEW final, NEW late, NEW gone, NEW held
  PROVE  /\ Pass(old, registered, final, late, gone, held).tracker \in Trackers
         /\ Pass(old, registered, final, late, gone, held).claims \subseteq Claim
<1> DEFINE tr == Purged(old, gone)
           pass == Pass(old, registered, final, late, gone, held)
<1>1. tr \in Trackers
  BY PurgedType
<1>0. Settles(tr, pass.tracker)
  BY PassParts
<1>2. PICK now, kept, waits, lost :
         /\ now \cup kept \cup waits \cup lost \subseteq Ended(tr)
         /\ pass.tracker = Settle(Deferring(tr, kept, waits, lost), now \cup lost)
  BY <1>0 DEF Settles
<1>3. \A claim \in pass.claims : \E t \in Pending(tr) :
         claim = Decision(tr.known, registered, held, t)
  BY PassParts
<1> HIDE DEF tr, pass
<1>4. now \cup kept \cup waits \cup lost \subseteq Births
  BY <1>1, <1>2, EndedType
<1>5. pass.tracker \in Trackers
  BY <1>1, <1>2, <1>4, DeferringType, SettleType
<1>6. tr.known \in Tables
  BY <1>1 DEF Trackers
<1>7. pass.claims \subseteq Claim
  BY <1>3, <1>6, DecisionType
<1> QED
  BY <1>5, <1>7 DEF pass

\* A pass keeps the types, as part of a step.
LEMMA ReconcilesType ==
  ASSUME ReaperAssumption, TypeOK, NEW t \in Threads, NEW tr \in Trackers, NEW final,
         Reconciles(t, tr, final)
  PROVE  /\ tracker' \in Trackers
         /\ plans' \in [Threads -> SUBSET Claim]
         /\ ever' \subseteq Births
<1>1. PICK late \in SUBSET tr.deferred, gone \in {{}, Evictable(tr)},
          held \in SUBSET {p \in Dead(tr) : ~Live(p) /\ \E q \in Pids : /\ tr.known[q] # None
                                                              /\ tr.known[q].parent = p} :
         LET pass == Pass(tr, backend', final, late, gone, held)
         IN  /\ tracker' = pass.tracker
             /\ plans' = [plans EXCEPT ![t] = pass.claims]
             /\ ever' = ever \cup {b \in pass.tracker.settled : ~procs[b].alive}
  BY DEF Reconciles
<1> DEFINE pass == Pass(tr, backend', final, late, gone, held)
<1>2. pass.tracker \in Trackers /\ pass.claims \subseteq Claim
  BY PassType
<1>3. tracker' = pass.tracker /\ plans' = [plans EXCEPT ![t] = pass.claims]
      /\ ever' = ever \cup {b \in pass.tracker.settled : ~procs[b].alive}
  BY <1>1
<1>4. plans \in [Threads -> SUBSET Claim] /\ ever \subseteq Births
  BY DEF TypeOK
<1> HIDE DEF pass
<1>5. pass.tracker.settled \subseteq Births
  BY <1>2 DEF Trackers
<1> QED
  BY <1>2, <1>3, <1>4, <1>5

\* The table only grows: a process keeps its PID, image and parent, and a dead
\* one stays dead.
SameProc(x, y) ==
  y.pid = x.pid /\ y.image = x.image /\ y.parent = x.parent /\ (~x.alive => ~y.alive)
Grows(ps, next) ==
  /\ next \in Seq(Proc) /\ Len(ps) <= Len(next)
  /\ \A b \in DOMAIN ps : b \in DOMAIN next /\ SameProc(ps[b], next[b])

\* No process starts.
Ages(ps, next) == Grows(ps, next) /\ Len(next) = Len(ps)

\* The shape of the table survives the end of processes.
LEMMA AgesInv ==
  ASSUME NEW ps, NEW next, ProcsInv(ps), Ages(ps, next)
  PROVE  ProcsInv(next)
<1>1. /\ ps \in Seq(Proc) /\ next \in Seq(Proc) /\ Len(next) = Len(ps) /\ DOMAIN next = DOMAIN ps
      /\ Len(ps) \in Births /\ 1 \in DOMAIN ps
  BY ReaperAssumption DEF ProcsInv, Rooted, Ages, Grows, Births
<1>2. \A b \in DOMAIN ps : SameProc(ps[b], next[b])
  BY DEF Ages, Grows
<1>3. Rooted(next)
  BY <1>1, <1>2 DEF ProcsInv, Rooted, SameProc
<1>4. ParentFirst(next)
  BY <1>1, <1>2 DEF ProcsInv, ParentFirst, SameProc
<1>5. OldHoldersDead(next)
  BY <1>1, <1>2 DEF ProcsInv, OldHoldersDead, SameProc
<1>6. AgentOnTop(next)
  BY <1>1, <1>2 DEF ProcsInv, AgentOnTop, SameProc
<1> QED
  BY <1>3, <1>4, <1>5, <1>6 DEF ProcsInv

\* The end of one process only ages the table.
LEMMA DiesAges ==
  ASSUME ProcsInv(procs), NEW b \in DOMAIN procs, procs' = [procs EXCEPT ![b].alive = FALSE]
  PROVE  Ages(procs, procs')
<1>1. procs \in Seq(Proc) /\ procs[b] \in Proc
  BY DomainOfProcs, ProcAt DEF ProcType
<1> DEFINE e == [procs[b] EXCEPT !.alive = FALSE]
<1>2. e \in Proc /\ SameProc(procs[b], e)
  BY <1>1 DEF Proc, SameProc
<1>3. procs' = [procs EXCEPT ![b] = e]
  OBVIOUS
<1> HIDE DEF e
<1>4. procs' \in Seq(Proc) /\ Len(procs') = Len(procs) /\ DOMAIN procs' = DOMAIN procs
  <2>1. procs \in [1..Len(procs) -> Proc] /\ Len(procs) \in Nat
    BY <1>1
  <2>2. procs' \in [1..Len(procs) -> Proc]
    BY <1>2, <1>3, <2>1
  <2> QED
    BY <1>1, <2>1, <2>2
<1>5. \A c \in DOMAIN procs : SameProc(procs[c], procs'[c])
  <2>1. \A c \in DOMAIN procs : c # b => procs'[c] = procs[c]
    BY <1>1, <1>3
  <2>2. procs'[b] = e
    BY <1>1, <1>3
  <2> QED
    BY <1>2, <2>1, <2>2 DEF SameProc
<1>6. Len(procs) \in Nat /\ Len(procs) <= Len(procs')
  BY <1>1, <1>4
<1> QED
  BY <1>4, <1>5, <1>6 DEF Ages, Grows

\* The close of the tracker, which ends the job, only ages the table.
LEMMA CloseAges ==
  ASSUME ProcsInv(procs), Close
  PROVE  Ages(procs, procs')
<1>1. procs \in Seq(Proc) /\ DOMAIN procs = 1..Len(procs) /\ Len(procs) \in Nat
  BY DomainOfProcs DEF ProcType
<1>2. procs' = [b \in DOMAIN procs |-> IF procs[b].image = "server" THEN procs[b]
                                       ELSE [procs[b] EXCEPT !.alive = FALSE]]
  BY DEF Close
<1>3. ASSUME NEW b \in DOMAIN procs PROVE procs'[b] \in Proc /\ SameProc(procs[b], procs'[b])
  <2>1. procs[b] \in Proc
    BY DomainOfProcs, ProcAt
  <2>2. procs'[b] = procs[b] \/ procs'[b] = [procs[b] EXCEPT !.alive = FALSE]
    BY <1>2
  <2> QED
    BY <2>1, <2>2 DEF Proc, SameProc
<1>4. procs' \in [1..Len(procs) -> Proc]
  BY <1>1, <1>2, <1>3
<1>5. procs' \in Seq(Proc) /\ Len(procs') = Len(procs) /\ DOMAIN procs' = DOMAIN procs
  BY <1>1, <1>4
<1> QED
  BY <1>1, <1>3, <1>5 DEF Ages, Grows

\* The start of a process lets the table grow and keeps its shape: a PID is
\* given out again only when its holder has ended.
LEMMA SpawnGrows ==
  ASSUME ReaperAssumption, ProcsInv(procs), NEW b \in DOMAIN procs, NEW p \in Pids, NEW image \in Images,
         Spawn(b, p, image)
  PROVE  Grows(procs, procs') /\ ProcsInv(procs')
<1> DEFINE e == [pid |-> p, image |-> image, parent |-> b, alive |-> TRUE]
           n == Len(procs)
<1>1. /\ procs \in Seq(Proc) /\ n \in Nat /\ DOMAIN procs = 1..n /\ n < MaxBirths /\ MaxBirths \in Nat
      /\ 1 \in DOMAIN procs
  BY DomainOfProcs, ReaperAssumption DEF ProcType, Spawn
<1>2. procs' = Append(procs, e)
  BY DEF Spawn
<1>3. e \in Proc
  BY <1>1 DEF Proc
<1> HIDE DEF e
<1>4. /\ procs' \in Seq(Proc) /\ Len(procs') = n + 1 /\ DOMAIN procs' = 1..(n + 1)
      /\ procs'[n + 1] = e /\ \A c \in 1..n : procs'[c] = procs[c]
  BY <1>1, <1>2, <1>3
<1>5. Grows(procs, procs')
  BY <1>1, <1>4 DEF Grows, SameProc
<1>6. Rooted(procs')
  BY <1>1, <1>4 DEF ProcsInv, Rooted, Births
<1>7. p # AgentPid
  <2>1. AgentPid = procs[1].pid /\ AgentPid \notin Recycled
    BY DEF ReaperAssumption, ProcsInv, Rooted
  <2>2. Holder(AgentPid) # 0
    BY <1>1, <2>1, DomainOfProcs, HeldPids
  <2> QED
    BY <2>1, <2>2 DEF Spawn
<1>8. ParentFirst(procs')
  <2> SUFFICES ASSUME NEW c \in DOMAIN procs' \ {1}
               PROVE  procs'[c].parent \in 1..(c - 1) /\ procs'[c].pid # AgentPid
    BY DEF ParentFirst
  <2>1. CASE c = n + 1
    BY <1>1, <1>4, <1>7, <2>1 DEF e
  <2>2. CASE c \in 1..n
    BY <1>1, <1>4, <2>2 DEF ProcsInv, ParentFirst
  <2> QED
    BY <1>1, <1>4, <2>1, <2>2
<1>9. \A c \in 1..n : procs[c].pid = p => ~procs[c].alive
  <2> SUFFICES ASSUME NEW c \in 1..n, procs[c].pid = p PROVE ~procs[c].alive
    OBVIOUS
  <2>1. Holder(p) # 0
    BY <1>1, DomainOfProcs, HeldPids
  <2>2. ~Live(p)
    BY <2>1 DEF Spawn
  <2>3. c <= Holder(p) /\ Holder(p) \in 1..n /\ procs[Holder(p)].pid = p /\ ~procs[Holder(p)].alive
    BY <1>1, <2>1, <2>2, DomainOfProcs, HolderType DEF Live
  <2>4. CASE c = Holder(p)
    BY <2>3, <2>4
  <2>5. CASE c < Holder(p)
    BY <1>1, <2>3, <2>5 DEF ProcsInv, OldHoldersDead
  <2> QED
    BY <2>3, <2>4, <2>5
<1>10. OldHoldersDead(procs')
  <2> SUFFICES ASSUME NEW c \in DOMAIN procs', NEW d \in DOMAIN procs', c < d,
                      procs'[c].pid = procs'[d].pid
               PROVE  ~procs'[c].alive
    BY DEF OldHoldersDead
  <2>1. c \in 1..n
    BY <1>1, <1>4
  <2>2. CASE d = n + 1
    BY <1>4, <1>9, <2>1, <2>2 DEF e
  <2>3. CASE d \in 1..n
    BY <1>1, <1>4, <2>1, <2>3 DEF ProcsInv, OldHoldersDead
  <2> QED
    BY <1>1, <1>4, <2>2, <2>3
<1>11. image = "agent" => b = 1
  BY DEF Spawn, ReaperAssumption
<1>12. AgentOnTop(procs')
  <2> SUFFICES ASSUME NEW c \in DOMAIN procs' \ {1}, procs'[c].image = "agent" PROVE procs'[c].parent = 1
    BY DEF AgentOnTop
  <2>1. CASE c = n + 1
    BY <1>4, <1>11, <2>1 DEF e
  <2>2. CASE c \in 1..n
    BY <1>1, <1>4, <2>2 DEF ProcsInv, AgentOnTop
  <2> QED
    BY <1>1, <1>4, <2>1, <2>2
<1> QED
  BY <1>5, <1>6, <1>8, <1>10, <1>12 DEF ProcsInv

-----------------------------------------------------------------------------
(* The tracker and the system.  An entry shows a process that had its PID;   *)
(* one that is taken for dead had a PID some holder of which has died; an    *)
(* exit that is given up is one of a dead process or of a shared PID; and    *)
(* an exit that was ever settled stays settled as long as its entry.         *)

PidOfParent(ps, b) == IF ps[b].parent = 0 THEN 0 ELSE ps[ps[b].parent].pid
DeadHolder(ps, p) == \E b \in DOMAIN ps : ps[b].pid = p /\ ~ps[b].alive
Shared(ps, b) == \E c \in DOMAIN ps \ {b} : ps[c].pid = ps[b].pid
Over(ps, b) == ~ps[b].alive \/ Shared(ps, b)

Mirrors(ps, p, e) ==
  /\ e.birth \in DOMAIN ps /\ ps[e.birth].pid = p
  /\ e.image = ps[e.birth].image /\ e.parent = PidOfParent(ps, e.birth)
  /\ ~e.alive => DeadHolder(ps, p)

Shows(ps, known) == \A p \in Pids : known[p] # None => Mirrors(ps, p, known[p])
Sound(ps, tr) ==
  /\ Shows(ps, tr.known)
  /\ tr.settled \subseteq DOMAIN ps
  /\ \A b \in tr.abandoned : b \in DOMAIN ps /\ Over(ps, b)
Remembers(tr, past) ==
  \A p \in Pids : tr.known[p] # None /\ tr.known[p].birth \in past => tr.known[p].birth \in tr.settled
DeadSet(ps, past) == \A b \in past : b \in DOMAIN ps /\ ~ps[b].alive
Faithful(ps, tr, past) == tr \in Trackers /\ Sound(ps, tr) /\ Remembers(tr, past) /\ DeadSet(ps, past)

\* What a look returns is true of the process it shows.
LEMMA LookMirrors ==
  ASSUME ProcsInv(procs), NEW p \in Pids, NEW look \in Looks(p), look # None
  PROVE  Mirrors(procs, p, look) /\ look \in Meta /\ look.alive = TRUE /\ procs[look.birth].alive
BY LookType DEF Mirrors, PidOfParent, ParentPid

\* Nothing that was true of the entries becomes false when processes start or
\* end.
LEMMA ShowsGrows ==
  ASSUME NEW ps, NEW next, ProcsInv(ps), Grows(ps, next), NEW known, Shows(ps, known)
  PROVE  Shows(next, known)
<1> SUFFICES ASSUME NEW p \in Pids, known[p] # None PROVE Mirrors(next, p, known[p])
  BY DEF Shows
<1> DEFINE e == known[p]
<1>1. Mirrors(ps, p, e)
  BY DEF Shows
<1>2. \A b \in DOMAIN ps : b \in DOMAIN next /\ SameProc(ps[b], next[b])
  BY DEF Grows
<1> HIDE DEF e
<1>3. \A b \in DOMAIN ps : ps[b].parent # 0 => ps[b].parent \in DOMAIN ps
  <2>1. ps \in Seq(Proc) /\ DOMAIN ps = 1..Len(ps) /\ Len(ps) \in Nat /\ ps[1].parent = 0
    BY DEF ProcsInv, Rooted
  <2>2. \A b \in DOMAIN ps \ {1} : ps[b].parent \in 1..(b - 1)
    BY DEF ProcsInv, ParentFirst
  <2> QED
    BY <2>1, <2>2
<1>4. PidOfParent(next, e.birth) = PidOfParent(ps, e.birth)
  BY <1>1, <1>2, <1>3 DEF Mirrors, PidOfParent, SameProc
<1>5. DeadHolder(ps, p) => DeadHolder(next, p)
  BY <1>2 DEF DeadHolder, SameProc
<1> QED
  BY <1>1, <1>2, <1>4, <1>5 DEF Mirrors, SameProc, e

\* A process that is over, or shares its PID, stays so.
LEMMA OverGrows ==
  ASSUME NEW ps, NEW next, Grows(ps, next), NEW b \in DOMAIN ps, Over(ps, b)
  PROVE  b \in DOMAIN next /\ Over(next, b)
<1>1. \A c \in DOMAIN ps : c \in DOMAIN next /\ SameProc(ps[c], next[c])
  BY DEF Grows
<1> QED
  BY <1>1 DEF Over, Shared, SameProc

\* A faithful tracker stays faithful when processes start or end.
LEMMA FaithfulGrows ==
  ASSUME NEW ps, NEW next, ProcsInv(ps), Grows(ps, next), NEW tr, NEW past, Faithful(ps, tr, past)
  PROVE  Faithful(next, tr, past)
<1>1. \A b \in DOMAIN ps : b \in DOMAIN next /\ SameProc(ps[b], next[b])
  BY DEF Grows
<1>2. Shows(next, tr.known)
  BY ShowsGrows DEF Faithful, Sound
<1>3. \A b \in tr.abandoned : b \in DOMAIN next /\ Over(next, b)
  BY OverGrows DEF Faithful, Sound
<1> QED
  BY <1>1, <1>2, <1>3 DEF Faithful, Sound, DeadSet, SameProc

\* One entry is replaced by what was seen, or by one taken for dead.
LEMMA EntryReplaced ==
  ASSUME NEW tr, NEW past, Faithful(procs, tr, past), NEW next \in Trackers, NEW p \in Pids,
         NEW e \in Meta \cup {None},
         next.known = [tr.known EXCEPT ![p] = e], next.settled = tr.settled,
         next.abandoned = tr.abandoned,
         e # None => Mirrors(procs, p, e) /\ (e.birth \in past => e.birth \in tr.settled)
  PROVE  Faithful(procs, next, past)
<1>1. tr.known \in Tables
  BY DEF Faithful, Trackers
<1>2. next.known[p] = e /\ \A q \in Pids \ {p} : next.known[q] = tr.known[q]
  BY <1>1 DEF Tables
<1>3. Shows(procs, next.known)
  BY <1>2 DEF Shows, Faithful, Sound
<1>4. Remembers(next, past)
  BY <1>2 DEF Remembers, Faithful
<1> QED
  BY <1>3, <1>4 DEF Faithful, Sound

\* The message of a start keeps the tracker faithful: the process seen may be
\* a later one with the same PID, but it is shown as it is.
LEMMA ObservedFaithful ==
  ASSUME ProcsInv(procs), NEW tr, NEW past, Faithful(procs, tr, past), NEW p \in Pids,
         NEW look \in Looks(p)
  PROVE  Faithful(procs, Observed(tr, p, look), past)
<1>1. tr \in Trackers
  BY DEF Faithful
<1>2. CASE look = None
  BY <1>1, <1>2, ObservedType DEF Faithful, Sound, Remembers, Observed, Trackers
<1>3. CASE look # None
  <2>1. /\ Mirrors(procs, p, look) /\ look \in Meta /\ look.birth \notin past
    BY <1>3, LookMirrors DEF Faithful, DeadSet
  <2>2. /\ Observed(tr, p, look) \in Trackers
        /\ Observed(tr, p, look).known = [tr.known EXCEPT ![p] = look]
        /\ Observed(tr, p, look).settled = tr.settled
        /\ Observed(tr, p, look).abandoned = tr.abandoned
    BY <1>1, <1>3, <2>1, ObservedType DEF Observed, Trackers
  <2> QED
    BY <2>1, <2>2, EntryReplaced
<1> QED
  BY <1>2, <1>3

\* The message of an exit keeps the tracker faithful: the entry it marks may be
\* that of a later process, but a process with the PID has ended.
LEMMA ExitedFaithful ==
  ASSUME ProcsInv(procs), NEW tr, NEW past, Faithful(procs, tr, past), NEW p \in Pids,
         NEW look \in Looks(p), DeadHolder(procs, p)
  PROVE  Faithful(procs, Exited(tr, p, look), past)
<1> DEFINE final == IF p \in tr.unresolved THEN Observed(tr, p, look) ELSE tr
           e == IF final.known[p] = None THEN None ELSE [final.known[p] EXCEPT !.alive = FALSE]
<1>1. Faithful(procs, final, past)
  BY ObservedFaithful
<1>2. final \in Trackers
  BY <1>1 DEF Faithful
<1>3. Exited(tr, p, look) = [final EXCEPT !.unresolved = final.unresolved \ {p},
                                          !.known = [final.known EXCEPT ![p] = e]]
  BY DEF Exited
<1> HIDE DEF final
<1>4. final.known[p] \in Meta \cup {None}
  BY <1>2 DEF Trackers, Tables
<1>5. e \in Meta \cup {None}
  BY <1>4 DEF Meta
<1>6. e # None => Mirrors(procs, p, e) /\ (e.birth \in past => e.birth \in final.settled)
  <2>1. SUFFICES ASSUME final.known[p] # None
                 PROVE  Mirrors(procs, p, e) /\ (e.birth \in past => e.birth \in final.settled)
    OBVIOUS
  <2>2. Mirrors(procs, p, final.known[p])
        /\ (final.known[p].birth \in past => final.known[p].birth \in final.settled)
    BY <1>1, <2>1 DEF Faithful, Sound, Shows, Remembers
  <2>3. e.birth = final.known[p].birth /\ e.image = final.known[p].image /\ e.parent = final.known[p].parent
    BY <1>4, <2>1 DEF Meta
  <2> HIDE DEF e
  <2> QED
    BY <2>2, <2>3 DEF Mirrors
<1> HIDE DEF e
<1>7. Exited(tr, p, look) \in Trackers
  <2>1. [final.known EXCEPT ![p] = e] \in Tables
    BY <1>2, <1>5 DEF Trackers, Tables
  <2> QED
    BY <1>2, <1>3, <2>1 DEF Trackers
<1>8. /\ Exited(tr, p, look).known = [final.known EXCEPT ![p] = e]
      /\ Exited(tr, p, look).settled = final.settled
      /\ Exited(tr, p, look).abandoned = final.abandoned
  BY <1>2, <1>3 DEF Trackers
<1> QED
  BY <1>1, <1>5, <1>6, <1>7, <1>8, EntryReplaced

\* A scan keeps the tracker faithful.
LEMMA RetriedFaithful ==
  ASSUME ReaperAssumption, ProcsInv(procs), NEW tr, NEW past, Faithful(procs, tr, past), NEW looks,
         looks \in [tr.unresolved -> Meta \cup {None}],
         \A p \in tr.unresolved : looks[p] \in Looks(p)
  PROVE  Faithful(procs, Retried(tr, looks), past)
<1> DEFINE next == Retried(tr, looks)
           left == {p \in tr.unresolved : looks[p] = None}
           known == [p \in Pids |-> IF p \in tr.unresolved \ left THEN looks[p] ELSE tr.known[p]]
<1>1. tr \in Trackers /\ tr.unresolved \subseteq Pids
  BY DEF Faithful, Trackers
<1>2. next \in Trackers
  BY <1>1, RetriedType
<1>3. next.known = known /\ next.settled = tr.settled /\ next.abandoned = tr.abandoned
  BY <1>1 DEF Retried, Trackers
<1> HIDE DEF next
<1>4. ASSUME NEW p \in Pids, known[p] # None
      PROVE  Mirrors(procs, p, known[p]) /\ (known[p].birth \in past => known[p].birth \in tr.settled)
  <2>1. CASE p \in tr.unresolved \ left
    <3>1. known[p] = looks[p] /\ looks[p] \in Looks(p) /\ looks[p] # None
      BY <2>1
    <3>2. Mirrors(procs, p, looks[p]) /\ procs[looks[p].birth].alive
      BY <3>1, LookMirrors
    <3>3. looks[p].birth \notin past
      BY <3>2 DEF Faithful, DeadSet
    <3> QED
      BY <3>1, <3>2, <3>3
  <2>2. CASE p \notin tr.unresolved \ left
    <3>1. known[p] = tr.known[p]
      BY <2>2
    <3> QED
      BY <1>4, <3>1 DEF Faithful, Sound, Shows, Remembers
  <2> QED
    BY <2>1, <2>2
<1> HIDE DEF known
<1>5. Shows(procs, next.known) /\ Remembers(next, past)
  BY <1>3, <1>4 DEF Shows, Remembers
<1>6. Sound(procs, next) /\ DeadSet(procs, past)
  BY <1>3, <1>5 DEF Faithful, Sound
<1> QED
  BY <1>2, <1>5, <1>6 DEF Faithful, next

\* The eviction of an entry forgets that its exit was settled, and no exit that
\* another entry still shows.
LEMMA PurgedFaithful ==
  ASSUME NEW tr, NEW past, Faithful(procs, tr, past), NEW gone \in SUBSET Pids,
         \A p \in gone : tr.known[p] # None
  PROVE  /\ Faithful(procs, Purged(tr, gone), past)
         /\ Purged(tr, gone).settled \subseteq tr.settled
<1> DEFINE next == Purged(tr, gone)
           known == [p \in Pids |-> IF p \in gone THEN None ELSE tr.known[p]]
           births == {tr.known[p].birth : p \in gone}
<1>1. tr \in Trackers
  BY DEF Faithful
<1>2. next \in Trackers
  BY <1>1, PurgedType
<1>3. next.known = known /\ next.settled = tr.settled \ births /\ next.abandoned = tr.abandoned
  BY <1>1 DEF Purged, Trackers
<1>4. \A p \in Pids : known[p] # None => p \notin gone /\ known[p] = tr.known[p]
  OBVIOUS
<1>5. Shows(procs, next.known)
  BY <1>3, <1>4 DEF Shows, Faithful, Sound
<1>6. Remembers(next, past)
  <2> SUFFICES ASSUME NEW p \in Pids, known[p] # None, known[p].birth \in past
               PROVE  known[p].birth \in tr.settled \ births
    BY <1>3 DEF Remembers
  <2>1. p \notin gone /\ known[p] = tr.known[p]
    BY <1>4
  <2>2. tr.known[p].birth \in tr.settled
    BY <2>1 DEF Faithful, Remembers
  <2>3. ASSUME NEW q \in gone PROVE tr.known[q].birth # tr.known[p].birth
    <3>1. procs[tr.known[q].birth].pid = q /\ procs[tr.known[p].birth].pid = p
      BY <2>1, <2>3 DEF Faithful, Sound, Shows, Mirrors
    <3> QED
      BY <2>1, <3>1
  <2> QED
    BY <2>1, <2>2, <2>3
<1>7. next.settled \subseteq tr.settled
  BY <1>3
<1>8. Sound(procs, next) /\ DeadSet(procs, past)
  BY <1>3, <1>5 DEF Faithful, Sound
<1> QED
  BY <1>2, <1>5, <1>6, <1>7, <1>8 DEF Faithful

\* A shell that waits to be settled was not settled before; it is over, unless
\* its PID is shared.
LEMMA EndedOver ==
  ASSUME NEW tr, NEW past, Faithful(procs, tr, past), NEW b \in Ended(tr)
  PROVE  b \in DOMAIN procs /\ Over(procs, b) /\ b \notin past
<1>1. PICK p \in Pending(tr) : b = tr.known[p].birth
  BY DEF Ended
<1>2. p \in Pids /\ tr.known[p] # None /\ ~tr.known[p].alive /\ b \notin tr.settled
  BY <1>1, PendingKnown
<1>3. Mirrors(procs, p, tr.known[p])
  BY <1>2 DEF Faithful, Sound, Shows
<1>4. b \in DOMAIN procs /\ Over(procs, b)
  BY <1>1, <1>2, <1>3 DEF Mirrors, DeadHolder, Over, Shared
<1>5. b \notin past
  BY <1>1, <1>2 DEF Faithful, Remembers
<1> QED
  BY <1>4, <1>5

\* To settle pending exits keeps the tracker faithful, and settles none again.
LEMMA SettlesFaithful ==
  ASSUME NEW tr, NEW past, Faithful(procs, tr, past), NEW next, Settles(tr, next)
  PROVE  Faithful(procs, next, past) /\ (next.settled \ tr.settled) \cap past = {}
<1>1. PICK now, kept, waits, lost :
         /\ now \cup kept \cup waits \cup lost \subseteq Ended(tr)
         /\ next = Settle(Deferring(tr, kept, waits, lost), now \cup lost)
  BY DEF Settles
<1>2. tr \in Trackers
  BY DEF Faithful
<1>3. now \cup kept \cup waits \cup lost \subseteq Births
  BY <1>1, <1>2, EndedType
<1>4. Deferring(tr, kept, waits, lost) \in Trackers /\ next \in Trackers
  BY <1>1, <1>2, <1>3, DeferringType, SettleType
<1>5. /\ next.known = tr.known /\ next.settled = tr.settled \cup now \cup lost
      /\ next.abandoned = tr.abandoned \cup lost
  BY <1>1, <1>2, <1>4 DEF Settle, Deferring, Trackers
<1>6. \A b \in now \cup lost : b \in DOMAIN procs /\ Over(procs, b) /\ b \notin past
  BY <1>1, EndedOver
<1>7. Sound(procs, next)
  BY <1>5, <1>6 DEF Faithful, Sound
<1>8. Remembers(next, past)
  BY <1>5 DEF Faithful, Remembers
<1>9. (next.settled \ tr.settled) \cap past = {}
  BY <1>5, <1>6
<1> QED
  BY <1>4, <1>7, <1>8, <1>9 DEF Faithful

\* A pass keeps the tracker faithful, to the exits it settles as well.
LEMMA PassFaithful ==
  ASSUME NEW tr, NEW past, Faithful(procs, tr, past), NEW registered, NEW final, NEW late, NEW held,
         NEW gone \in SUBSET Pids, \A p \in gone : tr.known[p] # None
  PROVE  LET next == Pass(tr, registered, final, late, gone, held).tracker
         IN  /\ Faithful(procs, next, past \cup {b \in next.settled : ~procs[b].alive})
             /\ (next.settled \ tr.settled) \cap past = {}
<1> DEFINE mid == Purged(tr, gone)
           next == Pass(tr, registered, final, late, gone, held).tracker
<1>1. Faithful(procs, mid, past) /\ mid.settled \subseteq tr.settled
  BY PurgedFaithful
<1>2. Settles(mid, next)
  BY PassParts
<1> HIDE DEF mid, next
<1>3. Faithful(procs, next, past) /\ (next.settled \ mid.settled) \cap past = {}
  BY <1>1, <1>2, SettlesFaithful
<1>4. next.settled \subseteq DOMAIN procs
  BY <1>3 DEF Faithful, Sound
<1> DEFINE more == {b \in next.settled : ~procs[b].alive}
<1>5. Remembers(next, past \cup more) /\ DeadSet(procs, past \cup more)
  BY <1>3, <1>4 DEF Faithful, Remembers, DeadSet
<1>6. Faithful(procs, next, past \cup more)
  BY <1>3, <1>5 DEF Faithful
<1>7. (next.settled \ tr.settled) \cap past = {}
  BY <1>1, <1>3
<1> QED
  BY <1>6, <1>7 DEF next

-----------------------------------------------------------------------------
(* Lines of descent                                                          *)

ParentsIn(ps, S) == {ps[c].parent : c \in S \ {0}}

LineOf(ps, b) ==
  LET up[n \in 0..MaxBirths] ==
        IF n = 0 THEN {ps[b].parent}
        ELSE LET S == up[n - 1] IN S \cup {ps[c].parent : c \in S \ {0}}
  IN  up[MaxBirths] \ {0}

\* The line of a process, in the table as it is.
LEMMA LineIsLineOf == \A b : Line(b) = LineOf(procs, b)
BY DEF Line, LineOf

\* The facts about a table that descent needs.
LEMMA ParentsBefore ==
  ASSUME NEW ps, ProcsInv(ps)
  PROVE  /\ MaxBirths \in Nat /\ DOMAIN ps \subseteq 1..MaxBirths
         /\ \A b \in DOMAIN ps : ps[b].parent # 0 => ps[b].parent \in DOMAIN ps
         /\ \A b \in DOMAIN ps : ps[b].parent = 0 <=> b = 1
<1>1. /\ ps \in Seq(Proc) /\ DOMAIN ps = 1..Len(ps) /\ Len(ps) \in 1..MaxBirths /\ ps[1].parent = 0
      /\ MaxBirths \in Nat
  BY ReaperAssumption DEF ProcsInv, Rooted, Births
<1>2. \A b \in DOMAIN ps \ {1} : ps[b].parent \in 1..(b - 1)
  BY DEF ProcsInv, ParentFirst
<1> QED
  BY <1>1, <1>2

\* LineOf as a function of the generation.
LEMMA LineUnfolds ==
  ASSUME NEW ps, ProcsInv(ps), NEW b \in DOMAIN ps
  PROVE  \E f : /\ f[0] = {ps[b].parent}
                /\ \A n \in 1..MaxBirths : f[n] = f[n-1] \cup ParentsIn(ps, f[n-1])
                /\ LineOf(ps, b) = f[MaxBirths] \ {0}
<1> DEFINE U == DOMAIN ps \cup {0}
           N == MaxBirths
           A == {ps[b].parent}
           Grown(S) == S \cup ParentsIn(ps, S)
           G == [S \in SUBSET U |-> Grown(S)]
           Is(h) == h = [n \in 0..N |-> IF n = 0 THEN A ELSE Grown(h[n-1])]
           f == CHOOSE h : Is(h)
<1>1. N \in Nat /\ A \in SUBSET U
  BY ParentsBefore
<1>2. \A S \in SUBSET U : ParentsIn(ps, S) \in SUBSET U
  BY ParentsBefore DEF ParentsIn
<1>3. \A S \in SUBSET U : G[S] = Grown(S)
  OBVIOUS
<1>4. G \in [SUBSET U -> SUBSET U]
  <2>1. \A S \in SUBSET U : Grown(S) \in SUBSET U
    BY <1>2
  <2> HIDE DEF Grown
  <2> QED
    BY <2>1
<1>5. LineOf(ps, b) = f[N] \ {0}
  BY DEF LineOf, ParentsIn
<1> HIDE DEF A, N, G, Grown, f
<1>6. PICK g : Iterated(g, U, A, G, N)
  BY <1>1, <1>4, Iterates
<1>7. Is(g)
  <2>1. \A n \in 0..N : n # 0 => n \in 1..N /\ n - 1 \in 0..N
    BY <1>1
  <2>2. \A n \in 0..N : g[n] = IF n = 0 THEN A ELSE Grown(g[n-1])
    BY <1>3, <1>6, <2>1 DEF Iterated
  <2> QED
    BY <1>6, <2>2 DEF Iterated
<1>8. Is(f)
  BY <1>7 DEF f
<1>9. f[0] = A /\ \A n \in 1..N : f[n] = Grown(f[n-1])
  BY <1>1, <1>8
<1> QED
  BY <1>5, <1>9 DEF A, N, Grown

\* What holds of the parent and passes to parents holds in all of the line.
LEMMA LineLeast ==
  ASSUME NEW ps, ProcsInv(ps), NEW b \in DOMAIN ps, NEW C,
         ps[b].parent # 0 => ps[b].parent \in C,
         \A c \in C \cap DOMAIN ps : ps[c].parent # 0 => ps[c].parent \in C
  PROVE  LineOf(ps, b) \subseteq C \cap DOMAIN ps
<1> DEFINE N == MaxBirths
           D == (C \cap DOMAIN ps) \cup {0}
<1>1. N \in Nat /\ N \in 0..N
  BY ParentsBefore
<1>2. PICK f : /\ f[0] = {ps[b].parent}
               /\ \A n \in 1..N : f[n] = f[n-1] \cup ParentsIn(ps, f[n-1])
               /\ LineOf(ps, b) = f[N] \ {0}
  BY LineUnfolds
<1>3. f[0] \subseteq D
  BY <1>2, ParentsBefore
<1>4. \A S : S \subseteq D => ParentsIn(ps, S) \subseteq D
  BY ParentsBefore DEF ParentsIn
<1>5. \A n \in 1..N : f[n-1] \subseteq D => f[n] \subseteq D
  BY <1>2, <1>4
<1> HIDE DEF N, D
<1>6. \A n \in 0..N : f[n] \subseteq D
  BY <1>1, <1>3, <1>5, IterationStays
<1> QED
  BY <1>1, <1>2, <1>6 DEF D

\* A line has the parent, and the parents of those it has.
LEMMA LineClosed ==
  ASSUME NEW ps, ProcsInv(ps), NEW b \in DOMAIN ps
  PROVE  /\ ps[b].parent # 0 => ps[b].parent \in LineOf(ps, b)
         /\ \A c \in LineOf(ps, b) : ps[c].parent # 0 => ps[c].parent \in LineOf(ps, b)
<1> DEFINE N == MaxBirths
           U == 0..N
           Up(S) == ParentsIn(ps, S \cap DOMAIN ps)
           G == [S \in SUBSET U |-> Up(S)]
<1>1. N \in Nat /\ IsFiniteSet(U) /\ Cardinality(U) = N + 1
  <2>1. N \in Nat
    BY ParentsBefore
  <2> QED
    BY <2>1, FS_Interval
<1>2. PICK f : /\ f[0] = {ps[b].parent}
               /\ \A n \in 1..N : f[n] = f[n-1] \cup ParentsIn(ps, f[n-1])
               /\ LineOf(ps, b) = f[N] \ {0}
  BY LineUnfolds
<1>3. \A S : Up(S) \in SUBSET U
  BY <1>1, ParentsBefore DEF ParentsIn
<1>4. G \in [SUBSET U -> SUBSET U]
  BY <1>3
<1> DEFINE D == DOMAIN ps \cup {0}
<1>5. \A S : S \subseteq D => ParentsIn(ps, S) = Up(S)
  BY DEF ParentsIn
<1>6. \A n \in 0..N : f[n] \subseteq D /\ ps[b].parent \in f[n]
  <2> DEFINE Q == {n \in 0..N : f[n] \subseteq D /\ ps[b].parent \in f[n]}
  <2>1. 0 \in Q
    BY <1>1, <1>2, ParentsBefore
  <2>2. ASSUME NEW n \in 1..N, n - 1 \in Q PROVE n \in Q
    <3>1. f[n-1] \subseteq D /\ ps[b].parent \in f[n-1]
      BY <2>2
    <3>2. ParentsIn(ps, f[n-1]) \subseteq D
      BY <3>1, ParentsBefore DEF ParentsIn
    <3>3. f[n] \subseteq D /\ ps[b].parent \in f[n]
      BY <1>2, <3>1, <3>2
    <3> QED
      BY <1>1, <3>3
  <2> HIDE DEF N
  <2>3. 0..N \subseteq Q
    <3> HIDE DEF Q
    <3> QED
      BY <1>1, <2>1, <2>2, Inducts
  <2> QED
    BY <2>3
<1>7. D \subseteq U
  BY <1>1, ParentsBefore
<1>8. \A n \in 1..N : f[n] = f[n-1] \cup G[f[n-1]]
  <2>1. \A n \in 1..N : n - 1 \in 0..N
    BY <1>1
  <2>2. \A n \in 1..N : f[n-1] \subseteq D /\ f[n-1] \in SUBSET U
    BY <1>6, <1>7, <2>1
  <2> HIDE DEF D, U, Up
  <2>3. \A S \in SUBSET U : G[S] = Up(S)
    OBVIOUS
  <2> QED
    BY <1>2, <1>5, <2>2, <2>3
<1>9. f[N] \in SUBSET U /\ G[f[N]] \subseteq f[N]
  <2>1. f[0] \in SUBSET U /\ f[0] # {}
    BY <1>1, <1>2, <1>6, <1>7
  <2>2. Cardinality(U) <= N + 1
    BY <1>1
  <2> HIDE DEF N, G, U
  <2> QED
    BY <1>1, <1>4, <1>8, <2>1, <2>2, IterationCloses
<1>10. N \in 0..N
  BY <1>1
<1>11. f[N] \subseteq D /\ ps[b].parent \in f[N] /\ ParentsIn(ps, f[N]) \subseteq f[N]
  BY <1>5, <1>6, <1>9, <1>10
<1> HIDE DEF N, D
<1> QED
  BY <1>2, <1>11 DEF ParentsIn

\* The line of a process is its parent and the line of its parent.
LEMMA LineStep ==
  ASSUME NEW ps, ProcsInv(ps), NEW b \in DOMAIN ps
  PROVE  /\ LineOf(ps, b) \subseteq DOMAIN ps
         /\ ps[b].parent = 0 => LineOf(ps, b) = {}
         /\ ps[b].parent # 0 => LineOf(ps, b) = {ps[b].parent} \cup LineOf(ps, ps[b].parent)
<1>1. CASE ps[b].parent = 0
  <2>1. LineOf(ps, b) \subseteq {} \cap DOMAIN ps
    BY <1>1, LineLeast
  <2> QED
    BY <1>1, <2>1
<1>2. CASE ps[b].parent # 0
  <2> DEFINE a == ps[b].parent
  <2>1. a \in DOMAIN ps
    BY <1>2, ParentsBefore
  <2>2. LineOf(ps, b) \subseteq ({a} \cup LineOf(ps, a)) \cap DOMAIN ps
    <3> DEFINE C == {a} \cup LineOf(ps, a)
    <3>1. \A c \in C : ps[c].parent # 0 => ps[c].parent \in C
      BY <2>1, LineClosed
    <3>2. a \in C
      OBVIOUS
    <3> HIDE DEF C
    <3>3. LineOf(ps, b) \subseteq C \cap DOMAIN ps
      BY <3>1, <3>2, LineLeast
    <3> QED
      BY <3>3 DEF C
  <2>3. LineOf(ps, a) \subseteq LineOf(ps, b)
    <3>1. a \in LineOf(ps, b) /\ \A c \in LineOf(ps, b) : ps[c].parent # 0 => ps[c].parent \in LineOf(ps, b)
      BY <1>2, LineClosed
    <3> DEFINE C == LineOf(ps, b)
    <3>2. /\ ps[a].parent # 0 => ps[a].parent \in C
          /\ \A c \in C \cap DOMAIN ps : ps[c].parent # 0 => ps[c].parent \in C
      BY <3>1
    <3> HIDE DEF C
    <3>3. LineOf(ps, a) \subseteq C \cap DOMAIN ps
      BY <2>1, <3>2, LineLeast
    <3> QED
      BY <3>3 DEF C
  <2>4. a \in LineOf(ps, b)
    BY <1>2, LineClosed
  <2> QED
    BY <1>2, <2>2, <2>3, <2>4
<1> QED
  BY <1>1, <1>2

\* Lines of descent do not change.
LEMMA LineGrows ==
  ASSUME NEW ps, NEW next, ProcsInv(ps), ProcsInv(next), Grows(ps, next), NEW b \in DOMAIN ps
  PROVE  LineOf(next, b) = LineOf(ps, b)
<1>1. \A c \in DOMAIN ps : c \in DOMAIN next /\ next[c].parent = ps[c].parent
  BY DEF Grows, SameProc
<1>2. LineOf(ps, b) \subseteq DOMAIN ps
  BY LineStep
<1>3. LineOf(next, b) \subseteq LineOf(ps, b) \cap DOMAIN next
  <2> DEFINE C == LineOf(ps, b)
  <2>1. /\ next[b].parent # 0 => next[b].parent \in C
        /\ \A c \in C \cap DOMAIN next : next[c].parent # 0 => next[c].parent \in C
    BY <1>1, <1>2, LineClosed
  <2> HIDE DEF C
  <2>2. LineOf(next, b) \subseteq C \cap DOMAIN next
    BY <1>1, <2>1, LineLeast
  <2> QED
    BY <2>2 DEF C
<1>4. LineOf(ps, b) \subseteq LineOf(next, b)
  <2> DEFINE C == LineOf(next, b)
  <2>1. /\ ps[b].parent # 0 => ps[b].parent \in C
        /\ \A c \in C \cap DOMAIN ps : ps[c].parent # 0 => ps[c].parent \in C
    BY <1>1, LineClosed
  <2> HIDE DEF C
  <2>2. LineOf(ps, b) \subseteq C \cap DOMAIN ps
    BY <2>1, LineLeast
  <2> QED
    BY <2>2 DEF C
<1> QED
  BY <1>3, <1>4

-----------------------------------------------------------------------------
(* Roles *)

RoleNames == {"root", "bootstrap", "agentHost", "toolShell", "handoff", "client"}
RoleStart(known, registered) ==
  IF known[AgentPid] = None \/ registered = 0 \/ known[AgentPid].birth # registered THEN {}
  ELSE {<<AgentPid, IF known[AgentPid].image = "agent" THEN "agentHost" ELSE "root">>}
ChildrenOf(known, r) == {q \in Pids : known[q] # None /\ known[q].parent = r[1]}
RoleStep(known, S) ==
  UNION {{<<q, ChildRole(up[2], known[up[1]].image, known[q].image)>> : q \in ChildrenOf(known, up)} :
            up \in S}

RolesOf(S) == [p \in Pids |-> IF \E r \in S : r[1] = p THEN (CHOOSE r \in S : r[1] = p)[2] ELSE None]

\* Roles are of a few kinds.
LEMMA ChildRoleType ==
  ASSUME NEW role, NEW above, NEW image
  PROVE  ChildRole(role, above, image) \in RoleNames
BY DEF ChildRole, RoleNames

\* f gives the roles of each round, and the last round has them all.
Spreads(known, registered, f) ==
  /\ f[0] = RoleStart(known, registered)
  /\ \A n \in 1..Cardinality(Pids) : f[n] = f[n-1] \cup RoleStep(known, f[n-1])
  /\ Roles(known, registered) = RolesOf(f[Cardinality(Pids)])

\* Roles as a function of the round.
LEMMA RolesUnfolds ==
  ASSUME ReaperAssumption, NEW known, NEW registered
  PROVE  \E f : Spreads(known, registered, f)
<1> DEFINE U == Pids \X RoleNames
           N == Cardinality(Pids)
           A == RoleStart(known, registered)
           Grown(S) == S \cup RoleStep(known, S)
           G == [S \in SUBSET U |-> Grown(S)]
           Is(h) == h = [n \in 0..N |-> IF n = 0 THEN A ELSE Grown(h[n-1])]
           f == CHOOSE h : Is(h)
<1>1. N \in Nat
  BY FS_CardinalityType DEF ReaperAssumption
<1>2. A \in SUBSET U
  BY DEF RoleStart, RoleNames, ReaperAssumption
<1>3. \A S \in SUBSET U : G[S] = Grown(S)
  OBVIOUS
<1>4. G \in [SUBSET U -> SUBSET U]
  <2>1. \A S : RoleStep(known, S) \in SUBSET U
    BY ChildRoleType DEF RoleStep, ChildrenOf
  <2>2. \A S \in SUBSET U : Grown(S) \in SUBSET U
    BY <2>1
  <2> HIDE DEF Grown
  <2> QED
    BY <2>2
<1>5. Roles(known, registered) = RolesOf(f[N])
  BY DEF Roles, RolesOf, RoleStart, RoleStep, ChildrenOf
<1> HIDE DEF A, N, G, Grown, f, U
<1>6. PICK g : Iterated(g, U, A, G, N)
  BY <1>1, <1>2, <1>4, Iterates
<1>7. Is(g)
  <2>1. \A n \in 0..N : n # 0 => n \in 1..N /\ n - 1 \in 0..N
    BY <1>1
  <2>2. \A n \in 0..N : g[n] = IF n = 0 THEN A ELSE Grown(g[n-1])
    BY <1>3, <1>6, <2>1 DEF Iterated
  <2> QED
    BY <1>6, <2>2 DEF Iterated
<1>8. Is(f)
  BY <1>7 DEF f
<1>9. f[0] = A /\ \A n \in 1..N : f[n] = Grown(f[n-1])
  BY <1>1, <1>8
<1> QED
  BY <1>5, <1>9 DEF A, N, Grown, Spreads

\* C holds with a role the role of each child.
Passes(known, C) ==
  \A up \in C : \A q \in ChildrenOf(known, up) :
     <<q, ChildRole(up[2], known[up[1]].image, known[q].image)>> \in C

\* What holds of the backend's role and passes from a process to those whose
\* entry names it as parent holds of every role.
LEMMA RolesLeast ==
  ASSUME ReaperAssumption, NEW known, NEW registered, NEW C,
         RoleStart(known, registered) \subseteq C,
         Passes(known, C)
  PROVE  \A p \in Pids : Roles(known, registered)[p] # None =>
            \E r \in C : r[1] = p /\ r[2] = Roles(known, registered)[p]
<1> DEFINE N == Cardinality(Pids)
<1>1. N \in Nat /\ N \in 0..N
  BY FS_CardinalityType DEF ReaperAssumption
<1>f. PICK f : Spreads(known, registered, f)
  BY RolesUnfolds
<1>2. /\ f[0] = RoleStart(known, registered)
      /\ \A n \in 1..N : f[n] = f[n-1] \cup RoleStep(known, f[n-1])
      /\ Roles(known, registered) = RolesOf(f[N])
  BY <1>f DEF Spreads
<1>3. \A S : S \subseteq C => RoleStep(known, S) \subseteq C
  BY DEF RoleStep, Passes
<1>4. \A n \in 1..N : f[n-1] \subseteq C => f[n] \subseteq C
  BY <1>2, <1>3
<1>0. f[0] \subseteq C
  BY <1>2
<1> HIDE DEF N
<1>5. \A n \in 0..N : f[n] \subseteq C
  BY <1>0, <1>1, <1>4, IterationStays
<1>6. f[N] \subseteq C
  BY <1>1, <1>5
<1> SUFFICES ASSUME NEW p \in Pids, Roles(known, registered)[p] # None
             PROVE  \E r \in C : r[1] = p /\ r[2] = Roles(known, registered)[p]
  OBVIOUS
<1>7. \E r \in f[N] : r[1] = p
  BY <1>2 DEF RolesOf
<1>8. Roles(known, registered)[p] = (CHOOSE r \in f[N] : r[1] = p)[2]
  BY <1>2, <1>7 DEF RolesOf
<1> QED
  BY <1>6, <1>7, <1>8

\* What has a role is the backend, or the child of what has one, and has one
\* role only: the backend's entry names no PID as its parent.
LEMMA RolesOnce ==
  ASSUME ReaperAssumption, NEW known, known[AgentPid] # None => known[AgentPid].parent \notin Pids,
         NEW registered, NEW N \in Nat, NEW f,
         f[0] = RoleStart(known, registered), f[N] \in SUBSET (Pids \X RoleNames),
         \A n \in 1..N : f[n] = f[n-1] \cup RoleStep(known, f[n-1])
  PROVE  /\ f[N] \subseteq RoleStart(known, registered) \cup RoleStep(known, f[N])
         /\ \A r, x \in f[N] : r[1] = x[1] => r = x
<1> DEFINE start == RoleStart(known, registered)
           all == f[N]
           C == start \cup RoleStep(known, all)
           D == {r \in all : \A x \in all : x[1] = r[1] => x = r}
<1>1. \A n \in 0..N : f[n] \subseteq all
  <2> DEFINE Q == {n \in 0..N : f[N - n] \subseteq f[N]}
  <2>1. 0 \in Q
    OBVIOUS
  <2>2. ASSUME NEW n \in 1..N, n - 1 \in Q PROVE n \in Q
    <3> DEFINE k == N - (n - 1)
    <3>1. k \in 1..N /\ k - 1 = N - n /\ f[k] \subseteq f[N] /\ n \in 0..N
      BY <2>2
    <3>2. f[k - 1] \subseteq f[k]
      BY <3>1
    <3>3. f[N - n] \subseteq f[N]
      <4> HIDE DEF k
      <4> QED
        BY <3>1, <3>2
    <3> QED
      BY <3>1, <3>3
  <2>3. 0..N \subseteq Q
    <3> HIDE DEF Q
    <3> QED
      BY <2>1, <2>2, Inducts
  <2> SUFFICES ASSUME NEW n \in 0..N PROVE f[n] \subseteq f[N]
    OBVIOUS
  <2>4. N - n \in 0..N /\ N - (N - n) = n
    OBVIOUS
  <2> QED
    BY <2>3, <2>4
<1>2. \A S \in SUBSET all : RoleStep(known, S) \subseteq RoleStep(known, all)
  BY DEF RoleStep
<1>3. all \subseteq C
  <2>1. ASSUME NEW n \in 1..N, f[n-1] \subseteq C PROVE f[n] \subseteq C
    <3>1. n - 1 \in 0..N /\ f[n] = f[n-1] \cup RoleStep(known, f[n-1])
      OBVIOUS
    <3>2. RoleStep(known, f[n-1]) \subseteq RoleStep(known, all)
      BY <1>1, <1>2, <3>1
    <3> QED
      BY <2>1, <3>1, <3>2
  <2>2. f[0] \subseteq C /\ N \in 0..N
    OBVIOUS
  <2> HIDE DEF C
  <2> QED
    BY <2>1, <2>2, IterationStays
<1>4. ASSUME NEW x \in all
      PROVE  \/ x \in start /\ x[1] = AgentPid
             \/ \E up \in all : /\ x[1] \in ChildrenOf(known, up)
                                /\ x = <<x[1], ChildRole(up[2], known[up[1]].image, known[x[1]].image)>>
  <2>1. CASE x \in start
    BY <2>1 DEF RoleStart
  <2>2. CASE x \in RoleStep(known, all)
    BY <2>2 DEF RoleStep
  <2> QED
    BY <1>3, <2>1, <2>2
<1>5. \A up \in all : up[1] \in Pids
  OBVIOUS
<1>6. \A up \in all : AgentPid \notin ChildrenOf(known, up)
  BY <1>5 DEF ChildrenOf
<1>7. \A r, x \in start : r = x
  BY DEF RoleStart
<1>8. start \subseteq D
  <2> SUFFICES ASSUME NEW r \in start, NEW x \in all, x[1] = r[1] PROVE r \in all /\ x = r
    BY <1>1 DEF D
  <2>1. r \in all /\ r[1] = AgentPid
    BY <1>1 DEF RoleStart
  <2> QED
    BY <1>4, <1>6, <1>7, <2>1
<1>9. ASSUME NEW n \in 1..N, f[n-1] \subseteq D PROVE f[n] \subseteq D
  <2> SUFFICES ASSUME NEW r \in f[n], r \notin f[n-1] PROVE r \in D
    BY <1>9
  <2>1. r \in all /\ r \in RoleStep(known, f[n-1])
    BY <1>1
  <2>2. PICK up \in f[n-1] : /\ r[1] \in ChildrenOf(known, up)
                             /\ r = <<r[1], ChildRole(up[2], known[up[1]].image, known[r[1]].image)>>
    BY <2>1 DEF RoleStep
  <2>3. up \in all /\ \A y \in all : y[1] = up[1] => y = up
    BY <1>9, <2>2
  <2>4. ASSUME NEW x \in all, x[1] = r[1] PROVE x = r
    <3>1. PICK below \in all :
             /\ x[1] \in ChildrenOf(known, below)
             /\ x = <<x[1], ChildRole(below[2], known[below[1]].image, known[x[1]].image)>>
      BY <1>4, <1>6, <2>2, <2>3, <2>4
    <3>2. below[1] = up[1]
      BY <2>2, <2>4, <3>1 DEF ChildrenOf
    <3>3. below = up
      BY <2>3, <3>2
    <3> QED
      BY <2>2, <2>4, <3>1, <3>3
  <2> QED
    BY <2>1, <2>4
<1>10. all \subseteq D
  <2>1. f[0] \subseteq D /\ N \in 0..N
    BY <1>8
  <2> HIDE DEF D
  <2> QED
    BY <1>9, <2>1, IterationStays
<1> QED
  BY <1>3, <1>10

\* As many rounds as there are PIDs give a role to every child of what has one.
LEMMA RolesReach ==
  ASSUME ReaperAssumption, NEW known, NEW f, f[0] # {},
         \A n \in 0..Cardinality(Pids) : f[n] \in SUBSET (Pids \X RoleNames),
         \A n \in 1..Cardinality(Pids) : f[n] = f[n-1] \cup RoleStep(known, f[n-1])
  PROVE  \A up \in f[Cardinality(Pids)] : \A q \in ChildrenOf(known, up) :
            \E r \in f[Cardinality(Pids)] : r[1] = q
<1> DEFINE N == Cardinality(Pids)
           Has(S) == {r[1] : r \in S}
           G == [S \in SUBSET Pids |-> {q \in Pids : known[q] # None /\ known[q].parent \in S}]
           g == [n \in 0..N |-> Has(f[n])]
<1>1. N \in Nat /\ IsFiniteSet(Pids) /\ Cardinality(Pids) <= N + 1
  BY FS_CardinalityType DEF ReaperAssumption
<1>2. G \in [SUBSET Pids -> SUBSET Pids]
  OBVIOUS
<1>3. \A n \in 0..N : g[n] = Has(f[n]) /\ g[n] \in SUBSET Pids
  OBVIOUS
<1>4. ASSUME NEW S \in SUBSET (Pids \X RoleNames) PROVE Has(RoleStep(known, S)) = G[Has(S)]
  <2>1. Has(S) \in SUBSET Pids
    OBVIOUS
  <2>2. G[Has(S)] = {q \in Pids : known[q] # None /\ known[q].parent \in Has(S)}
    BY <2>1
  <2>3. ASSUME NEW r \in RoleStep(known, S) PROVE r[1] \in G[Has(S)]
    <3>1. PICK up \in S : r[1] \in ChildrenOf(known, up)
      BY DEF RoleStep
    <3> QED
      BY <2>2, <3>1 DEF ChildrenOf
  <2>4. ASSUME NEW q \in G[Has(S)] PROVE \E r \in RoleStep(known, S) : r[1] = q
    <3>1. PICK up \in S : q \in Pids /\ known[q] # None /\ known[q].parent = up[1]
      BY <2>2
    <3> DEFINE r == <<q, ChildRole(up[2], known[up[1]].image, known[q].image)>>
    <3>2. r \in RoleStep(known, S)
      BY <3>1 DEF RoleStep, ChildrenOf
    <3> QED
      BY <3>2
  <2> HIDE DEF G
  <2>5. Has(RoleStep(known, S)) \subseteq G[Has(S)]
    BY <2>3
  <2>6. G[Has(S)] \subseteq Has(RoleStep(known, S))
    BY <2>4
  <2> QED
    BY <2>5, <2>6
<1>5. ASSUME NEW n \in 1..N PROVE g[n] = g[n-1] \cup G[g[n-1]]
  <2>1. n - 1 \in 0..N /\ n \in 0..N /\ f[n] = f[n-1] \cup RoleStep(known, f[n-1])
    BY <1>1
  <2>2. Has(f[n]) = Has(f[n-1]) \cup Has(RoleStep(known, f[n-1]))
    BY <2>1
  <2>3. Has(RoleStep(known, f[n-1])) = G[Has(f[n-1])]
    BY <1>4, <2>1
  <2> QED
    BY <1>3, <2>1, <2>2, <2>3
<1>6. g[0] \in SUBSET Pids /\ g[0] # {} /\ N \in 0..N
  BY <1>1, <1>3
<1> HIDE DEF G, g, N
<1>7. G[g[N]] \subseteq g[N]
  BY <1>1, <1>2, <1>5, <1>6, IterationCloses
<1> SUFFICES ASSUME NEW up \in f[N], NEW q \in ChildrenOf(known, up) PROVE \E r \in f[N] : r[1] = q
  BY DEF N
<1>8. up[1] \in g[N] /\ g[N] \in SUBSET Pids
  BY <1>3, <1>6
<1>9. q \in G[g[N]]
  BY <1>8 DEF G, ChildrenOf
<1> QED
  BY <1>3, <1>6, <1>7, <1>9

\* The child of what has a role has the role that its parent's gives it.
LEMMA RolesClosed ==
  ASSUME ReaperAssumption, NEW known, known[AgentPid] # None => known[AgentPid].parent \notin Pids,
         NEW registered, NEW t \in Pids, Roles(known, registered)[t] # None,
         NEW p \in Pids, known[p] # None, known[p].parent = t
  PROVE  Roles(known, registered)[p]
            = ChildRole(Roles(known, registered)[t], known[t].image, known[p].image)
<1> DEFINE N == Cardinality(Pids)
<1>1. N \in Nat /\ N \in 0..N /\ 0 \in 0..N
  BY FS_CardinalityType DEF ReaperAssumption
<1>f. PICK f : Spreads(known, registered, f)
  BY RolesUnfolds
<1>2. /\ f[0] = RoleStart(known, registered)
      /\ \A n \in 1..N : f[n] = f[n-1] \cup RoleStep(known, f[n-1])
      /\ Roles(known, registered) = RolesOf(f[N])
  BY <1>f DEF Spreads
<1> DEFINE U == Pids \X RoleNames
           start == RoleStart(known, registered)
<1>3. start \in SUBSET U
  BY DEF RoleStart, RoleNames, ReaperAssumption
<1>4. \A S : RoleStep(known, S) \in SUBSET U
  BY ChildRoleType DEF RoleStep, ChildrenOf
<1> HIDE DEF N, U
<1>5. \A n \in 0..N : f[n] \subseteq U
  <2>1. f[0] \subseteq U /\ \A n \in 1..N : f[n-1] \subseteq U => f[n] \subseteq U
    BY <1>2, <1>3, <1>4
  <2> QED
    BY <1>1, <2>1, IterationStays
<1>6. /\ f[N] \subseteq start \cup RoleStep(known, f[N])
      /\ \A r, x \in f[N] : r[1] = x[1] => r = x
  BY <1>1, <1>2, <1>5, RolesOnce DEF U
<1>7. PICK a \in f[N] : a[1] = t /\ Roles(known, registered)[t] = a[2]
  <2>1. \E r \in f[N] : r[1] = t
    BY <1>2 DEF RolesOf
  <2>2. Roles(known, registered)[t] = (CHOOSE r \in f[N] : r[1] = t)[2]
    BY <1>2, <2>1 DEF RolesOf
  <2> QED
    BY <2>1, <2>2
<1>8. f[0] # {}
  <2>1. ASSUME f[0] = {} PROVE FALSE
    <3>1. \A n \in 1..N : f[n-1] \subseteq {} => f[n] \subseteq {}
      BY <1>2 DEF RoleStep
    <3>2. f[N] \subseteq {}
      BY <1>1, <2>1, <3>1, IterationStays
    <3> QED
      BY <1>7, <3>2
  <2> QED
    BY <2>1
<1>9. p \in ChildrenOf(known, a)
  BY <1>7 DEF ChildrenOf
<1>10. PICK r \in f[N] : r[1] = p
  BY <1>2, <1>5, <1>8, <1>9, RolesReach DEF N, U
<1>11. r \notin start
  BY <1>10 DEF RoleStart
<1>12. PICK up \in f[N] : /\ p \in ChildrenOf(known, up)
                          /\ r = <<p, ChildRole(up[2], known[up[1]].image, known[p].image)>>
  BY <1>6, <1>10, <1>11 DEF RoleStep
<1>13. up = a
  BY <1>6, <1>7, <1>12 DEF ChildrenOf
<1>14. Roles(known, registered)[p] = r[2]
  <2>1. Roles(known, registered)[p] = (CHOOSE x \in f[N] : x[1] = p)[2]
    BY <1>2, <1>10 DEF RolesOf
  <2>2. (CHOOSE x \in f[N] : x[1] = p) = r
    BY <1>6, <1>10
  <2> QED
    BY <2>1, <2>2
<1> QED
  BY <1>7, <1>12, <1>13, <1>14

\* No server among a process and its ancestors.
NoServer(b) == \A c \in {b} \cup Line(b) : procs[c].image # "server"

\* The step of a line, in the table as it is.
LEMMA LineOfProcs ==
  ASSUME ProcsInv(procs), NEW b \in DOMAIN procs
  PROVE  /\ Line(b) \subseteq DOMAIN procs
         /\ procs[b].parent = 0 => Line(b) = {}
         /\ procs[b].parent # 0 => /\ procs[b].parent \in DOMAIN procs
                                   /\ Line(b) = {procs[b].parent} \cup Line(procs[b].parent)
<1>1. \A x : Line(x) = LineOf(procs, x)
  BY LineIsLineOf
<1> QED
  BY <1>1, LineStep, ParentsBefore

\* Ancestors are older.
LEMMA LineOlder ==
  ASSUME ProcsInv(procs), NEW b \in DOMAIN procs
  PROVE  \A c \in Line(b) : c < b
<1>1. /\ \A c \in DOMAIN procs : procs[c].parent # 0 => procs[c].parent < c
      /\ DOMAIN procs \subseteq Nat
  <2>1. DOMAIN procs = 1..Len(procs) /\ Len(procs) \in Nat /\ procs[1].parent = 0
    BY DomainOfProcs DEF ProcsInv, Rooted, ProcType
  <2>2. \A c \in DOMAIN procs \ {1} : procs[c].parent \in 1..(c - 1)
    BY DEF ProcsInv, ParentFirst
  <2> QED
    BY <2>1, <2>2
<1> DEFINE C == {c \in DOMAIN procs : c < b}
<1>2. /\ procs[b].parent # 0 => procs[b].parent \in C
      /\ \A c \in C \cap DOMAIN procs : procs[c].parent # 0 => procs[c].parent \in C
  BY <1>1, ParentsBefore
<1> HIDE DEF C
<1>3. LineOf(procs, b) \subseteq C \cap DOMAIN procs
  BY <1>2, LineLeast
<1> QED
  BY <1>3, LineIsLineOf DEF C

\* Nothing but the backend is above the agent.
LEMMA AgentHasNoServer ==
  ASSUME ReaperAssumption, ProcsInv(procs), NEW b \in DOMAIN procs, procs[b].image = "agent"
  PROVE  NoServer(b)
<1>1. procs[1].image \in {"agent", "cmd"} /\ 1 \in DOMAIN procs /\ procs[1].parent = 0
  BY DomainOfProcs DEF ReaperAssumption, ProcsInv, Rooted
<1>2. Line(1) = {}
  BY <1>1, LineOfProcs
<1>3. CASE b = 1
  BY <1>1, <1>2, <1>3 DEF NoServer
<1>4. CASE b # 1
  <2>1. procs[b].parent = 1
    BY <1>4 DEF ProcsInv, AgentOnTop
  <2>2. Line(b) = {1}
    BY <1>2, <2>1, LineOfProcs
  <2> QED
    BY <1>1, <2>2 DEF NoServer
<1> QED
  BY <1>3, <1>4

\* What a role says of the process it is given to.
Deserves(b, role) ==
  /\ role = "agentHost" => procs[b].image = "agent"
  /\ role = "toolShell" => b \in ToolShells /\ NoServer(b)
  /\ role = "handoff" => b \in Handoffs /\ NoServer(b)

Apart(b) == \A c \in Line(b) : ~Reused(c)

\* The entry that the entry of a process names as parent is the one of its
\* parent, if the parent's PID is its own.
LEMMA ParentEntry ==
  ASSUME ProcsInv(procs), NEW known, Shows(procs, known), NEW q \in Pids, known[q] # None,
         NEW u \in Pids, known[u] # None, known[q].parent = u, Apart(known[q].birth)
  PROVE  /\ known[q].birth \in DOMAIN procs /\ known[u].birth \in DOMAIN procs
         /\ procs[known[q].birth].parent = known[u].birth /\ known[u].birth # 0
         /\ Line(known[q].birth) = {known[u].birth} \cup Line(known[u].birth)
         /\ Apart(known[u].birth)
<1> DEFINE b == known[q].birth
           a == known[u].birth
           p == procs[b].parent
<1>1. /\ b \in DOMAIN procs /\ procs[b].pid = q /\ PidOfParent(procs, b) = u
      /\ a \in DOMAIN procs /\ procs[a].pid = u
  BY DEF Shows, Mirrors
<1> HIDE DEF a, b
<1>2. u # 0 /\ 0 \notin DOMAIN procs
  BY ReaperAssumption, DomainOfProcs DEF ReaperAssumption
<1>3. p # 0 /\ procs[p].pid = u
  BY <1>1, <1>2 DEF PidOfParent
<1>4. p \in Line(b) /\ Line(b) = {p} \cup Line(p)
  BY <1>1, <1>3, LineOfProcs
<1>5. p = a
  BY <1>1, <1>3, <1>4 DEF Apart, Reused, b
<1> QED
  BY <1>1, <1>2, <1>4, <1>5 DEF Apart, a, b

\* If the parent deserves its role the child deserves the one it is given.
LEMMA ChildDeserves ==
  ASSUME ReaperAssumption, ProcsInv(procs), NEW b \in DOMAIN procs, NEW role,
         procs[b].parent # 0, Deserves(procs[b].parent, role)
  PROVE  Deserves(b, ChildRole(role, procs[procs[b].parent].image, procs[b].image))
<1> DEFINE a == procs[b].parent
           image == procs[b].image
           given == ChildRole(role, procs[a].image, image)
<1>1. a \in DOMAIN procs /\ Line(b) = {a} \cup Line(a) /\ b # 1
  BY LineOfProcs, ParentsBefore
<1>2. given = "agentHost" => image = "agent"
  BY DEF ChildRole
<1>3. ASSUME given = "toolShell" PROVE b \in ToolShells /\ NoServer(b)
  <2>1. role = "agentHost" /\ image \in {"bash", "cmd"}
    BY <1>3 DEF ChildRole, IsShell
  <2>2. procs[a].image = "agent"
    BY <2>1 DEF Deserves
  <2>3. b \in ToolShells
    BY <1>1, <2>1, <2>2 DEF ToolShells, IsShell
  <2>4. NoServer(a)
    BY <1>1, <2>2, AgentHasNoServer
  <2> QED
    BY <1>1, <2>1, <2>3, <2>4 DEF NoServer
<1>4. ASSUME given = "handoff" PROVE b \in Handoffs /\ NoServer(b)
  <2>1. role \in {"toolShell", "handoff"} /\ procs[a].image = "bash" /\ image = "bash"
    BY <1>4 DEF ChildRole
  <2>2. NoServer(a)
    BY <2>1 DEF Deserves
  <2>3. NoServer(b)
    BY <1>1, <2>1, <2>2 DEF NoServer
  <2>4. b \in Nat /\ a \in Nat /\ \A c \in Line(a) : c \in Nat /\ c < a
    <3>1. DOMAIN procs \subseteq Nat
      BY DomainOfProcs DEF ProcType
    <3> QED
      BY <1>1, <3>1, LineOfProcs, LineOlder
  <2>5. CASE role = "toolShell"
    <3>1. a \in ToolShells \cap Line(b)
      BY <1>1, <2>5 DEF Deserves
    <3>2. \A c \in {b} \cup Line(b) : c >= a => c \in {a, b}
      BY <1>1, <2>4
    <3> QED
      BY <2>1, <2>3, <3>1, <3>2 DEF Handoffs
  <2>6. CASE role = "handoff"
    <3>1. PICK s \in ToolShells \cap Line(a) :
             \A c \in {a} \cup Line(a) : c >= s => procs[c].image = "bash"
      BY <2>6 DEF Deserves, Handoffs
    <3>2. s \in Line(b) /\ \A c \in {b} \cup Line(b) : c >= s => procs[c].image = "bash"
      BY <1>1, <2>1, <3>1
    <3> QED
      BY <2>3, <3>1, <3>2 DEF Handoffs
  <2> QED
    BY <2>1, <2>5, <2>6
<1> QED
  BY <1>2, <1>3, <1>4 DEF Deserves

\* The reaper's role for a process is what it is, if no ancestor shares a PID.
LEMMA RolesDeserved ==
  ASSUME ReaperAssumption, ProcsInv(procs), NEW known, Shows(procs, known), NEW registered,
         NEW p \in Pids, Roles(known, registered)[p] # None, known[p] # None => Apart(known[p].birth)
  PROVE  known[p] # None /\ Deserves(known[p].birth, Roles(known, registered)[p])
<1> DEFINE C == {r \in Pids \X RoleNames :
                   /\ known[r[1]] # None
                   /\ Apart(known[r[1]].birth) => Deserves(known[r[1]].birth, r[2])}
<1>1. RoleStart(known, registered) \subseteq C
  <2> SUFFICES ASSUME NEW r \in RoleStart(known, registered) PROVE r \in C
    OBVIOUS
  <2>1. /\ known[AgentPid] # None
        /\ r = <<AgentPid, IF known[AgentPid].image = "agent" THEN "agentHost" ELSE "root">>
    BY DEF RoleStart
  <2>2. AgentPid \in Pids
    BY DEF ReaperAssumption
  <2>3. procs[known[AgentPid].birth].image = known[AgentPid].image
    BY <2>1, <2>2 DEF Shows, Mirrors
  <2>4. Deserves(known[AgentPid].birth, r[2])
    BY <2>1, <2>3 DEF Deserves
  <2> QED
    BY <2>1, <2>2, <2>4 DEF RoleNames
<1>2. ASSUME NEW up \in C, NEW q \in ChildrenOf(known, up)
      PROVE  <<q, ChildRole(up[2], known[up[1]].image, known[q].image)>> \in C
  <2> DEFINE role == ChildRole(up[2], known[up[1]].image, known[q].image)
             b == known[q].birth
  <2>1. q \in Pids /\ known[q] # None /\ known[q].parent = up[1] /\ role \in RoleNames
    BY ChildRoleType DEF ChildrenOf
  <2>2. up[1] \in Pids /\ known[up[1]] # None
        /\ (Apart(known[up[1]].birth) => Deserves(known[up[1]].birth, up[2]))
    OBVIOUS
  <2>3. ASSUME Apart(b) PROVE Deserves(b, role)
    <3> DEFINE u == up[1]
    <3>0. /\ u \in Pids /\ known[u] # None /\ known[q].parent = u
          /\ Apart(known[q].birth)
      BY <2>1, <2>2, <2>3
    <3> HIDE DEF u
    <3>1. /\ b \in DOMAIN procs /\ procs[b].parent = known[u].birth /\ procs[b].parent # 0
          /\ Apart(procs[b].parent)
      BY <2>1, <3>0, ParentEntry
    <3> USE DEF u
    <3>2. Deserves(procs[b].parent, up[2])
      BY <2>2, <3>1
    <3>3. known[up[1]].image = procs[procs[b].parent].image /\ known[q].image = procs[b].image
      <4>1. Mirrors(procs, q, known[q]) /\ Mirrors(procs, up[1], known[up[1]])
        BY <2>1, <2>2 DEF Shows
      <4> QED
        BY <3>1, <4>1 DEF Mirrors
    <3> QED
      BY <3>1, <3>2, <3>3, ChildDeserves
  <2> QED
    BY <2>1, <2>3
<1> HIDE DEF C
<1>3. PICK r \in C : r[1] = p /\ r[2] = Roles(known, registered)[p]
  <2>1. Passes(known, C)
    BY <1>2 DEF Passes
  <2>2. \A x \in Pids : Roles(known, registered)[x] # None =>
            \E r \in C : r[1] = x /\ r[2] = Roles(known, registered)[x]
    BY <1>1, <2>1, RolesLeast
  <2> QED
    BY <2>2
<1> QED
  BY <1>3 DEF C

-----------------------------------------------------------------------------
(* What is decided is about leaks *)

\* A process that lives holds its PID.
LEMMA AliveHolds ==
  ASSUME ProcsInv(procs), NEW b \in DOMAIN procs, procs[b].alive
  PROVE  Holder(procs[b].pid) = b /\ Live(procs[b].pid) /\ procs[b].pid \in Pids
<1> DEFINE p == procs[b].pid
<1>1. ProcType /\ DOMAIN procs \subseteq Nat
  BY DomainOfProcs DEF ProcType
<1>2. Holder(p) # 0
  BY <1>1, HeldPids
<1>3. Holder(p) \in DOMAIN procs /\ procs[Holder(p)].pid = p /\ b <= Holder(p)
  BY <1>1, <1>2, HolderType
<1>4. ~(b < Holder(p))
  BY <1>3 DEF ProcsInv, OldHoldersDead
<1>5. Holder(p) = b
  BY <1>1, <1>3, <1>4
<1> QED
  BY <1>1, <1>2, <1>5, ProcAt DEF Live

\* Ancestors of ancestors are ancestors.
LEMMA LineTransitive ==
  ASSUME ProcsInv(procs), NEW b \in DOMAIN procs, NEW c \in Line(b)
  PROVE  Line(c) \subseteq Line(b) /\ (Apart(b) => Apart(c))
<1> DEFINE C == LineOf(procs, b)
<1>1. Line(b) = C /\ c \in DOMAIN procs
  BY LineIsLineOf, LineOfProcs
<1>2. /\ procs[c].parent # 0 => procs[c].parent \in C
      /\ \A d \in C \cap DOMAIN procs : procs[d].parent # 0 => procs[d].parent \in C
  BY <1>1, LineClosed
<1> HIDE DEF C
<1>3. LineOf(procs, c) \subseteq C \cap DOMAIN procs
  BY <1>1, <1>2, LineLeast
<1> QED
  BY <1>1, <1>3, LineIsLineOf DEF Apart

\* The entries on the way from p up to u.
Mid(known, p, u) == {x \in DOMAIN procs : \E q \in Pids : /\ known[q] # None /\ known[q].birth = x
                                          /\ q \in Above(known, p) /\ u \in Above(known, q)}
Joins(known, p, u) ==
  (u \in Pids /\ known[u] # None) =>
     /\ known[u].birth \in Line(known[p].birth)
     /\ Line(known[p].birth) \subseteq {known[u].birth} \cup Line(known[u].birth) \cup Mid(known, p, u)

\* Where no ancestor shares its PID the links of the table follow the line of
\* descent and skip nothing.
LEMMA AboveIsLine ==
  ASSUME ReaperAssumption, ProcsInv(procs), NEW known \in Tables, Shows(procs, known),
         NEW p \in Pids, known[p] # None, Apart(known[p].birth), NEW t \in Above(known, p)
  PROVE  Joins(known, p, t)
<1> DEFINE b == known[p].birth
           C == {u \in Above(known, p) : Joins(known, p, u)}
<1>1. b \in DOMAIN procs /\ b = known[p].birth
  BY DEF Shows, Mirrors
<1>2. /\ known[p].parent \in Above(known, p)
      /\ \A q \in Above(known, p) \cap Pids : known[q] # None => known[q].parent \in Above(known, p)
  BY AboveClosed
<1> HIDE DEF b
<1>3. known[p].parent \in C
  <2> DEFINE u == known[p].parent
  <2> SUFFICES ASSUME u \in Pids, known[u] # None
               PROVE  known[u].birth \in Line(b) /\ Line(b) \subseteq {known[u].birth} \cup Line(known[u].birth)
    BY <1>1, <1>2 DEF Joins
  <2>1. Line(b) = {known[u].birth} \cup Line(known[u].birth)
    <3> HIDE DEF u
    <3>1. known[p].parent = u
      BY DEF u
    <3> QED
      BY <1>1, <3>1, ParentEntry
  <2> QED
    BY <2>1
<1>4. ASSUME NEW u \in C \cap Pids, known[u] # None PROVE known[u].parent \in C
  <2> DEFINE v == known[u].parent
             x == known[u].birth
  <2>1. u \in Above(known, p) /\ x \in Line(b) /\ Line(b) \subseteq {x} \cup Line(x) \cup Mid(known, p, u)
    BY <1>1, <1>4 DEF Joins
  <2>2. v \in Above(known, p)
    BY <1>2, <1>4, <2>1
  <2> SUFFICES ASSUME v \in Pids, known[v] # None
               PROVE  /\ known[v].birth \in Line(b)
                      /\ Line(b) \subseteq {known[v].birth} \cup Line(known[v].birth) \cup Mid(known, p, v)
    BY <1>1, <2>2 DEF Joins
  <2>3. x \in DOMAIN procs /\ Line(x) \subseteq Line(b) /\ Apart(x)
    BY <1>1, <2>1, LineOfProcs, LineTransitive
  <2> HIDE DEF v, x
  <2>4. u \in Pids /\ x = known[u].birth /\ v = known[u].parent
    BY DEF x, v
  <2>5. Line(x) = {known[v].birth} \cup Line(known[v].birth)
    BY <1>4, <2>3, <2>4, ParentEntry
  <2>6. ASSUME NEW q \in Pids, known[q] # None, u \in Above(known, q) PROVE v \in Above(known, q)
    BY <1>4, <2>4, <2>6, AboveClosed
  <2>7. Mid(known, p, u) \subseteq Mid(known, p, v)
    BY <2>6 DEF Mid
  <2>8. x \in Mid(known, p, v)
    <3>1. v \in Above(known, u)
      BY <1>4, <2>4, AboveClosed
    <3> QED
      BY <1>4, <2>1, <2>3, <2>4, <3>1 DEF Mid
  <2> QED
    BY <2>1, <2>3, <2>5, <2>7, <2>8
<1> HIDE DEF C
<1>5. Above(known, p) \subseteq C
  BY <1>3, <1>4, AboveLeast
<1> QED
  BY <1>5 DEF C

Leak(b, seen) == (\E c \in Line(b) : Reused(c)) \/ LeftBehind(b, seen)

\* A decision is justified: what it reaps and still lives is a leak, and it
\* spares the living servers it has seen.
Justified(claim) ==
  /\ claim.seen \subseteq DOMAIN procs
  /\ \A b \in claim.reap : b \in DOMAIN procs /\ (procs[b].alive => Leak(b, claim.seen))
  /\ \A s \in claim.seen : procs[s].image = "server" /\ procs[s].alive => procs[s].pid \in claim.spared

\* Nothing is above a PID that has no entry.
LEMMA NoneAbove ==
  ASSUME ReaperAssumption, NEW known \in Tables, NEW p \in Pids, known[p] = None
  PROVE  Above(known, p) = {}
<1>1. /\ known[p] # None => known[p].parent \in {}
      /\ \A q \in {} \cap Pids : known[q] # None => known[q].parent \in {}
  OBVIOUS
<1>2. Above(known, p) \subseteq {}
  BY <1>1, AboveLeast
<1> QED
  BY <1>2

\* A server that lives is spared if the table has it.
LEMMA ServersSpared ==
  ASSUME ProcsInv(procs), NEW known, Shows(procs, known), NEW held, NEW q \in Pids, known[q] # None,
         procs[known[q].birth].image = "server", procs[known[q].birth].alive
  PROVE  q \in Spares(known, held) /\ procs[known[q].birth].pid = q
<1>1. known[q].birth \in DOMAIN procs /\ procs[known[q].birth].pid = q
  BY DEF Shows, Mirrors
<1>2. Holder(q) = known[q].birth /\ Live(q)
  BY <1>1, AliveHolds
<1> QED
  BY <1>1, <1>2 DEF Spares

\* A bash of the table that runs on below a tool shell, in a PID of its own, is
\* the handoff that plan_shell_exit looks for.
LEMMA TakenOverKnown ==
  ASSUME ReaperAssumption, ProcsInv(procs), NEW known \in Tables, Shows(procs, known), NEW registered,
         NEW t \in Pids, known[t] # None, Roles(known, registered)[t] \in {"toolShell", "handoff"},
         TakenOver(known[t].birth, Entries(known))
  PROVE  HandedOff(known, Roles(known, registered), t)
<1> DEFINE e == known[t].birth
           roles == Roles(known, registered)
<1>1. PICK h \in Entries(known) : /\ procs[h].parent = e /\ procs[h].image = "bash"
                                  /\ procs[h].alive /\ ~Reused(h)
  BY DEF TakenOver
<1>2. PICK q \in Pids : known[q] # None /\ known[q].birth = h
  BY DEF Entries
<1>3. e \in DOMAIN procs /\ procs[e].pid = t /\ known[t].image = "bash"
  BY DEF Shows, Mirrors, TakenOver
<1>4. Mirrors(procs, q, known[q])
  BY <1>2 DEF Shows
<1>5. e # 0
  BY <1>3, DomainOfProcs
<1>6. known[q].parent = t /\ known[q].image = "bash"
  BY <1>1, <1>2, <1>3, <1>4, <1>5 DEF Mirrors, PidOfParent
<1>7. known[q].alive
  <2>1. ASSUME NEW c \in DOMAIN procs, procs[c].pid = q, ~procs[c].alive PROVE FALSE
    BY <1>1, <1>2, <1>4, <2>1 DEF Reused, Mirrors
  <2> QED
    BY <1>4, <2>1 DEF Mirrors, DeadHolder
<1>8. known[AgentPid] # None => known[AgentPid].parent \notin Pids
  <2> SUFFICES ASSUME known[AgentPid] # None PROVE known[AgentPid].parent = 0
    BY DEF ReaperAssumption
  <2>1. Mirrors(procs, AgentPid, known[AgentPid])
    BY DEF Shows, ReaperAssumption
  <2>2. known[AgentPid].birth = 1 /\ procs[1].parent = 0
    BY <2>1 DEF Mirrors, ProcsInv, ParentFirst, Rooted
  <2> QED
    BY <2>1, <2>2 DEF Mirrors, PidOfParent
<1>9. Roles(known, registered)[t] # None /\ known[q] # None /\ known[q].parent = t
  BY <1>2, <1>6 DEF ReaperAssumption
<1>10. roles[q] = ChildRole(roles[t], known[t].image, known[q].image)
  BY <1>8, <1>9, RolesClosed
<1> HIDE DEF roles
<1>11. roles[q] = "handoff"
  BY <1>3, <1>6, <1>10 DEF ChildRole, roles
<1> QED
  BY <1>2, <1>3, <1>6, <1>7, <1>11 DEF HandedOff, roles

\* plan_shell_exit reaps leaks only: below the entry of a tool shell, the way
\* up is the line of descent where no PID on it is shared; the shell has ended,
\* a bash that runs in its place would have been found, and what lives on the
\* way and is a server would have been spared.
LEMMA DecisionJustified ==
  ASSUME ReaperAssumption, ProcsInv(procs), NEW known \in Tables, Shows(procs, known), NEW registered,
         NEW held, NEW t \in Pids, known[t] # None, Over(procs, known[t].birth)
  PROVE  Justified(Decision(known, registered, held, t))
<1> DEFINE roles == Roles(known, registered)
           above == [p \in Pids |-> Above(known, p)]
           spares == Spares(known, held)
           plan == Plan(known, roles, above, spares, t)
           reap == plan.reap
           spared == plan.spare \cup spares
           seen == Entries(known)
           claim == Decision(known, registered, held, t)
           e == known[t].birth
<1>1. claim.reap = reap /\ claim.spared = spared /\ claim.seen = seen
  BY DEF Decision
<1>2. seen \subseteq DOMAIN procs
  BY DEF Entries, Shows, Mirrors
<1>3. ASSUME NEW s \in seen, procs[s].image = "server", procs[s].alive PROVE procs[s].pid \in spared
  <2>1. PICK q \in Pids : known[q] # None /\ known[q].birth = s
    BY DEF Entries
  <2> QED
    BY <1>3, <2>1, ServersSpared
<1>4. ASSUME NEW b \in reap PROVE b \in DOMAIN procs /\ Leak(b, seen)
  <2>1. roles[t] \in {"toolShell", "handoff"} /\ ~HandedOff(known, roles, t)
    BY PlanReaps
  <2>2. PICK p \in Pids : /\ b = known[p].birth /\ t \in above[p] /\ p \notin spares
                          /\ \A q \in Pids : t \in above[q] /\ q \in above[p] => q \notin spares
    BY PlanReaps
  <2>3. /\ t \in Above(known, p)
        /\ \A q \in Pids : t \in Above(known, q) /\ q \in Above(known, p) => q \notin spares
    BY <2>2
  <2>4. known[p] # None
    BY <2>3, NoneAbove
  <2>5. b \in DOMAIN procs
    BY <2>2, <2>4 DEF Shows, Mirrors
  <2> SUFFICES ASSUME Apart(b) PROVE LeftBehind(b, seen)
    BY <2>5 DEF Leak, Apart
  <2> HIDE DEF roles, above, spares, plan, reap, spared, claim
  <2>6. e \in Line(b) /\ Line(b) \subseteq {e} \cup Line(e) \cup Mid(known, p, t)
    BY <2>2, <2>3, <2>4, AboveIsLine DEF Joins
  <2>7. Apart(e) /\ ~Reused(e) /\ e \in DOMAIN procs
    BY <2>5, <2>6, LineTransitive, LineOfProcs DEF Apart
  <2>8. Deserves(e, roles[t])
    <3>1. Roles(known, registered)[t] # None
      BY <2>1, ReaperAssumption DEF ReaperAssumption, roles
    <3> QED
      BY <2>7, <3>1, RolesDeserved DEF roles
  <2>9. e \in ToolShells \cup Handoffs /\ NoServer(e)
    BY <2>1, <2>8 DEF Deserves
  <2>10. ~procs[e].alive
    BY <2>7 DEF Over, Shared, Reused
  <2>11. ASSUME NEW s \in {b} \cup Line(b), procs[s].image = "server", procs[s].alive PROVE FALSE
    <3>1. CASE s = b
      BY <2>2, <2>4, <2>11, <3>1, ServersSpared DEF spares
    <3>2. CASE s \in Mid(known, p, t)
      <4>1. PICK q \in Pids : /\ known[q] # None /\ known[q].birth = s
                              /\ q \in Above(known, p) /\ t \in Above(known, q)
        BY <3>2 DEF Mid
      <4> QED
        BY <2>3, <2>11, <4>1, ServersSpared DEF spares
    <3>3. CASE s \in {e} \cup Line(e)
      BY <2>9, <2>11, <3>3 DEF NoServer
    <3> QED
      BY <2>6, <2>11, <3>1, <3>2, <3>3
  <2>12. ~TakenOver(e, seen)
    BY <2>1, TakenOverKnown DEF roles, seen
  <2> QED
    BY <2>6, <2>9, <2>10, <2>11, <2>12 DEF LeftBehind
<1> HIDE DEF reap, spared, seen, claim
<1>5. Justified(claim)
  BY <1>1, <1>2, <1>3, <1>4 DEF Justified
<1> QED
  BY <1>5 DEF claim

\* The tree of a leak that is killed consists of leaks.
LEMMA TreeJustified ==
  ASSUME ReaperAssumption, ProcsInv(procs), NEW claim, Justified(claim), NEW b \in claim.reap, procs[b].alive
  PROVE  \A x \in Tree(b, claim.spared) : x \in DOMAIN procs /\ Leak(x, claim.seen)
<1> DEFINE seen == claim.seen
           C == {p \in Pids : Holder(p) # 0 /\ Leak(Holder(p), seen)}
<1>1. b \in DOMAIN procs /\ Leak(b, seen) /\ ProcType
  BY DomainOfProcs DEF Justified
<1>2. procs[b].pid \in C
  <2>1. b # 0
    BY <1>1, DomainOfProcs
  <2> QED
    BY <1>1, <2>1, AliveHolds
<1>3. ASSUME NEW p \in Pids \ claim.spared, Live(p), ParentPid(Holder(p)) \in C PROVE p \in C
  <2> DEFINE h == Holder(p)
             a == procs[h].parent
             u == ParentPid(h)
  <2>1. h # 0 /\ h \in DOMAIN procs /\ procs[h].alive /\ procs[h].pid = p
    BY <1>1, <1>3, HolderType DEF Live
  <2>2. u \in Pids /\ Holder(u) # 0 /\ Leak(Holder(u), seen)
    BY <1>3
  <2> HIDE DEF h, u, C, seen
  <2>3. u # 0
    BY <2>2, ReaperAssumption DEF ReaperAssumption
  <2>4. a # 0 /\ a \in DOMAIN procs /\ u = procs[a].pid
    <3>1. a # 0
      BY <2>1, <2>3, ParentPidType DEF u
    <3> QED
      BY <2>1, <3>1, ParentPidType DEF u
  <2>5. Line(h) = {a} \cup Line(a)
    BY <2>1, <2>4, LineOfProcs
  <2>6. Holder(u) \in DOMAIN procs /\ procs[Holder(u)].pid = u
    BY <1>1, <2>2, HolderType
  <2>7. Leak(h, seen)
    <3>1. CASE Reused(a)
      BY <2>5, <3>1 DEF Leak
    <3>2. CASE ~Reused(a)
      <4>1. Holder(u) = a
        BY <2>4, <2>6, <3>2 DEF Reused
      <4>2. Leak(a, seen)
        BY <2>2, <4>1
      <4>3. CASE \E c \in Line(a) : Reused(c)
        BY <2>5, <4>3 DEF Leak
      <4>4. CASE LeftBehind(a, seen)
        <5>1. ~(procs[h].image = "server" /\ procs[h].alive /\ h \in seen)
          BY <1>3, <2>1 DEF Justified, seen
        <5> QED
          BY <2>5, <4>4, <5>1 DEF Leak, LeftBehind
      <4> QED
        BY <4>2, <4>3, <4>4 DEF Leak
    <3> QED
      BY <3>1, <3>2
  <2> QED
    BY <2>1, <2>7 DEF C, h
<1> HIDE DEF C
<1>4. Tree(b, claim.spared) \subseteq {Holder(p) : p \in C \cap Pids}
  BY <1>1, <1>2, <1>3, TreeReaches
<1>5. \A p \in C : Holder(p) \in DOMAIN procs /\ Leak(Holder(p), seen)
  BY <1>1, HolderType DEF C
<1> QED
  BY <1>4, <1>5

\* A leak stays one, and a process that is none becomes none by living.
LEMMA LeakGrows ==
  ASSUME ProcsInv(procs), ProcsInv(procs)', Grows(procs, procs'), NEW b \in DOMAIN procs,
         NEW seen \in SUBSET DOMAIN procs, Leak(b, seen)
  PROVE  Leak(b, seen)'
<1>1. \A c \in DOMAIN procs : c \in DOMAIN procs' /\ SameProc(procs[c], procs'[c])
  BY DEF Grows
<1>2. ASSUME NEW c \in DOMAIN procs PROVE Line(c)' = Line(c) /\ Line(c) \subseteq DOMAIN procs
  <2>1. LineOf(procs', c) = LineOf(procs, c)
    BY LineGrows
  <2>2. Line(c)' = LineOf(procs', c)
    BY DEF Line, LineOf
  <2> QED
    BY <2>1, <2>2, LineIsLineOf, LineOfProcs
<1>3. CASE \E c \in Line(b) : Reused(c)
  BY <1>1, <1>2, <1>3 DEF Leak, Reused, SameProc
<1>4. CASE LeftBehind(b, seen)
  <2>1. ASSUME NEW s \in ToolShells PROVE s \in ToolShells'
    <3>1. s \in DOMAIN procs \ {1} /\ IsShell(procs[s].image) /\ procs[procs[s].parent].image = "agent"
      BY DEF ToolShells
    <3>2. procs[s].parent \in DOMAIN procs
      BY <3>1, ParentsBefore
    <3> QED
      BY <1>1, <3>1, <3>2 DEF ToolShells, SameProc
  <2>2. ASSUME NEW s \in Handoffs PROVE s \in Handoffs'
    <3>1. s \in DOMAIN procs
      BY DEF Handoffs
    <3>2. PICK r \in ToolShells \cap Line(s) :
             \A c \in {s} \cup Line(s) : c >= r => procs[c].image = "bash"
      BY DEF Handoffs
    <3>3. Line(s)' = Line(s) /\ Line(s) \subseteq DOMAIN procs
      BY <1>2, <3>1
    <3>4. \A c \in {s} \cup Line(s)' : c >= r => procs'[c].image = "bash"
      BY <1>1, <3>1, <3>2, <3>3 DEF SameProc
    <3>5. r \in ToolShells' \cap Line(s)'
      BY <2>1, <3>2, <3>3
    <3> QED
      BY <1>1, <3>1, <3>4, <3>5 DEF Handoffs
  <2>3. Line(b)' = Line(b) /\ Line(b) \subseteq DOMAIN procs
    BY <1>2
  <2>4. PICK s \in Line(b) \cap (ToolShells \cup Handoffs) :
           ~procs[s].alive /\ ~TakenOver(s, seen)
    BY <1>4 DEF LeftBehind
  <2>5. s \in Line(b)' \cap (ToolShells' \cup Handoffs') /\ ~procs'[s].alive
    BY <1>1, <2>1, <2>2, <2>3, <2>4 DEF SameProc
  <2>8. ~TakenOver(s, seen)'
    <3> SUFFICES ASSUME TakenOver(s, seen)' PROVE TakenOver(s, seen)
      BY <2>4
    <3>1. PICK h \in seen : /\ procs'[h].parent = s /\ procs'[h].image = "bash"
                            /\ procs'[h].alive /\ ~(Reused(h)')
      BY DEF TakenOver
    <3>2. h \in DOMAIN procs /\ s \in DOMAIN procs /\ procs'[s].image = "bash"
      BY <2>3, <2>4 DEF TakenOver
    <3>3. ~Reused(h)
      BY <1>1, <3>1, <3>2 DEF Reused, SameProc
    <3>4. procs[h].parent = s /\ procs[h].image = "bash" /\ procs[h].alive /\ procs[s].image = "bash"
      BY <1>1, <3>1, <3>2 DEF SameProc
    <3> QED
      BY <3>3, <3>4 DEF TakenOver
  <2>6. \A c \in {b} \cup Line(b)' : ~(procs'[c].image = "server" /\ procs'[c].alive /\ c \in seen)
    BY <1>1, <1>4, <2>3 DEF LeftBehind, SameProc
  <2>7. LeftBehind(b, seen)'
    BY <2>5, <2>6, <2>8 DEF LeftBehind
  <2> QED
    BY <2>7 DEF Leak
<1> QED
  BY <1>3, <1>4 DEF Leak

-----------------------------------------------------------------------------
(* The invariant *)

Messages == [kind : {"new", "exit"}, pid : Pids]
PortOK(ps, messages) ==
  /\ messages \in Seq(Messages)
  /\ \A i \in DOMAIN messages : messages[i].kind = "exit" => DeadHolder(ps, messages[i].pid)
PlacesOK ==
  /\ backend \in 0..1
  /\ listener \in {"wait", "batch", "quiet", "scan", "stopped"}
  /\ main \in {"boot", "run", "swept", "closed"}
PlansOK ==
  /\ plans \in [Threads -> SUBSET Claim]
  /\ \A t \in Threads : \A claim \in plans[t] : Justified(claim)
Doomed(d) ==
  /\ d.seen \subseteq DOMAIN procs
  /\ \A x \in d.kill : x \in DOMAIN procs /\ (procs[x].alive => Leak(x, d.seen))
DoomOK ==
  /\ doom \in [Threads -> Dooms \cup {None}]
  /\ \A t \in Threads : \A d \in Dooms : doom[t] = d /\ d # None => Doomed(d)

ReaperInv ==
  /\ ProcsInv(procs)
  /\ PortOK(procs, port)
  /\ PlacesOK
  /\ Faithful(procs, tracker, ever)
  /\ PlansOK
  /\ DoomOK

\* The invariant has the type invariant in it.
LEMMA InvTypes == ReaperAssumption /\ ReaperInv => TypeOK
<1> SUFFICES ASSUME ReaperAssumption, ReaperInv PROVE TypeOK
  OBVIOUS
<1>1. procs \in Seq(Proc) /\ Len(procs) \in Births
  BY DEF ReaperInv, ProcsInv, Rooted
<1>2. ever \subseteq Births
  BY DomainOfProcs DEF ReaperInv, Faithful, DeadSet
<1>3. tracker \in Trackers
  BY DEF ReaperInv, Faithful
<1> QED
  BY <1>1, <1>2, <1>3
  DEF TypeOK, ReaperInv, Proc, Trackers, Tables, PortOK, Messages, PlacesOK, PlansOK, DoomOK, Dooms

\* What is decided stays justified when processes start or end.
LEMMA Kept ==
  ASSUME ProcsInv(procs), ProcsInv(procs)', Grows(procs, procs')
  PROVE  /\ \A claim : Justified(claim) => Justified(claim)'
         /\ \A d : Doomed(d) => Doomed(d)'
<1>1. \A c \in DOMAIN procs : c \in DOMAIN procs' /\ SameProc(procs[c], procs'[c])
  BY DEF Grows
<1>2. \A c \in DOMAIN procs : \A seen \in SUBSET DOMAIN procs : Leak(c, seen) => Leak(c, seen)'
  BY LeakGrows
<1>3. ASSUME NEW claim, Justified(claim) PROVE Justified(claim)'
  BY <1>1, <1>2, <1>3 DEF Justified, SameProc
<1>4. ASSUME NEW d, Doomed(d) PROVE Doomed(d)'
  BY <1>1, <1>2, <1>4 DEF Doomed, SameProc
<1> QED
  BY <1>3, <1>4

\* Nothing happens to the table in a step that leaves it.
LEMMA GrowsItself ==
  ASSUME NEW ps, ProcsInv(ps)
  PROVE  Grows(ps, ps)
<1>1. ps \in Seq(Proc) /\ Len(ps) \in Nat
  BY DEF ProcsInv, Rooted
<1> QED
  BY <1>1 DEF Grows, SameProc

\* A message about an exit stays true.
LEMMA PortGrows ==
  ASSUME NEW ps, NEW next, Grows(ps, next), NEW messages, PortOK(ps, messages)
  PROVE  PortOK(next, messages)
<1>1. \A b \in DOMAIN ps : b \in DOMAIN next /\ SameProc(ps[b], next[b])
  BY DEF Grows
<1> QED
  BY <1>1 DEF PortOK, DeadHolder, SameProc

\* Messages are added to the port when they are true.
LEMMA PortAppends ==
  ASSUME NEW ps, NEW messages, PortOK(ps, messages), NEW m \in Messages,
         m.kind = "exit" => DeadHolder(ps, m.pid)
  PROVE  PortOK(ps, Append(messages, m))
<1> DEFINE next == Append(messages, m)
           n == Len(messages)
<1>1. messages \in Seq(Messages) /\ n \in Nat
  BY DEF PortOK
<1>2. /\ next \in Seq(Messages) /\ DOMAIN next = 1..(n + 1) /\ next[n + 1] = m
      /\ \A i \in 1..n : next[i] = messages[i] /\ i \in DOMAIN messages
  BY <1>1
<1> HIDE DEF next
<1>3. \A i \in DOMAIN next : next[i].kind = "exit" => DeadHolder(ps, next[i].pid)
  <2> SUFFICES ASSUME NEW i \in DOMAIN next, next[i].kind = "exit" PROVE DeadHolder(ps, next[i].pid)
    OBVIOUS
  <2>1. CASE i = n + 1
    BY <1>2, <2>1
  <2>2. CASE i \in 1..n
    BY <1>2, <2>2 DEF PortOK
  <2> QED
    BY <1>1, <1>2, <2>1, <2>2
<1> QED
  BY <1>2, <1>3 DEF PortOK, next

\* The message that is taken is true, and so are those that are left.
LEMMA PortTail ==
  ASSUME NEW ps, NEW messages, PortOK(ps, messages), messages # <<>>
  PROVE  /\ PortOK(ps, Tail(messages))
         /\ Head(messages) \in Messages
         /\ Head(messages).kind = "exit" => DeadHolder(ps, Head(messages).pid)
<1> DEFINE n == Len(messages)
           next == Tail(messages)
<1>1. messages \in Seq(Messages) /\ n \in Nat \ {0} /\ DOMAIN messages = 1..n
  BY DEF PortOK
<1>2. /\ next \in Seq(Messages) /\ DOMAIN next = 1..(n - 1)
      /\ \A i \in 1..(n - 1) : next[i] = messages[i + 1] /\ i + 1 \in 1..n
      /\ Head(messages) = messages[1] /\ 1 \in 1..n
  BY <1>1
<1> HIDE DEF next
<1>3. \A i \in 1..n : messages[i].kind = "exit" => DeadHolder(ps, messages[i].pid)
  BY <1>1 DEF PortOK
<1>4. messages[1] \in Messages
  BY <1>1
<1>5. PortOK(ps, next)
  BY <1>2, <1>3 DEF PortOK
<1> QED
  BY <1>2, <1>3, <1>4, <1>5 DEF next

\* A pass keeps the tracker faithful and decides about leaks only.
LEMMA ReconcilesKeeps ==
  ASSUME ReaperAssumption, ReaperInv, NEW t \in Threads, NEW tr, Faithful(procs, tr, ever), NEW final,
         Reconciles(t, tr, final)
  PROVE  /\ Faithful(procs, tracker', ever')
         /\ plans' \in [Threads -> SUBSET Claim]
         /\ \A u \in Threads : \A claim \in plans'[u] : Justified(claim)
         /\ (tracker'.settled \ tr.settled) \cap ever = {}
<1>1. tr \in Trackers /\ TypeOK
  BY InvTypes DEF Faithful
<1>2. plans' \in [Threads -> SUBSET Claim]
  BY <1>1, ReconcilesType
<1>3. PICK late \in SUBSET tr.deferred, gone \in {{}, Evictable(tr)},
          held \in SUBSET {p \in Dead(tr) : ~Live(p) /\ \E q \in Pids : /\ tr.known[q] # None
                                                              /\ tr.known[q].parent = p} :
         LET pass == Pass(tr, backend', final, late, gone, held)
         IN  /\ tracker' = pass.tracker
             /\ plans' = [plans EXCEPT ![t] = pass.claims]
             /\ ever' = ever \cup {b \in pass.tracker.settled : ~procs[b].alive}
  BY DEF Reconciles
<1> DEFINE pass == Pass(tr, backend', final, late, gone, held)
           mid == Purged(tr, gone)
<1>4. /\ tracker' = pass.tracker
      /\ plans' = [plans EXCEPT ![t] = pass.claims]
      /\ ever' = ever \cup {b \in pass.tracker.settled : ~procs[b].alive}
  BY <1>3
<1>5. gone \in SUBSET Pids /\ \A p \in gone : tr.known[p] # None
  BY DEF Evictable, Dead
<1>6. /\ Faithful(procs, pass.tracker, ever \cup {b \in pass.tracker.settled : ~procs[b].alive})
      /\ (pass.tracker.settled \ tr.settled) \cap ever = {}
  BY <1>5, PassFaithful
<1>7. Faithful(procs, mid, ever)
  BY <1>5, PurgedFaithful
<1>8. \A claim \in pass.claims : \E p \in Pending(mid) :
         claim = Decision(mid.known, backend', held, p)
  BY PassParts
<1> HIDE DEF pass, mid
<1>9. ASSUME NEW claim \in pass.claims PROVE Justified(claim)
  <2>1. PICK p \in Pending(mid) : claim = Decision(mid.known, backend', held, p)
    BY <1>8
  <2>2. p \in Pids /\ mid.known[p] # None /\ mid.known[p].birth \in Ended(mid)
    BY PendingKnown DEF Ended
  <2>3. Over(procs, mid.known[p].birth)
    BY <1>7, <2>2, EndedOver
  <2>4. ProcsInv(procs) /\ mid.known \in Tables /\ Shows(procs, mid.known)
    BY <1>7 DEF ReaperInv, Faithful, Sound, Trackers
  <2> QED
    BY <2>1, <2>2, <2>3, <2>4, DecisionJustified
<1>10. \A u \in Threads : \A claim \in plans'[u] : Justified(claim)
  <2>1. plans \in [Threads -> SUBSET Claim] /\ \A u \in Threads : \A claim \in plans[u] : Justified(claim)
    BY DEF ReaperInv, PlansOK
  <2>2. \A u \in Threads : plans'[u] = IF u = t THEN pass.claims ELSE plans[u]
    BY <1>4, <2>1
  <2> QED
    BY <1>9, <2>1, <2>2
<1> QED
  BY <1>2, <1>4, <1>6, <1>10

-----------------------------------------------------------------------------
(* One lemma for the initial states, and one for each action *)

\* The invariant holds when the backend has been started.
LEMMA InitInv == ReaperAssumption /\ Init => ReaperInv
<1> SUFFICES ASSUME ReaperAssumption, Init PROVE ReaperInv
  OBVIOUS
<1>1. PICK image \in RootImages :
         procs = <<[pid |-> AgentPid, image |-> image, parent |-> 0, alive |-> TRUE]>>
  BY DEF Init
<1> DEFINE e == [pid |-> AgentPid, image |-> image, parent |-> 0, alive |-> TRUE]
           m == [kind |-> "new", pid |-> AgentPid]
<1>2. MaxBirths \in Nat \ {0} /\ AgentPid \in Pids /\ image \in Images /\ MaxRetries \in Nat \ {0}
  BY DEF ReaperAssumption, Images
<1>3. e \in Proc /\ m \in Messages
  BY <1>2 DEF Proc, Messages
<1>4. procs = <<e>> /\ port = <<m>> /\ e.parent = 0 /\ e.pid = AgentPid /\ e.image \in RootImages
      /\ m.kind = "new"
  BY <1>1 DEF Init
<1> HIDE DEF e, m
<1>5. /\ procs \in Seq(Proc) /\ Len(procs) = 1 /\ DOMAIN procs = {1} /\ procs[1] = e
      /\ port \in Seq(Messages) /\ DOMAIN port = {1} /\ port[1] = m
  BY <1>3, <1>4
<1>6. ProcsInv(procs)
  BY <1>2, <1>4, <1>5 DEF ProcsInv, Rooted, ParentFirst, OldHoldersDead, AgentOnTop, Births
<1>7. PortOK(procs, port)
  BY <1>4, <1>5 DEF PortOK
<1>8. Faithful(procs, Empty, {})
  <2>1. /\ [p \in Pids |-> None] \in Tables
        /\ [p \in Pids |-> 0] \in [Pids -> 0..MaxRetries - 1]
    BY <1>2 DEF Tables
  <2>2. Empty \in Trackers
    BY <2>1 DEF Empty, Trackers
  <2>3. Empty.settled = {} /\ Empty.abandoned = {} /\ \A p \in Pids : Empty.known[p] = None
    BY DEF Empty
  <2> QED
    BY <2>2, <2>3 DEF Faithful, Sound, Shows, Remembers, DeadSet
<1>9. PlansOK /\ DoomOK /\ PlacesOK
  BY DEF Init, PlansOK, DoomOK, PlacesOK
<1> QED
  BY <1>6, <1>7, <1>8, <1>9 DEF Init, ReaperInv

\* The shape of a step that leaves the decisions alone.
LEMMA StepGrows ==
  ASSUME ReaperInv, ProcsInv(procs'), Grows(procs, procs'), PortOK(procs', port'),
         UNCHANGED reaperVars
  PROVE  ReaperInv'
<1>1. ProcsInv(procs) /\ ProcsInv(procs)'
  BY DEF ReaperInv
<1>2. /\ \A claim : Justified(claim) => Justified(claim)'
      /\ \A d : Doomed(d) => Doomed(d)'
  BY <1>1, Kept
<1>3. Faithful(procs', tracker, ever)
  BY FaithfulGrows DEF ReaperInv
<1>4. PlansOK'
  BY <1>2 DEF ReaperInv, PlansOK, reaperVars
<1>5. DoomOK'
  BY <1>2 DEF ReaperInv, DoomOK, reaperVars
<1>6. PlacesOK'
  BY DEF ReaperInv, PlacesOK, reaperVars
<1>7. tracker' = tracker /\ ever' = ever
  BY DEF reaperVars
<1> QED
  BY <1>3, <1>4, <1>5, <1>6, <1>7 DEF ReaperInv

\* The end of a process posts a message that is true.
LEMMA DiesKeeps ==
  ASSUME ReaperInv, NEW b \in DOMAIN procs, Dies(b)
  PROVE  ProcsInv(procs') /\ Grows(procs, procs') /\ PortOK(procs', port')
<1>1. ProcsInv(procs) /\ procs' = [procs EXCEPT ![b].alive = FALSE]
      /\ port' = Append(port, [kind |-> "exit", pid |-> procs[b].pid])
  BY DEF ReaperInv, Dies
<1>2. Ages(procs, procs')
  BY <1>1, DiesAges
<1>3. ProcsInv(procs') /\ Grows(procs, procs')
  BY <1>1, <1>2, AgesInv DEF Ages
<1> DEFINE m == [kind |-> "exit", pid |-> procs[b].pid]
<1>4. m \in Messages /\ m.pid = procs[b].pid
  BY <1>1, DomainOfProcs, ProcAt DEF Messages
<1>5. DeadHolder(procs', procs[b].pid)
  <2>1. b \in DOMAIN procs' /\ procs'[b].pid = procs[b].pid
    BY <1>3 DEF Grows, SameProc
  <2>2. ~procs'[b].alive
    <3>1. procs[b] \in Proc
      BY <1>1, DomainOfProcs, ProcAt
    <3> QED
      BY <1>1, <3>1 DEF Proc
  <2> QED
    BY <2>1, <2>2 DEF DeadHolder
<1>6. PortOK(procs', port)
  BY <1>3, PortGrows DEF ReaperInv
<1> HIDE DEF m
<1>7. PortOK(procs', Append(port, m))
  BY <1>4, <1>5, <1>6, PortAppends
<1> QED
  BY <1>1, <1>3, <1>7 DEF m

\* Ends keeps the invariant.
LEMMA EndsInv ==
  ASSUME ReaperInv, NEW b \in DOMAIN procs, Ends(b)
  PROVE  ReaperInv'
BY DiesKeeps, StepGrows DEF Ends

\* Spawn keeps the invariant.
LEMMA SpawnInv ==
  ASSUME ReaperAssumption, ReaperInv, NEW b \in DOMAIN procs, NEW p \in Pids, NEW image \in Images,
         Spawn(b, p, image)
  PROVE  ReaperInv'
<1>1. Grows(procs, procs') /\ ProcsInv(procs')
  BY SpawnGrows DEF ReaperInv
<1> DEFINE m == [kind |-> "new", pid |-> p]
<1>2. m \in Messages /\ m.kind # "exit" /\ port' = Append(port, m)
  BY DEF Messages, Spawn
<1> HIDE DEF m
<1>3. PortOK(procs', port')
  BY <1>1, <1>2, PortGrows, PortAppends DEF ReaperInv
<1> QED
  BY <1>1, <1>3, StepGrows DEF Spawn

\* The shape of a step of clud in which no process starts or ends.
LEMMA StepStill ==
  ASSUME ReaperInv, procs' = procs, PortOK(procs, port'), Faithful(procs, tracker', ever'), PlacesOK',
         plans' \in [Threads -> SUBSET Claim],
         \A t \in Threads : \A claim \in plans'[t] : Justified(claim),
         doom' \in [Threads -> Dooms \cup {None}],
         \A t \in Threads : \A d \in Dooms : doom'[t] = d /\ d # None => Doomed(d)
  PROVE  ReaperInv'
<1>1. ProcsInv(procs) /\ ProcsInv(procs)' /\ Grows(procs, procs')
  BY GrowsItself DEF ReaperInv
<1>2. /\ \A claim : Justified(claim) => Justified(claim)'
      /\ \A d : Doomed(d) => Doomed(d)'
  BY <1>1, Kept
<1>3. PlansOK'
  BY <1>2 DEF PlansOK
<1>4. DoomOK'
  BY <1>2 DEF DoomOK
<1> QED
  BY <1>1, <1>3, <1>4 DEF ReaperInv

\* Apply keeps the invariant, and settles nothing.
LEMMA ApplyInv ==
  ASSUME ReaperAssumption, ReaperInv, Apply
  PROVE  ReaperInv' /\ tracker'.settled = tracker.settled
<1> DEFINE p == Head(port).pid
<1>1. /\ PortOK(procs, Tail(port)) /\ p \in Pids /\ Head(port).kind \in {"new", "exit"}
      /\ Head(port).kind = "exit" => DeadHolder(procs, p)
  BY PortTail DEF ReaperInv, Apply, Messages
<1>2. PICK look \in Looks(p) :
         tracker' = IF Head(port).kind = "new" THEN Observed(tracker, p, look)
                    ELSE Exited(tracker, p, look)
  BY DEF Apply
<1> HIDE DEF p
<1>3. ProcsInv(procs) /\ Faithful(procs, tracker, ever)
  BY DEF ReaperInv
<1>4. CASE Head(port).kind = "new"
  <2>1. tracker' = Observed(tracker, p, look)
    BY <1>2, <1>4
  <2>2. Faithful(procs, tracker', ever)
    BY <1>1, <1>3, <2>1, ObservedFaithful
  <2>3. tracker'.settled = tracker.settled
    BY <1>3, <2>1 DEF Observed, Faithful, Trackers
  <2> QED
    BY <1>1, <2>2, <2>3, StepStill DEF Apply, ReaperInv, PlacesOK, PlansOK, DoomOK
<1>5. CASE Head(port).kind = "exit"
  <2>1. tracker' = Exited(tracker, p, look)
    BY <1>2, <1>5
  <2>2. Faithful(procs, tracker', ever)
    BY <1>1, <1>3, <1>5, <2>1, ExitedFaithful
  <2>3. tracker'.settled = tracker.settled
    BY <1>3, <2>1 DEF Exited, Observed, Faithful, Trackers
  <2> QED
    BY <1>1, <2>2, <2>3, StepStill DEF Apply, ReaperInv, PlacesOK, PlansOK, DoomOK
<1> QED
  BY <1>1, <1>4, <1>5

\* EndBatch keeps the invariant, and settles no exit again.
LEMMA EndBatchInv ==
  ASSUME ReaperAssumption, ReaperInv, EndBatch
  PROVE  ReaperInv' /\ (tracker'.settled \ tracker.settled) \cap ever = {}
<1>1. Faithful(procs, tracker, ever) /\ Reconciles("listener", tracker, FALSE) /\ "listener" \in Threads
  BY DEF ReaperInv, EndBatch, Threads
<1>2. /\ Faithful(procs, tracker', ever')
      /\ plans' \in [Threads -> SUBSET Claim]
      /\ \A u \in Threads : \A claim \in plans'[u] : Justified(claim)
      /\ (tracker'.settled \ tracker.settled) \cap ever = {}
  BY <1>1, ReconcilesKeeps
<1> QED
  BY <1>2, StepStill DEF EndBatch, ReaperInv, PlacesOK, DoomOK

\* QuietPass keeps the invariant, and settles no exit again.
LEMMA QuietPassInv ==
  ASSUME ReaperAssumption, ReaperInv, QuietPass
  PROVE  ReaperInv' /\ (tracker'.settled \ tracker.settled) \cap ever = {}
<1>1. PICK looks \in [tracker.unresolved -> UNION {Looks(p) : p \in Pids}] :
         /\ \A p \in tracker.unresolved : looks[p] \in Looks(p)
         /\ LET tr == IF listener = "scan" /\ tracker.unresolved # {} THEN Retried(tracker, looks) ELSE tracker
            IN  Reconciles("listener", tr, tr.unresolved = {})
  BY DEF QuietPass
<1> DEFINE tr == IF listener = "scan" /\ tracker.unresolved # {} THEN Retried(tracker, looks) ELSE tracker
           final == tr.unresolved = {}
<1>2. Reconciles("listener", tr, final)
  BY <1>1
<1>3. Faithful(procs, tracker, ever) /\ ProcsInv(procs) /\ tracker \in Trackers /\ tracker.unresolved \subseteq Pids
  BY DEF ReaperInv, Faithful, Trackers
<1>4. looks \in [tracker.unresolved -> Meta \cup {None}]
  <2>1. \A p \in tracker.unresolved : looks[p] \in Meta \cup {None}
    BY <1>1, <1>3, LookMirrors
  <2> QED
    BY <1>1, <2>1
<1>5. Faithful(procs, tr, ever)
  BY <1>1, <1>3, <1>4, RetriedFaithful
<1>6. tr.settled = tracker.settled
  BY <1>3 DEF Retried, Trackers
<1> HIDE DEF tr, final
<1>7. /\ Faithful(procs, tracker', ever')
      /\ plans' \in [Threads -> SUBSET Claim]
      /\ \A u \in Threads : \A claim \in plans'[u] : Justified(claim)
      /\ (tracker'.settled \ tr.settled) \cap ever = {}
  BY <1>2, <1>5, ReconcilesKeeps DEF Threads
<1> QED
  BY <1>6, <1>7, StepStill DEF QuietPass, ReaperInv, PlacesOK, DoomOK

\* Timeout keeps the invariant.
LEMMA TimeoutInv ==
  ASSUME ReaperInv, NEW next \in {"quiet", "scan"}, Timeout(next)
  PROVE  ReaperInv'
BY StepStill DEF Timeout, ReaperInv, PlacesOK, PlansOK, DoomOK

\* Register keeps the invariant: the seeded entry shows the backend.
LEMMA RegisterInv ==
  ASSUME ReaperAssumption, ReaperInv, Register
  PROVE  ReaperInv' /\ (tracker'.settled \ tracker.settled) \cap ever = {}
<1> DEFINE p == AgentPid
           e == IF tracker.known[p] = None THEN Seen(p) ELSE tracker.known[p]
           seeded == [tracker EXCEPT !.known = [tracker.known EXCEPT ![p] = e],
                                     !.unresolved = tracker.unresolved \ {p}]
           tr == IF Live(p) THEN seeded ELSE tracker
<1>1. Reconciles("main", tr, FALSE)
  BY DEF Register
<1>2. /\ Faithful(procs, tracker, ever) /\ ProcsInv(procs) /\ tracker \in Trackers /\ p \in Pids
      /\ tracker.known \in Tables
  BY DEF ReaperInv, Faithful, Trackers, ReaperAssumption
<1>3. ASSUME Live(p) PROVE Faithful(procs, seeded, ever)
  <2>1. Seen(p) \in Looks(p)
    BY <1>3 DEF Looks
  <2>2. e \in Meta \cup {None}
    BY <1>2, <2>1, LookMirrors DEF Tables
  <2>3. e # None => Mirrors(procs, p, e) /\ (e.birth \in ever => e.birth \in tracker.settled)
    <3>1. CASE tracker.known[p] = None
      BY <1>2, <2>1, <3>1, LookMirrors DEF Faithful, DeadSet
    <3>2. CASE tracker.known[p] # None
      BY <1>2, <3>2 DEF Faithful, Sound, Shows, Remembers
    <3> QED
      BY <3>1, <3>2
  <2> HIDE DEF e
  <2>4. seeded \in Trackers
    <3>1. [tracker.known EXCEPT ![p] = e] \in Tables
      BY <1>2, <2>2 DEF Tables
    <3> QED
      BY <1>2, <3>1 DEF Trackers
  <2>5. /\ seeded.known = [tracker.known EXCEPT ![p] = e] /\ seeded.settled = tracker.settled
        /\ seeded.abandoned = tracker.abandoned
    BY <1>2 DEF Trackers
  <2> HIDE DEF seeded
  <2> QED
    BY <1>2, <2>2, <2>3, <2>4, <2>5, EntryReplaced
<1>4. Faithful(procs, tr, ever)
  BY <1>2, <1>3
<1>5. tr.settled = tracker.settled
  BY <1>2 DEF Trackers
<1> HIDE DEF tr
<1>6. /\ Faithful(procs, tracker', ever')
      /\ plans' \in [Threads -> SUBSET Claim]
      /\ \A u \in Threads : \A claim \in plans'[u] : Justified(claim)
      /\ (tracker'.settled \ tr.settled) \cap ever = {}
  BY <1>1, <1>4, ReconcilesKeeps DEF Threads
<1> QED
  BY <1>5, <1>6, StepStill DEF Register, ReaperInv, PlacesOK, DoomOK

\* Walk keeps the invariant: the tree it selects consists of leaks.
LEMMA WalkInv ==
  ASSUME ReaperAssumption, ReaperInv, NEW t \in Threads, NEW claim \in plans[t], NEW b \in Births,
         Walk(t, claim, b)
  PROVE  ReaperInv'
<1>1. /\ ProcsInv(procs) /\ plans \in [Threads -> SUBSET Claim] /\ doom \in [Threads -> Dooms \cup {None}]
      /\ \A u \in Threads : \A c \in plans[u] : Justified(c)
      /\ \A u \in Threads : \A d \in Dooms : doom[u] = d /\ d # None => Doomed(d)
  BY DEF ReaperInv, PlansOK, DoomOK
<1>2. claim \in Claim /\ Justified(claim) /\ b \in claim.reap
  BY <1>1 DEF Walk
<1> DEFINE rest == [claim EXCEPT !.reap = claim.reap \ {b}]
           left == (plans[t] \ {claim}) \cup (IF claim.reap = {b} THEN {} ELSE {rest})
           tree == [kill |-> Tree(b, claim.spared), seen |-> claim.seen]
           selected == IF procs[b].alive /\ procs[b].pid \notin claim.spared THEN tree ELSE None
<1>3. rest \in Claim /\ Justified(rest)
  BY <1>2 DEF Claim, Justified
<1>4. plans' = [plans EXCEPT ![t] = left] /\ doom' = [doom EXCEPT ![t] = selected]
  BY DEF Walk
<1>5. left \in SUBSET Claim /\ \A c \in left : Justified(c)
  BY <1>1, <1>3
<1>6. ASSUME selected # None
      PROVE  selected \in Dooms /\ Doomed(selected)
  <2>1. procs[b].alive /\ selected = tree
    BY <1>6
  <2>2. \A x \in Tree(b, claim.spared) : x \in DOMAIN procs /\ Leak(x, claim.seen)
    BY <1>1, <1>2, <2>1, TreeJustified
  <2>3. tree \in Dooms
    BY <1>1, <1>2, <2>2, DomainOfProcs DEF Dooms, Claim
  <2>4. Doomed(tree)
    BY <1>2, <2>2 DEF Doomed, Justified
  <2> QED
    BY <2>1, <2>3, <2>4
<1> HIDE DEF left, selected
<1>7. plans' \in [Threads -> SUBSET Claim] /\ \A u \in Threads : \A c \in plans'[u] : Justified(c)
  <2>1. \A u \in Threads : plans'[u] = IF u = t THEN left ELSE plans[u]
    BY <1>1, <1>4
  <2> QED
    BY <1>1, <1>4, <1>5, <2>1
<1>8. /\ doom' \in [Threads -> Dooms \cup {None}]
      /\ \A u \in Threads : \A d \in Dooms : doom'[u] = d /\ d # None => Doomed(d)
  <2>1. \A u \in Threads : doom'[u] = IF u = t THEN selected ELSE doom[u]
    BY <1>1, <1>4
  <2> QED
    BY <1>1, <1>4, <1>6, <2>1
<1> QED
  BY <1>7, <1>8, StepStill DEF Walk, ReaperInv, PlacesOK

\* Strike keeps the invariant: what is left of the tree are leaks still.
LEMMA StrikeInv ==
  ASSUME ReaperAssumption, ReaperInv, NEW t \in Threads, NEW b \in Births, Strike(t, b)
  PROVE  ReaperInv'
<1>1. /\ ProcsInv(procs) /\ plans \in [Threads -> SUBSET Claim] /\ doom \in [Threads -> Dooms \cup {None}]
      /\ \A u \in Threads : \A c \in plans[u] : Justified(c)
      /\ \A u \in Threads : \A d \in Dooms : doom[u] = d /\ d # None => Doomed(d)
  BY DEF ReaperInv, PlansOK, DoomOK
<1>2. doom[t] \in Dooms /\ doom[t] # None /\ b \in doom[t].kill
  BY <1>1 DEF Strike
<1>3. b \in DOMAIN procs
  BY <1>1, <1>2 DEF Doomed
<1>4. ProcsInv(procs)' /\ ProcsInv(procs') /\ Grows(procs, procs') /\ PortOK(procs', port')
  <2>1. CASE procs[b].alive
    BY <1>3, <2>1, DiesKeeps DEF Strike
  <2>2. CASE ~procs[b].alive
    BY <2>2, GrowsItself DEF Strike, ReaperInv
  <2> QED
    BY <2>1, <2>2
<1>5. /\ \A claim : Justified(claim) => Justified(claim)'
      /\ \A d : Doomed(d) => Doomed(d)'
  BY <1>1, <1>4, Kept
<1>6. PlansOK'
  BY <1>1, <1>5 DEF PlansOK, Strike
<1> DEFINE rest == [doom[t] EXCEPT !.kill = doom[t].kill \ {b}]
           left == IF doom[t].kill = {b} THEN None ELSE rest
<1>7. doom' = [doom EXCEPT ![t] = left]
  BY DEF Strike
<1>8. rest \in Dooms
  BY <1>2 DEF Dooms
<1>9. \A d \in Dooms : d = rest => Doomed(d)
  <2>1. /\ doom[t].seen \subseteq DOMAIN procs
        /\ \A x \in doom[t].kill : x \in DOMAIN procs /\ (procs[x].alive => Leak(x, doom[t].seen))
    BY <1>1, <1>2 DEF Doomed
  <2>2. rest.kill \subseteq doom[t].kill /\ rest.seen = doom[t].seen
    BY <1>2 DEF Dooms
  <2> HIDE DEF rest
  <2> QED
    BY <2>1, <2>2 DEF Doomed
<1> HIDE DEF rest
<1>10. DoomOK'
  <2>1. \A u \in Threads : doom'[u] = IF u = t THEN left ELSE doom[u]
    BY <1>1, <1>7
  <2>2. doom' \in [Threads -> Dooms \cup {None}]
    BY <1>1, <1>7, <1>8
  <2>3. \A u \in Threads : \A d \in Dooms : doom'[u] = d /\ d # None => Doomed(d)
    BY <1>1, <1>9, <2>1
  <2> QED
    BY <1>5, <2>2, <2>3 DEF DoomOK
<1>11. Faithful(procs', tracker, ever)
  BY <1>1, <1>4, FaithfulGrows DEF ReaperInv
<1> QED
  BY <1>4, <1>6, <1>10, <1>11 DEF Strike, ReaperInv, PlacesOK

\* Sweep keeps the invariant: what it takes for dead has a PID of which a
\* holder has ended, and what was given up is over or shares its PID.
LEMMA SweepInv ==
  ASSUME ReaperAssumption, ReaperInv, Sweep
  PROVE  ReaperInv' /\ tracker'.settled = tracker.settled
<1> DEFINE Looked(p) == [tracker.known[p] EXCEPT
                           !.alive = @ /\ Live(p) /\ Holder(p) = tracker.known[p].birth]
           known == [p \in Pids |-> IF tracker.known[p] = None THEN None ELSE Looked(p)]
           triggers == {p \in Pids : known[p] # None /\ known[p].birth \in tracker.abandoned}
           swept == [tracker EXCEPT !.known = known, !.abandoned = {}]
<1>1. PICK held \in SUBSET {p \in Pids : known[p] # None /\ ~Live(p)} :
         LET spares == Spares(known, held)
             roles == Roles(known, backend)
             above == [p \in Pids |-> Above(known, p)]
             plan == [p \in triggers |-> Plan(known, roles, above, spares, p)]
         IN  /\ tracker' = IF tracker.abandoned = {} THEN tracker ELSE swept
             /\ plans' = [plans EXCEPT !["main"] =
                   {[reap |-> plan[p].reap, spared |-> plan[p].spare \cup spares,
                     seen |-> {known[q].birth : q \in {x \in Pids : known[x] # None}}] :
                       p \in {q \in triggers : plan[q].reap # {}}}]
  BY DEF Sweep
<1> DEFINE claims == {Decision(known, backend, held, p) : p \in triggers}
<1>2. tracker' = IF tracker.abandoned = {} THEN tracker ELSE swept
  BY <1>1
<1>3. \E S \in SUBSET claims : plans' = [plans EXCEPT !["main"] = S]
  <2> DEFINE spares == Spares(known, held)
             roles == Roles(known, backend)
             above == [p \in Pids |-> Above(known, p)]
             plan == [p \in triggers |-> Plan(known, roles, above, spares, p)]
             D(p) == [reap |-> plan[p].reap, spared |-> plan[p].spare \cup spares,
                      seen |-> {known[q].birth : q \in {x \in Pids : known[x] # None}}]
             S == {D(p) : p \in {q \in triggers : plan[q].reap # {}}}
  <2>1. plans' = [plans EXCEPT !["main"] = S]
    BY <1>1
  <2>2. \A p \in triggers : D(p) = Decision(known, backend, held, p)
    BY DEF Decision, Entries
  <2> HIDE DEF D, known, triggers, plan
  <2>3. S \in SUBSET claims
    BY <2>2
  <2> HIDE DEF S
  <2> QED
    BY <2>1, <2>3
<1>4. /\ ProcsInv(procs) /\ Faithful(procs, tracker, ever) /\ tracker \in Trackers
      /\ tracker.known \in Tables /\ Shows(procs, tracker.known)
      /\ \A b \in tracker.abandoned : b \in DOMAIN procs /\ Over(procs, b)
  BY DEF ReaperInv, Faithful, Sound, Trackers
<1>5. ASSUME NEW p \in Pids, tracker.known[p] # None
      PROVE  /\ Looked(p) \in Meta /\ Looked(p).birth = tracker.known[p].birth
             /\ Mirrors(procs, p, Looked(p))
  <2> DEFINE e == tracker.known[p]
             f == Looked(p)
  <2>1. e \in Meta /\ Mirrors(procs, p, e)
    BY <1>4, <1>5 DEF Tables, Shows
  <2>2. /\ f \in Meta /\ f.birth = e.birth /\ f.image = e.image /\ f.parent = e.parent
        /\ f.alive = (e.alive /\ Live(p) /\ Holder(p) = e.birth)
    BY <2>1 DEF Meta
  <2> HIDE DEF e, f
  <2>3. ~f.alive => DeadHolder(procs, p)
    <3>1. e.birth \in DOMAIN procs /\ procs[e.birth].pid = p
      BY <2>1 DEF Mirrors
    <3>2. CASE procs[e.birth].alive
      BY <1>4, <2>1, <2>2, <3>1, <3>2, AliveHolds DEF Mirrors
    <3>3. CASE ~procs[e.birth].alive
      BY <3>1, <3>3 DEF DeadHolder
    <3> QED
      BY <3>2, <3>3
  <2>4. Mirrors(procs, p, f)
    BY <2>1, <2>2, <2>3 DEF Mirrors
  <2> QED
    BY <2>2, <2>4 DEF e, f
<1> HIDE DEF Looked
<1>6. /\ known \in Tables
      /\ \A p \in Pids : known[p] # None => tracker.known[p] # None /\ known[p] = Looked(p)
  BY <1>5 DEF Tables
<1>7. Shows(procs, known)
  BY <1>5, <1>6 DEF Shows
<1> HIDE DEF known
<1>8. Faithful(procs, swept, ever) /\ swept.settled = tracker.settled
  <2>1. swept \in Trackers /\ swept.known = known /\ swept.abandoned = {} /\ swept.settled = tracker.settled
    BY <1>4, <1>6 DEF Trackers
  <2> HIDE DEF swept
  <2>2. Remembers(swept, ever)
    BY <1>4, <1>5, <1>6, <2>1 DEF Faithful, Remembers
  <2> QED
    BY <1>4, <1>7, <2>1, <2>2 DEF Faithful, Sound
<1> HIDE DEF swept
<1>9. Faithful(procs, tracker', ever') /\ tracker'.settled = tracker.settled
  BY <1>2, <1>4, <1>8 DEF Sweep
<1>10. \A claim \in claims : claim \in Claim /\ Justified(claim)
  BY <1>4, <1>6, <1>7, DecisionType, DecisionJustified
<1> HIDE DEF claims
<1>11. /\ plans' \in [Threads -> SUBSET Claim]
       /\ \A t \in Threads : \A claim \in plans'[t] : Justified(claim)
  <2>1. PICK S \in SUBSET claims : plans' = [plans EXCEPT !["main"] = S]
    BY <1>3
  <2>2. plans \in [Threads -> SUBSET Claim] /\ \A t \in Threads : \A claim \in plans[t] : Justified(claim)
    BY DEF ReaperInv, PlansOK
  <2>3. \A t \in Threads : plans'[t] = IF t = "main" THEN S ELSE plans[t]
    BY <2>1, <2>2
  <2> QED
    BY <1>10, <2>1, <2>2, <2>3
<1> QED
  BY <1>9, <1>11, StepStill DEF Sweep, ReaperInv, PlacesOK, DoomOK

\* Close keeps the invariant: the tracker is dropped with all it knew.
LEMMA CloseInv ==
  ASSUME ReaperAssumption, ReaperInv, Close
  PROVE  ReaperInv' /\ tracker'.settled = {}
<1>1. ProcsInv(procs)
  BY DEF ReaperInv
<1>2. Ages(procs, procs')
  BY <1>1, CloseAges
<1>3. ProcsInv(procs') /\ ProcsInv(procs)' /\ Grows(procs, procs')
  BY <1>1, <1>2, AgesInv DEF Ages
<1>4. PortOK(procs', port')
  <2>1. port' = <<>> /\ <<>> \in Seq(Messages) /\ DOMAIN <<>> = {}
    BY DEF Close
  <2> QED
    BY <2>1 DEF PortOK
<1>5. tracker'.settled = {} /\ Faithful(procs', tracker', ever')
  <2>1. /\ [p \in Pids |-> None] \in Tables
        /\ [p \in Pids |-> 0] \in [Pids -> 0..MaxRetries - 1]
    BY DEF Tables, ReaperAssumption
  <2>2. Empty \in Trackers
    BY <2>1 DEF Empty, Trackers
  <2>3. Empty.settled = {} /\ Empty.abandoned = {} /\ \A p \in Pids : Empty.known[p] = None
    BY DEF Empty
  <2>4. tracker' = Empty /\ ever' = {}
    BY DEF Close
  <2> QED
    BY <2>2, <2>3, <2>4 DEF Faithful, Sound, Shows, Remembers, DeadSet
<1>6. PlansOK' /\ DoomOK'
  <2>1. /\ \A claim : Justified(claim) => Justified(claim)'
        /\ \A d : Doomed(d) => Doomed(d)'
    BY <1>1, <1>3, Kept
  <2> QED
    BY <2>1 DEF ReaperInv, PlansOK, DoomOK, Close
<1> QED
  BY <1>3, <1>4, <1>5, <1>6 DEF ReaperInv, PlacesOK, Close

-----------------------------------------------------------------------------
(* The theorems *)

\* No step breaks the invariant, and none settles an exit again.
LEMMA StepInv ==
  ASSUME ReaperAssumption, ReaperInv, [Next]_vars
  PROVE  ReaperInv' /\ (tracker'.settled \ tracker.settled) \cap ever = {}
<1>1. CASE UNCHANGED vars
  BY <1>1, StepStill DEF vars, ReaperInv, PlacesOK, PlansOK, DoomOK
<1>2. ASSUME NEW b \in DOMAIN procs, Ends(b) PROVE ReaperInv' /\ tracker' = tracker
  BY <1>2, EndsInv DEF Ends, reaperVars
<1>3. ASSUME NEW b \in DOMAIN procs, NEW p \in Pids, NEW image \in Images, Spawn(b, p, image)
      PROVE  ReaperInv' /\ tracker' = tracker
  BY <1>3, SpawnInv DEF Spawn, reaperVars
<1>4. ASSUME NEW next \in {"quiet", "scan"}, Timeout(next) PROVE ReaperInv' /\ tracker' = tracker
  BY <1>4, TimeoutInv DEF Timeout
<1>5. ASSUME NEW t \in Threads, NEW claim \in plans[t], NEW b \in Births, Walk(t, claim, b)
      PROVE  ReaperInv' /\ tracker' = tracker
  BY <1>5, WalkInv DEF Walk
<1>6. ASSUME NEW t \in Threads, NEW b \in Births, Strike(t, b) PROVE ReaperInv' /\ tracker' = tracker
  BY <1>6, StrikeInv DEF Strike
<1>7. CASE Apply
  BY <1>7, ApplyInv
<1>8. CASE EndBatch
  BY <1>8, EndBatchInv
<1>9. CASE QuietPass
  BY <1>9, QuietPassInv
<1>10. CASE Register
  BY <1>10, RegisterInv
<1>11. CASE Sweep
  BY <1>11, SweepInv
<1>12. CASE Close
  BY <1>12, CloseInv
<1> QED
  BY <1>1, <1>2, <1>3, <1>4, <1>5, <1>6, <1>7, <1>8, <1>9, <1>10, <1>11, <1>12 DEF Next

\* The reaper's picture of the processes is a true one in every behaviour, and
\* all that its threads have decided is about leaks (TrackerProcesses).
THEOREM Invariance == Spec => []ReaperInv
<1>1. Init => ReaperInv
  BY ReaperAssumption, InitInv
<1>2. ReaperInv /\ [Next]_vars => ReaperInv'
  BY ReaperAssumption, StepInv
<1> QED
  BY <1>1, <1>2, PTL DEF Spec

\* The types of the reaper hold in every behaviour: the failures counted for a
\* PID stay below MAX_METADATA_RETRIES.
THEOREM TypeCorrect == Spec => []TypeOK
<1>1. ReaperInv => TypeOK
  BY ReaperAssumption, InvTypes
<1> QED
  BY <1>1, Invariance, PTL

\* TrackerProcesses::purge: an exit that was settled after the process had
\* ended is never settled again, however entries come and go.
THEOREM SettledExitsStaySettled == Spec => SettledOnce
<1>1. ReaperInv /\ [Next]_vars => [(tracker'.settled \ tracker.settled) \cap ever = {}]_vars
  BY ReaperAssumption, StepInv
<1> QED
  BY <1>1, Invariance, PTL DEF Spec, SettledOnce

\* execute_decisions: while a session runs the reaper kills only what is below
\* a tool shell that has ended and from which no bash that it had seen runs on,
\* whatever was started, missed or given the same PID since it decided; never a
\* server it had seen, nor what such a server started.
THEOREM KillsOnlyLeaks == Spec => OnlyLeaksAreKilled
<1>1. ASSUME ReaperInv, NEW t \in Threads, NEW b \in DOMAIN procs,
             doom[t] # None, b \in doom[t].kill, procs[b].alive
      PROVE  (\E c \in Line(b) : Reused(c)) \/ LeftBehind(b, doom[t].seen)
  <2>1. doom[t] \in Dooms /\ Doomed(doom[t])
    BY <1>1 DEF ReaperInv, DoomOK
  <2> QED
    BY <1>1, <2>1 DEF Doomed, Leak
<1>2. ReaperInv => [\A t \in Threads, b \in DOMAIN procs :
          Kills(t, b) => \/ \E c \in Line(b) : Reused(c)
                         \/ LeftBehind(b, doom[t].seen)]_vars
  BY <1>1 DEF Kills
<1> QED
  BY <1>2, Invariance, PTL DEF Spec, OnlyLeaksAreKilled
=============================================================================
