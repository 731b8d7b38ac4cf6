---------------------------- MODULE RewindProofs ----------------------------
(* Proofs about the thread's checkpoints and their index (Rewind), for every   *)
(* number of tool calls, of kept messages and of checkpoints, with cancelled   *)
(* turns and with failures between a checkpoint and its index.                 *)
EXTENDS Rewind, FiniteSetTheorems, SequenceTheorems, WellFoundedInduction, TLAPS

AnyMessage == [kind : Kinds, put : Nat]
Checkpoint == [messages : Seq(AnyMessage), parent : Nat]

\* Checkpoints and rows are functions, of ids given out already.
Shapes ==
  /\ puts \in Nat
  /\ cps \in [DOMAIN cps -> Checkpoint]
  /\ DOMAIN cps \subseteq 1..puts
  /\ \A id \in DOMAIN cps : cps[id].parent <= puts
  /\ index \in [DOMAIN index -> Nat]
  /\ ~Indexed => index = <<>>

Whole(id) == cps[id].parent \in {0} \cup DOMAIN cps

\* A checkpoint without its parent was not indexed, by an index that has rows; and
\* messages are only added from parent to child, so counting follows the chain.
Family ==
  /\ \A id \in DOMAIN cps : Whole(id) \/ Unindexed(id)
  /\ index = <<>> => \A id \in DOMAIN cps : Whole(id)
  /\ \A id \in DOMAIN cps : cps[id].parent \in DOMAIN cps =>
       Len(cps[cps[id].parent].messages) <= Len(cps[id].messages)

\* The parent of a checkpoint is the one put before it that is left.
Chain ==
  \A id \in DOMAIN cps :
    /\ cps[id].parent \in {0} \cup DOMAIN cps /\ cps[id].parent < id
    /\ \A other \in DOMAIN cps : other < id => other <= cps[id].parent

IInv == Shapes /\ IndexSound /\ (Indexed => Family) /\ (~Indexed => Chain)

-----------------------------------------------------------------------------
(* Greatest elements *)

\* A nonempty set of numbers up to n has a greatest element.
LEMMA Greatest ==
  ASSUME NEW n \in Nat, NEW S, S \subseteq 1..n, S # {}
  PROVE  \E m \in S : \A k \in S : k <= m
<1> DEFINE T == {n - k : k \in S}
<1>1. T \subseteq Nat /\ T # {}
  <2>1. \A k \in S : k \in Nat /\ n - k \in Nat
    OBVIOUS
  <2>2. \A y \in T : y \in Nat
    BY <2>1
  <2> QED
    BY <2>2
<1>2. PICK x \in T : \A y \in T : ~(<<y, x>> \in OpToRel(<, Nat))
  BY <1>1, NatLessThanWellFounded, WFMin, Zenon
<1>3. \A y \in T : ~(y < x)
  <2> TAKE y \in T
  <2>1. <<y, x>> \notin OpToRel(<, Nat)
    BY <1>2
  <2> QED
    BY <2>1, <1>1 DEF OpToRel
<1>4. PICK m \in S : x = n - m
  OBVIOUS
<1>5. \A k \in S : ~(n - k < n - m)
  BY <1>3, <1>4
<1> QED
  BY <1>5

\* A function of no arguments is <<>>.
LEMMA NoArguments ==
  ASSUME NEW S, NEW f \in [{} -> S]
  PROVE  f = <<>>
OBVIOUS

\* A thread with checkpoints has a latest one, and its messages are a sequence.
LEMMA Latest ==
  ASSUME Shapes, cps # <<>>
  PROVE  LET top == CHOOSE id \in DOMAIN cps : IsLatest(id) IN
         /\ top \in DOMAIN cps /\ IsLatest(top)
         /\ Messages = cps[top].messages /\ Messages \in Seq(AnyMessage)
<1>1. DOMAIN cps # {}
  BY NoArguments DEF Shapes
<1>2. \E id \in DOMAIN cps : IsLatest(id)
  BY <1>1, Greatest DEF Shapes, IsLatest
<1> QED
  BY <1>2 DEF Messages, Shapes, Checkpoint

LEMMA MessagesType ==
  ASSUME Shapes
  PROVE  Messages \in Seq(AnyMessage)
<1>1. CASE cps = <<>>
  BY <1>1, EmptySeq DEF Messages
<1>2. CASE cps # <<>>
  BY <1>2, Latest
<1> QED
  BY <1>1, <1>2

-----------------------------------------------------------------------------
(* The history of the latest checkpoint *)

\* A nonempty set of numbers has a least element.
LEMMA Least ==
  ASSUME NEW T \in SUBSET Nat, T # {}
  PROVE  \E m \in T : \A k \in T : m <= k
<1>1. PICK m \in T : \A k \in T : ~(<<k, m>> \in OpToRel(<, Nat))
  BY NatLessThanWellFounded, WFMin, Zenon
<1>2. ASSUME NEW k \in T PROVE m <= k
  <2>1. ~(k < m)
    BY <1>1 DEF OpToRel
  <2> QED
    BY <2>1
<1> QED
  BY <1>2

\* Who descends from a parent given earlier has ancestors.
Climbs(f, D, up) == f = [x \in Nat |-> IF x \in D THEN {x} \cup f[up[x]] ELSE {}]
LEMMA AncestorsDefined ==
  ASSUME NEW M \in Nat, NEW D, NEW up,
         \A x \in D : x \in 1..M /\ up[x] \in Nat /\ up[x] < x
  PROVE  \E f : Climbs(f, D, up)
<1> DEFINE Good(n, f) == f = [x \in 0..n |-> IF x \in D THEN {x} \cup f[up[x]] ELSE {}]
           Bad == {n \in Nat : ~\E f : Good(n, f)}
<1>1. Bad = {}
  <2> SUFFICES ASSUME Bad # {} PROVE FALSE
    OBVIOUS
  <2>1. PICK n \in Bad : \A k \in Bad : n <= k
    BY Least
  <2>2. CASE n = 0
    <3>1. Good(0, [x \in 0..0 |-> {}])
      OBVIOUS
    <3> QED
      BY <2>1, <2>2, <3>1
  <2>3. CASE n # 0
    <3>1. n \in Nat /\ n - 1 \in Nat /\ n - 1 < n
      BY <2>3
    <3>2. n - 1 \notin Bad
      <4> HIDE DEF Bad
      <4> QED
        BY <2>1, <3>1
    <3>3. PICK g : Good(n - 1, g)
      BY <3>1, <3>2
    <3> DEFINE top == IF n \in D THEN {n} \cup g[up[n]] ELSE {}
               f == [x \in 0..n |-> IF x = n THEN top ELSE g[x]]
    <3>4. ASSUME NEW x \in 0..n
          PROVE  f[x] = IF x \in D THEN {x} \cup f[up[x]] ELSE {}
      <4>1. CASE x = n
        <5>1. x \in D => up[x] \in 0..n /\ up[x] # n
          BY <3>1, <4>1
        <5> QED
          BY <3>1, <4>1, <5>1
      <4>2. CASE x # n
        <5>1. x \in 0..(n - 1)
          BY <4>2, <3>1
        <5>2. g[x] = IF x \in D THEN {x} \cup g[up[x]] ELSE {}
          BY <5>1, <3>3
        <5>3. x \in D => up[x] \in 0..n /\ up[x] # n
          BY <5>1, <3>1
        <5> QED
          BY <4>2, <5>2, <5>3
      <4> QED
        BY <4>1, <4>2
    <3>5. Good(n, f)
      BY <3>4
    <3> QED
      BY <2>1, <3>5
  <2> QED
    BY <2>2, <2>3
<1>2. PICK g : Good(M, g)
  BY <1>1
<1> DEFINE f == [x \in Nat |-> IF x \in 0..M THEN g[x] ELSE {}]
<1>3. ASSUME NEW x \in Nat
      PROVE  f[x] = IF x \in D THEN {x} \cup f[up[x]] ELSE {}
  <2>1. CASE x \in D
    <3>1. x \in 0..M /\ up[x] \in 0..M
      BY <2>1
    <3>2. g[x] = {x} \cup g[up[x]]
      BY <1>2, <2>1, <3>1
    <3> QED
      BY <2>1, <3>1, <3>2
  <2>2. CASE x \notin D
    BY <1>2, <2>2
  <2> QED
    BY <2>1, <2>2
<1>4. Climbs(f, D, up)
  BY <1>3 DEF Climbs
<1> HIDE DEF f
<1> QED
  BY <1>4

\* Following the parents from the latest checkpoint, one comes by every other.
LEMMA HistoryIsAll ==
  ASSUME Shapes, Chain
  PROVE  History = DOMAIN cps
<1> DEFINE D == DOMAIN cps
           Is(f) == f = [id \in Nat |-> IF id \in D THEN {id} \cup f[cps[id].parent] ELSE {}]
           Up == CHOOSE f : Is(f)
<1>1. /\ D \subseteq 1..puts /\ puts \in Nat
      /\ \A id \in D : cps[id].parent \in Nat /\ cps[id].parent < id
  BY DEF Shapes, Checkpoint, Chain
<1>2. \E f : Is(f)
  <2> DEFINE up == [id \in D |-> cps[id].parent]
  <2>1. \A x \in D : x \in 1..puts /\ up[x] \in Nat /\ up[x] < x /\ up[x] = cps[x].parent
    BY <1>1
  <2> HIDE DEF up, D
  <2>2. PICK f : Climbs(f, D, up)
    BY <1>1, <2>1, AncestorsDefined
  <2>3. f = [x \in Nat |-> IF x \in D THEN {x} \cup f[up[x]] ELSE {}]
    BY <2>2 DEF Climbs
  <2> QED
    BY <2>1, <2>3
<1> HIDE DEF Is
<1>3. Is(Up)
  BY <1>2
<1>4. History = {id \in D : \E latest \in D : IsLatest(latest) /\ id \in Up[latest]}
  BY DEF History, Is
<1> HIDE DEF Up
<1>5. /\ \A x \in D : Up[x] = {x} \cup Up[cps[x].parent]
      /\ \A x \in Nat \ D : Up[x] = {}
  BY <1>1, <1>3 DEF Is
\* Ancestors have their parents among them.
<1>6. \A x \in D : \A y \in Up[x] : y \in D => (cps[y].parent \in D => cps[y].parent \in Up[x])
  <2> DEFINE Closed(x) == \A y \in Up[x] : y \in D => (cps[y].parent \in D => cps[y].parent \in Up[x])
             T == {x \in D : ~Closed(x)}
  <2>1. ASSUME T # {} PROVE FALSE
    <3>1. T \in SUBSET Nat
      BY <1>1
    <3> HIDE DEF T
    <3>2. PICK x \in T : \A y \in T : x <= y
      BY <2>1, <3>1, Least
    <3> USE DEF T
    <3>3. x \in D /\ cps[x].parent \in Nat /\ cps[x].parent < x
      BY <1>1, <3>2
    <3>4. CASE cps[x].parent \notin D
      <4>1. Up[x] = {x}
        BY <1>5, <3>3, <3>4
      <4> QED
        BY <3>2, <3>4, <4>1
    <3>5. CASE cps[x].parent \in D
      <4>1. ~(x <= cps[x].parent)
        BY <3>3, <1>1
      <4>2. cps[x].parent \notin T
        <5> HIDE DEF T
        <5> QED
          BY <3>2, <4>1
      <4>3. Closed(cps[x].parent)
        <5> HIDE DEF Closed
        <5> QED
          BY <3>5, <4>2
      <4>4. Up[x] = {x} \cup Up[cps[x].parent] /\ cps[x].parent \in Up[cps[x].parent]
        BY <1>5, <3>3, <3>5
      <4>5. Closed(x)
        BY <4>3, <4>4
      <4> QED
        BY <3>2, <4>5
    <3> QED
      BY <3>4, <3>5
  <2> QED
    BY <2>1
<1>7. CASE D = {}
  BY <1>4, <1>7
<1>8. CASE D # {}
  <2> HIDE DEF D
  <2>1. PICK last \in D : \A id \in D : id <= last
    BY <1>1, <1>8, Greatest
  <2> DEFINE Missed == {id \in D : id \notin Up[last]}
  <2>2. ASSUME Missed # {} PROVE FALSE
    <3>1. Missed \subseteq 1..puts
      BY <1>1
    <3> HIDE DEF Missed
    <3>2. PICK s \in Missed : \A k \in Missed : k <= s
      BY <1>1, <2>2, <3>1, Greatest
    <3> USE DEF Missed
    <3>3. s \in D /\ s \notin Up[last] /\ s # last
      BY <1>5, <2>1, <3>2
    <3> DEFINE Later == {id \in D : id > s}
    <3>4. Later \in SUBSET Nat /\ last \in Later
      <4>1. s \in Nat /\ last \in Nat /\ s <= last
        BY <1>1, <2>1, <3>3
      <4>2. last > s
        BY <3>3, <4>1
      <4>3. Later \subseteq D
        OBVIOUS
      <4>4. D \subseteq Nat
        BY <1>1
      <4>5. last \in Later
        BY <2>1, <4>2
      <4> QED
        BY <4>3, <4>4, <4>5
    <3> HIDE DEF Later
    <3>5. PICK c \in Later : \A k \in Later : c <= k
      BY <3>4, Least
    <3> USE DEF Later
    <3>6. c \in D /\ c > s /\ c \in Nat /\ s \in Nat
      BY <1>1, <3>3, <3>5
    <3>7. c \in Up[last]
      <4>1. c \notin Missed
        <5> HIDE DEF Missed
        <5>1. ~(c <= s)
          BY <3>6
        <5> QED
          BY <3>2, <5>1
      <4> QED
        BY <3>6, <4>1
    <3>8. s <= cps[c].parent /\ cps[c].parent \in {0} \cup D /\ cps[c].parent < c
      BY <3>3, <3>6 DEF Chain, D
    <3>9. cps[c].parent = s
      <4>1. cps[c].parent \in D
        <5>1. s # 0
          BY <1>1, <3>3
        <5> QED
          BY <3>6, <3>8, <5>1
      <4>2. cps[c].parent \in Nat
        BY <1>1, <3>6
      <4>3. cps[c].parent \notin Later
        <5> HIDE DEF Later
        <5>1. ~(c <= cps[c].parent)
          BY <3>6, <3>8, <4>2
        <5> QED
          BY <3>5, <5>1
      <4> QED
        BY <3>6, <3>8, <4>1, <4>2, <4>3
    <3> QED
      BY <1>6, <2>1, <3>3, <3>6, <3>7, <3>9
  <2>3. D \subseteq Up[last] /\ IsLatest(last)
    BY <2>1, <2>2 DEF IsLatest, D
  <2> QED
    BY <1>4, <2>1, <2>3 DEF D
<1> QED
  BY <1>7, <1>8

-----------------------------------------------------------------------------
(* The index *)

\* What a replay counts by is about checkpoints that are there, and right.
LEMMA LazyIndexSound ==
  ASSUME IInv
  PROVE  /\ DOMAIN LazyIndex \subseteq DOMAIN cps
         /\ LazyIndex \in [DOMAIN LazyIndex -> Nat]
         /\ \A id \in DOMAIN LazyIndex : LazyIndex[id] = Len(cps[id].messages)
<1>1. CASE index # <<>>
  BY <1>1 DEF LazyIndex, IInv, Shapes, IndexSound
<1>2. CASE index = <<>>
  <2>1. History \subseteq DOMAIN cps
    BY DEF History
  <2>2. \A id \in DOMAIN cps : Len(cps[id].messages) \in Nat
    BY LenProperties DEF IInv, Shapes, Checkpoint
  <2> QED
    BY <1>2, <2>1, <2>2 DEF LazyIndex, Counted
<1> QED
  BY <1>1, <1>2

LEMMA InitIInv == Init => IInv
<1> SUFFICES ASSUME Init PROVE IInv
  OBVIOUS
<1>1. DOMAIN cps = {} /\ DOMAIN index = {}
  BY DEF Init
<1>2. Shapes
  BY <1>1 DEF Init, Shapes
<1> QED
  BY <1>1, <1>2 DEF IInv, IndexSound, Family, Chain

-----------------------------------------------------------------------------
(* Steps of a turn *)

\* What the next checkpoint is made of.
Child(ms) == [messages |-> ms, parent |-> IF cps = <<>> THEN 0
                                          ELSE CHOOSE id \in DOMAIN cps : IsLatest(id)]

LEMMA ChildType ==
  ASSUME Shapes, NEW ms \in Seq(AnyMessage)
  PROVE  /\ Child(ms) \in Checkpoint
         /\ Child(ms).parent \in {0} \cup DOMAIN cps
<1>1. CASE cps = <<>>
  BY <1>1 DEF Child, Checkpoint
<1>2. CASE cps # <<>>
  <2>1. (CHOOSE id \in DOMAIN cps : IsLatest(id)) \in DOMAIN cps
    BY <1>2, Latest
  <2>2. (CHOOSE id \in DOMAIN cps : IsLatest(id)) \in Nat
    BY <2>1 DEF Shapes
  <2> QED
    BY <1>2, <2>1, <2>2 DEF Child, Checkpoint
<1> QED
  BY <1>1, <1>2

\* Putting a checkpoint makes it the latest one, above the one that was.
LEMMA PutChain ==
  ASSUME Shapes, Chain, NEW ms \in Seq(AnyMessage), NEW next, Put(ms, next)
  PROVE  Chain'
<1> DEFINE new == puts + 1
<1>1. /\ puts \in Nat /\ new \in Nat /\ new \notin DOMAIN cps /\ DOMAIN cps \subseteq 1..puts
  BY DEF Shapes
<1>2. cps' = With(cps, new, Child(ms))
  BY DEF Put, Child
<1>3. /\ DOMAIN cps' = {new} \cup DOMAIN cps /\ cps'[new] = Child(ms)
      /\ \A id \in DOMAIN cps : cps'[id] = cps[id]
  BY <1>1, <1>2 DEF With
<1>4. /\ Child(ms).parent \in {0} \cup DOMAIN cps
      /\ \A other \in DOMAIN cps : other <= Child(ms).parent
  <2>1. CASE cps = <<>>
    BY <2>1 DEF Child
  <2>2. CASE cps # <<>>
    BY <2>2, Latest DEF Child, IsLatest
  <2> QED
    BY <2>1, <2>2
<1>5. Child(ms).parent < new
  BY <1>1, <1>4
<1>6. ASSUME NEW id \in DOMAIN cps'
      PROVE  /\ cps'[id].parent \in {0} \cup DOMAIN cps' /\ cps'[id].parent < id
             /\ \A other \in DOMAIN cps' : other < id => other <= cps'[id].parent
  <2>1. CASE id = new
    <3>1. \A other \in DOMAIN cps' : other < id => other \in DOMAIN cps
      BY <1>1, <1>3, <2>1
    <3> QED
      BY <1>3, <1>4, <1>5, <2>1, <3>1
  <2>2. CASE id # new
    <3>1. id \in DOMAIN cps /\ ~(new < id)
      BY <1>1, <1>3, <2>2
    <3>2. \A other \in DOMAIN cps' : other < id => other \in DOMAIN cps
      BY <1>3, <3>1
    <3> HIDE DEF new
    <3> QED
      BY <1>3, <3>1, <3>2 DEF Chain
  <2> QED
    BY <2>1, <2>2
<1> QED
  BY <1>6 DEF Chain

\* Putting a checkpoint with no fewer messages than the latest one.
LEMMA PutIInv ==
  ASSUME IInv, NEW ms \in Seq(AnyMessage), NEW next, Put(ms, next),
         Len(Messages) <= Len(ms)
  PROVE  IInv'
<1> DEFINE new == puts + 1
<1>1. /\ puts \in Nat /\ new \in Nat /\ new \notin DOMAIN cps
      /\ DOMAIN index \subseteq DOMAIN cps /\ new \notin DOMAIN index
  BY DEF IInv, Shapes, IndexSound
<1>2. /\ puts' = new /\ saver' = saver
      /\ cps' = With(cps, new, Child(ms))
      /\ \/ index' = index /\ (Indexed => Faults \/ ms = <<>>)
         \/ Indexed /\ ms # <<>> /\ index' = With(index, new, Len(ms))
  BY DEF Put, IndexMessages, Child
<1>3. /\ DOMAIN cps' = {new} \cup DOMAIN cps
      /\ cps'[new] = Child(ms)
      /\ \A id \in DOMAIN cps : cps'[id] = cps[id]
      /\ cps' = [id \in {new} \cup DOMAIN cps |-> IF id = new THEN Child(ms) ELSE cps[id]]
  BY <1>1, <1>2 DEF With
<1>4. Len(ms) \in Nat
  BY LenProperties
<1>5. /\ index' \in [DOMAIN index' -> Nat]
      /\ DOMAIN index' \subseteq {new} \cup DOMAIN index
      /\ \A id \in DOMAIN cps : id \in DOMAIN index <=> id \in DOMAIN index'
      /\ \A id \in DOMAIN index : index'[id] = index[id]
      /\ new \in DOMAIN index' => index'[new] = Len(ms)
      /\ index' = <<>> => index = <<>>
      /\ ~Indexed => index' = index
  <2>1. CASE index' = index
    BY <1>1, <2>1 DEF IInv, Shapes
  <2>2. CASE Indexed /\ index' = With(index, new, Len(ms))
    BY <1>1, <1>4, <2>2 DEF IInv, Shapes, With
  <2> QED
    BY <1>2, <2>1, <2>2
<1>6. Shapes'
  <2>1. /\ Child(ms) \in Checkpoint /\ Child(ms).parent \in 0..puts
        /\ \A id \in DOMAIN cps : cps[id] \in Checkpoint /\ cps[id].parent <= puts
    BY <1>1, ChildType DEF IInv, Shapes
  <2>2. cps' \in [DOMAIN cps' -> Checkpoint]
    BY <1>3, <2>1
  <2>3. DOMAIN cps' \subseteq 1..puts'
    BY <1>1, <1>2, <1>3 DEF IInv, Shapes
  <2>4. \A id \in DOMAIN cps' : cps'[id].parent <= puts'
    BY <1>1, <1>2, <1>3, <2>1 DEF Checkpoint
  <2>5. (~Indexed => index = <<>>)'
    BY <1>2, <1>5 DEF IInv, Shapes, Indexed
  <2> QED
    BY <1>1, <1>2, <1>5, <2>2, <2>3, <2>4, <2>5 DEF Shapes
<1>7. IndexSound'
  BY <1>1, <1>3, <1>5, ChildType DEF IInv, IndexSound, Child
<1>8. ASSUME Indexed PROVE Family'
  <2>1. /\ cps'[new].parent \in {0} \cup DOMAIN cps'
        /\ \A id \in DOMAIN cps : Whole(id) => Whole(id)'
    BY <1>3, ChildType DEF IInv, Whole
  <2>2. \A id \in DOMAIN cps : Unindexed(id) => Unindexed(id)'
    BY <1>2, <1>3, <1>5 DEF Unindexed, Indexed
  <2>3. \A id \in DOMAIN cps : cps[id].parent # new
    BY <1>1 DEF IInv, Shapes, Checkpoint
  <2>4. cps # <<>> => cps[Child(ms).parent].messages = Messages
    BY Latest DEF IInv, Child
  <2>5. ASSUME Child(ms).parent \in DOMAIN cps
        PROVE  Len(cps[Child(ms).parent].messages) <= Len(ms)
    BY <2>4, <2>5
  <2>6. \A id \in DOMAIN cps' : cps'[id].parent \in DOMAIN cps' =>
          Len(cps'[cps'[id].parent].messages) <= Len(cps'[id].messages)
    <3> SUFFICES ASSUME NEW id \in DOMAIN cps', cps'[id].parent \in DOMAIN cps'
                 PROVE  Len(cps'[cps'[id].parent].messages) <= Len(cps'[id].messages)
      OBVIOUS
    <3>1. CASE id = new
      <4>1. Child(ms).parent \in DOMAIN cps /\ Child(ms).messages = ms
        <5>1. Child(ms).parent # new /\ Child(ms).parent \in {0} \cup DOMAIN cps
          BY <1>1, ChildType DEF IInv
        <5>2. cps'[id].parent = Child(ms).parent
          BY <1>3, <3>1
        <5>3. 0 \notin DOMAIN cps'
          BY <1>1, <1>3 DEF IInv, Shapes
        <5> QED
          BY <5>1, <5>2, <5>3 DEF Child
      <4> QED
        BY <1>3, <2>5, <3>1, <4>1
    <3>2. CASE id # new
      <4>1. id \in DOMAIN cps /\ cps[id].parent \in DOMAIN cps
        BY <1>3, <2>3, <3>2
      <4> QED
        BY <1>3, <1>8, <4>1 DEF IInv, Family
    <3> QED
      BY <3>1, <3>2
  <2>7. \A id \in DOMAIN cps' : Whole(id)' \/ Unindexed(id)'
    BY <1>3, <1>8, <2>1, <2>2 DEF IInv, Family, Whole
  <2>8. index' = <<>> => \A id \in DOMAIN cps' : Whole(id)'
    BY <1>3, <1>5, <1>8, <2>1 DEF IInv, Family, Whole
  <2> QED
    BY <2>6, <2>7, <2>8 DEF Family
<1>9. ~Indexed => Chain'
  BY PutChain DEF IInv
<1> QED
  BY <1>2, <1>6, <1>7, <1>8, <1>9 DEF IInv, Indexed

\* The messages a step adds.
LEMMA NewType ==
  ASSUME Shapes, NEW kind \in Kinds
  PROVE  New(kind) \in AnyMessage
BY DEF Shapes, New, AnyMessage

LEMMA ResultsType ==
  ASSUME Shapes
  PROVE  /\ [k \in 1..Fan |-> New("tool")] \in Seq(AnyMessage)
         /\ Len([k \in 1..Fan |-> New("tool")]) = Fan
<1>1. New("tool") \in AnyMessage /\ Fan \in Nat
  BY NewType, RewindAssumption DEF Kinds
<1> QED
  BY <1>1

\* The repair keeps every message and adds results.
LEMMA RepairedType ==
  ASSUME Shapes, NEW ms \in Seq(AnyMessage)
  PROVE  Repaired(ms) \in Seq(AnyMessage) /\ Len(ms) <= Len(Repaired(ms))
<1> DEFINE ai == {i \in DOMAIN ms : ms[i].kind \in {"ai", "call"}}
           last == CHOOSE i \in ai : \A j \in ai : j <= i
           have == {i \in DOMAIN ms : i > last /\ ms[i].kind = "tool"}
           results == [k \in 1..Fan |-> New("tool")]
<1>1. Len(ms) \in Nat /\ DOMAIN ms = 1..Len(ms)
  BY LenProperties
<1>2. CASE ai = {} \/ ms[last].kind = "ai" \/ have # {}
  BY <1>1, <1>2 DEF Repaired
<1>3. CASE ~(ai = {} \/ ms[last].kind = "ai" \/ have # {})
  <2>1. \E i \in ai : \A j \in ai : j <= i
    BY <1>1, <1>3, Greatest
  <2>2. last \in 1..Len(ms)
    BY <1>1, <2>1
  <2> HIDE DEF last
  <2> DEFINE head == SubSeq(ms, 1, last)
             tail == SubSeq(ms, last + 1, Len(ms))
  <2>3. head \in Seq(AnyMessage) /\ Len(head) = last
    BY <1>1, <2>2
  <2>4. tail \in Seq(AnyMessage) /\ Len(tail) = Len(ms) - last
    <3>1. \A i \in last + 1 .. Len(ms) : ms[i] \in AnyMessage
      BY <1>1, <2>2
    <3>2. /\ tail \in Seq(AnyMessage)
          /\ Len(tail) = IF last + 1 <= Len(ms) THEN Len(ms) - (last + 1) + 1 ELSE 0
      BY <1>1, <2>2, <3>1, SubSeqProperties
    <3> HIDE DEF ai, have, results, head, tail
    <3>3. CASE last + 1 <= Len(ms)
      BY <1>1, <2>2, <3>2, <3>3
    <3>4. CASE last = Len(ms)
      BY <1>1, <2>2, <3>2, <3>4
    <3>5. \A a, b \in Nat : a \in 1..b => a + 1 <= b \/ a = b
      OBVIOUS
    <3>6. last \in Nat
      BY <1>1, <2>2
    <3> QED
      BY <1>1, <2>2, <3>3, <3>4, <3>5, <3>6, Zenon
  <2>5. results \in Seq(AnyMessage) /\ Len(results) = Fan /\ Fan \in Nat
    BY ResultsType, RewindAssumption
  <2>6. Repaired(ms) = head \o results \o tail
    BY <1>3 DEF Repaired, last
  <2> HIDE DEF head, results, tail
  <2>7. head \o results \in Seq(AnyMessage) /\ Len(head \o results) = last + Fan
    BY <2>3, <2>5, ConcatProperties
  <2>8. /\ (head \o results) \o tail \in Seq(AnyMessage)
        /\ Len((head \o results) \o tail) = Len(head \o results) + Len(tail)
    BY <2>4, <2>7, ConcatProperties
  <2> QED
    BY <1>1, <2>2, <2>4, <2>5, <2>6, <2>7, <2>8
<1> QED
  BY <1>2, <1>3

LEMMA TurnIInv ==
  ASSUME IInv, Send \/ Human \/ BeforeAgent \/ Model \/ Tools
  PROVE  IInv'
<1>1. Shapes /\ Messages \in Seq(AnyMessage) /\ Len(Messages) \in Nat
  BY MessagesType, LenProperties DEF IInv
<1>2. \A kind \in Kinds : /\ Append(Messages, New(kind)) \in Seq(AnyMessage)
                          /\ Len(Messages) <= Len(Append(Messages, New(kind)))
  <2> TAKE kind \in Kinds
  <2>1. New(kind) \in AnyMessage
    BY <1>1, NewType
  <2> QED
    BY <1>1, <2>1
<1>3. CASE Send
  BY <1>1, <1>3, PutIInv DEF Send
<1>4. CASE Human
  BY <1>1, <1>2, <1>4, PutIInv DEF Human, Kinds
<1>5. CASE BeforeAgent
  BY <1>1, <1>5, RepairedType, PutIInv DEF BeforeAgent
<1>6. CASE Model
  BY <1>1, <1>2, <1>6, PutIInv DEF Model, Kinds
<1>7. CASE Tools
  <2> DEFINE results == [k \in 1..Fan |-> New("tool")]
  <2>1. results \in Seq(AnyMessage) /\ Len(results) \in Nat
    BY <1>1, ResultsType, RewindAssumption
  <2>2. Put(Messages \o results, "model")
    BY <1>7 DEF Tools
  <2> HIDE DEF results
  <2>3. /\ Messages \o results \in Seq(AnyMessage)
        /\ Len(Messages \o results) = Len(Messages) + Len(results)
    BY <1>1, <2>1, ConcatProperties
  <2>4. Len(Messages) <= Len(Messages \o results)
    BY <1>1, <2>1, <2>3
  <2> QED
    BY <2>2, <2>3, <2>4, PutIInv
<1> QED
  BY <1>3, <1>4, <1>5, <1>6, <1>7

-----------------------------------------------------------------------------
(* Commands *)

LEMMA BrowseIInv ==
  ASSUME IInv, Browse
  PROVE  IInv'
<1>1. /\ index = <<>> /\ index' = LazyIndex /\ Indexed /\ Indexed'
      /\ cps' = cps /\ puts' = puts /\ saver' = saver
  BY DEF Browse, Indexed
<1>2. Shapes' /\ IndexSound'
  BY <1>1, LazyIndexSound DEF IInv, Shapes, IndexSound
<1>3. Family'
  BY <1>1 DEF IInv, Family, Whole
<1> QED
  BY <1>1, <1>2, <1>3 DEF IInv

\* The target of a replay is a checkpoint of the index, or none.
LEMMA TargetIndexed ==
  ASSUME IInv, Indexed, NEW n
  PROVE  Target(n) \in {0} \cup DOMAIN LazyIndex
<1> DEFINE found == {id \in DOMAIN Counts : Counts[id] = n}
<1>1. Counts = LazyIndex
  BY DEF Counts
<1>2. DOMAIN LazyIndex \subseteq 1..puts /\ puts \in Nat
  BY LazyIndexSound DEF IInv, Shapes
<1>3. CASE found = {}
  BY <1>3 DEF Target
<1>4. CASE found # {}
  <2>1. \E id \in found : \A other \in found : other <= id
    BY <1>1, <1>2, <1>4, Greatest
  <2>2. Target(n) \in found
    BY <1>4, <2>1 DEF Target
  <2> QED
    BY <1>1, <2>2
<1> QED
  BY <1>3, <1>4

\* A replay leaves the checkpoints up to one of them, or none.
KeptUpTo(t) ==
  /\ DOMAIN cps' = {id \in DOMAIN cps : id <= t}
  /\ \A id \in DOMAIN cps' : cps'[id] = cps[id]

LEMMA KeptChain ==
  ASSUME Shapes, Chain, NEW t \in Nat, KeptUpTo(t)
  PROVE  Chain'
<1>1. \A id \in DOMAIN cps : id \in Nat /\ cps[id].parent \in Nat
  BY DEF Shapes, Checkpoint
<1>2. ASSUME NEW id \in DOMAIN cps'
      PROVE  /\ cps'[id].parent \in {0} \cup DOMAIN cps' /\ cps'[id].parent < id
             /\ \A other \in DOMAIN cps' : other < id => other <= cps'[id].parent
  <2>1. id \in DOMAIN cps /\ id <= t /\ cps'[id] = cps[id] /\ DOMAIN cps' \subseteq DOMAIN cps
    BY DEF KeptUpTo
  <2>2. cps[id].parent \in {0} \cup DOMAIN cps /\ cps[id].parent < id
    BY <2>1 DEF Chain
  <2>3. cps[id].parent <= t
    BY <1>1, <2>1, <2>2
  <2>4. cps[id].parent \in {0} \cup DOMAIN cps'
    BY <2>2, <2>3 DEF KeptUpTo
  <2> QED
    BY <2>1, <2>2, <2>4 DEF Chain
<1> QED
  BY <1>2 DEF Chain

\* The in-memory checkpointer deletes what comes after the target in the history.
LEMMA ReplayInMemory ==
  ASSUME Shapes, ~Indexed, Chain, NEW i, Replay(i)
  PROVE  Target(i - 1) \in Nat /\ KeptUpTo(Target(i - 1))
<1> DEFINE t == Target(i - 1)
           found == {id \in DOMAIN Counts : Counts[id] = i - 1}
<1>1. DOMAIN Counts = DOMAIN cps /\ History = DOMAIN cps
  BY HistoryIsAll DEF Counts, Counted
<1>2. DOMAIN cps \subseteq 1..puts /\ puts \in Nat
  BY DEF Shapes
<1>3. t \in {0} \cup DOMAIN cps
  <2>1. CASE found = {}
    BY <2>1 DEF Target
  <2>2. CASE found # {}
    <3>1. \E id \in found : \A other \in found : other <= id
      BY <1>1, <1>2, <2>2, Greatest
    <3>2. t \in found
      BY <2>2, <3>1 DEF Target
    <3> QED
      BY <1>1, <3>2
  <2> QED
    BY <2>1, <2>2
<1>4. cps' = Without(cps, After(t))
  BY DEF Replay
<1> HIDE DEF t
<1>5. /\ DOMAIN cps' = DOMAIN cps \ After(t)
      /\ \A id \in DOMAIN cps' : cps'[id] = cps[id]
  BY <1>4 DEF Without
<1>6. After(t) = {id \in DOMAIN cps : id > t}
  BY <1>1, <1>2, <1>3 DEF After
<1>7. \A id \in DOMAIN cps : id \in Nat /\ t \in Nat /\ (~(id > t) <=> id <= t)
  BY <1>2, <1>3
<1>8. DOMAIN cps' = {id \in DOMAIN cps : id <= t}
  BY <1>5, <1>6, <1>7
<1>9. t \in Nat
  BY <1>2, <1>3
<1> QED
  BY <1>5, <1>8, <1>9 DEF KeptUpTo, t

LEMMA ReplayIInv ==
  ASSUME IInv, NEW i \in DOMAIN Messages, Replay(i)
  PROVE  IInv'
<1> DEFINE t == Target(i - 1)
           gone == After(t)
<1>1. /\ cps' = Without(cps, gone) /\ puts' = puts /\ saver' = saver
      /\ index' = IF Indexed THEN Without(LazyIndex, gone) ELSE index
  BY DEF Replay
<1>2. /\ DOMAIN cps' = DOMAIN cps \ gone
      /\ \A id \in DOMAIN cps' : cps'[id] = cps[id]
      /\ cps' \in [DOMAIN cps' -> Checkpoint]
  BY <1>1 DEF Without, IInv, Shapes
<1>3. CASE ~Indexed
  <2>1. index = <<>> /\ index' = <<>> /\ ~Indexed'
    BY <1>1, <1>3 DEF IInv, Shapes, Indexed
  <2>2. Shapes'
    BY <1>1, <1>2, <2>1 DEF IInv, Shapes
  <2>3. Chain'
    BY <1>3, ReplayInMemory, KeptChain DEF IInv
  <2> QED
    BY <2>1, <2>2, <2>3 DEF IInv, IndexSound
<1>4. CASE Indexed
  <2>1. /\ DOMAIN index' = DOMAIN LazyIndex \ gone /\ Indexed'
        /\ \A id \in DOMAIN index' : index'[id] = LazyIndex[id]
        /\ index' \in [DOMAIN index' -> Nat]
    BY <1>1, <1>4, LazyIndexSound DEF Without, Indexed
  <2>2. Shapes'
    BY <1>1, <1>2, <2>1 DEF IInv, Shapes
  <2>3. IndexSound'
    BY <1>2, <2>1, LazyIndexSound DEF IndexSound
  <2>4. CASE t = 0
    <3>1. DOMAIN cps' = {}
      BY <1>2, <2>4 DEF After
    <3> QED
      BY <2>1, <2>2, <2>3, <3>1 DEF IInv, Family
  <2>5. CASE t \in DOMAIN LazyIndex
    <3>1. /\ DOMAIN LazyIndex \subseteq DOMAIN cps /\ LazyIndex[t] \in Nat
          /\ \A id \in DOMAIN LazyIndex : LazyIndex[id] = Len(cps[id].messages)
      BY <2>5, LazyIndexSound
    <3>2. gone = {id \in DOMAIN LazyIndex : LazyIndex[id] > LazyIndex[t]}
      BY <1>4, <2>5, <3>1 DEF After, IInv, Shapes
    <3>3. \A id \in DOMAIN cps : Len(cps[id].messages) \in Nat /\ 0 \notin DOMAIN cps
      BY LenProperties DEF IInv, Shapes, Checkpoint
    <3> HIDE DEF gone, t
    <3>4. Target(i - 1) \in DOMAIN index'
      BY <2>1, <2>5, <3>1, <3>2 DEF t
    <3>5. \A id \in DOMAIN LazyIndex : Whole(id)
      BY <1>4, <3>1 DEF IInv, Family, LazyIndex, Unindexed
    <3>6. ASSUME NEW id \in DOMAIN cps', Whole(id), ~Unindexed(id)'
          PROVE  Whole(id)'
      <4>1. cps[id].parent \notin gone
        <5> SUFFICES ASSUME cps[id].parent \in gone PROVE FALSE
          OBVIOUS
        <5>1. /\ cps[id].parent \in DOMAIN LazyIndex
              /\ Len(cps[cps[id].parent].messages) > LazyIndex[t]
          BY <3>1, <3>2
        <5>2. Len(cps[cps[id].parent].messages) <= Len(cps[id].messages)
          BY <1>2, <1>4, <3>1, <5>1 DEF IInv, Family
        <5>3. Len(cps[id].messages) > LazyIndex[t]
          BY <1>2, <3>1, <3>3, <5>1, <5>2
        <5>4. id \notin DOMAIN LazyIndex
          BY <1>2, <3>1, <3>2, <5>3
        <5>5. cps[id].messages # <<>>
          BY <3>1, <3>3, <5>3
        <5> QED
          BY <1>2, <2>1, <3>6, <5>4, <5>5 DEF Unindexed
      <4> QED
        BY <1>2, <3>6, <4>1 DEF Whole
    <3>7. \A id \in DOMAIN cps' : Whole(id)' \/ Unindexed(id)'
      <4> SUFFICES ASSUME NEW id \in DOMAIN cps', ~Unindexed(id)' PROVE Whole(id)'
        OBVIOUS
      <4>1. Whole(id)
        <5>1. CASE id \in DOMAIN LazyIndex
          BY <3>5, <5>1
        <5>2. CASE id \notin DOMAIN LazyIndex
          <6>1. cps[id].messages = <<>>
            BY <1>2, <2>1, <5>2 DEF Unindexed
          <6> QED
            BY <1>2, <1>4, <6>1 DEF IInv, Family, Unindexed
        <5> QED
          BY <5>1, <5>2
      <4> QED
        BY <3>6, <4>1
    <3>8. index' # <<>>
      BY <3>4
    <3>9. Family'
      BY <1>2, <1>4, <3>7, <3>8 DEF IInv, Family
    <3> QED
      BY <2>1, <2>2, <2>3, <3>9 DEF IInv
  <2> QED
    BY <1>4, <2>4, <2>5, TargetIndexed
<1> QED
  BY <1>3, <1>4

\* A thread of one entry.
LEMMA Singleton ==
  ASSUME NEW id, NEW v
  PROVE  With(<<>>, id, v) = [x \in {id} |-> v]
BY DEF With

LEMMA CompressIInv ==
  ASSUME IInv, Compress
  PROVE  IInv'
<1> DEFINE cut == IF Len(Messages) > Keep THEN Len(Messages) - Keep ELSE 0
           head == IF cut = 0 THEN <<>> ELSE <<New("ai")>>
           tail == SubSeq(Messages, cut + 1, Len(Messages))
           ms == head \o tail
           new == puts + 1
<1>1. /\ puts' = new /\ saver' = saver
      /\ cps' = With(<<>>, new, [messages |-> ms, parent |-> 0])
      /\ \/ Indexed /\ index' = With(<<>>, new, Len(ms))
         \/ index' = <<>>
  BY DEF Compress
<1>2. puts \in Nat /\ new \in Nat /\ Messages \in Seq(AnyMessage)
  BY MessagesType DEF IInv, Shapes
<1>3. Len(Messages) \in Nat /\ cut \in Nat
  BY <1>2, LenProperties, RewindAssumption
<1>4. head \in Seq(AnyMessage)
  BY NewType DEF IInv, Kinds
<1>5. tail \in Seq(AnyMessage)
  <2>1. \A i \in cut + 1 .. Len(Messages) : Messages[i] \in AnyMessage
    BY <1>2, <1>3, ElementOfSeq
  <2> HIDE DEF cut
  <2> QED
    BY <1>3, <2>1, SubSeqProperties
<1> HIDE DEF head, tail
<1>6. ms \in Seq(AnyMessage) /\ Len(ms) \in Nat
  BY <1>4, <1>5, ConcatProperties, LenProperties
<1> HIDE DEF ms
<1>7. /\ DOMAIN cps' = {new}
      /\ cps' = [id \in {new} |-> [messages |-> ms, parent |-> 0]]
  <2> HIDE DEF new
  <2>1. cps' = With(<<>>, new, [messages |-> ms, parent |-> 0])
    BY <1>1
  <2>2. cps' = [id \in {new} |-> [messages |-> ms, parent |-> 0]]
    BY <2>1, Singleton, Zenon
  <2> QED
    BY <2>2
<1>8. /\ DOMAIN index' \subseteq {new} /\ index' \in [DOMAIN index' -> Nat]
      /\ \A id \in DOMAIN index' : index'[id] = Len(ms)
      /\ ~Indexed => index' = <<>>
  <2>1. CASE index' = <<>>
    BY <2>1
  <2>2. CASE Indexed /\ index' = With(<<>>, new, Len(ms))
    <3>1. index' = [id \in {new} |-> Len(ms)]
      BY <2>2, Singleton
    <3> HIDE DEF new
    <3> QED
      BY <1>6, <2>2, <3>1
  <2> QED
    BY <1>1, <2>1, <2>2
<1>9. Shapes'
  BY <1>1, <1>2, <1>6, <1>7, <1>8 DEF Shapes, Checkpoint, Indexed
<1>10. IndexSound' /\ Family' /\ Chain'
  BY <1>2, <1>7, <1>8 DEF IndexSound, Family, Whole, Chain
<1> QED
  BY <1>9, <1>10 DEF IInv

-----------------------------------------------------------------------------
(* Theorems *)

LEMMA NextIInv == IInv /\ [Next]_vars => IInv'
<1> SUFFICES ASSUME IInv, [Next]_vars PROVE IInv'
  OBVIOUS
<1>1. CASE Send \/ Human \/ BeforeAgent \/ Model \/ Tools
  BY <1>1, TurnIInv
<1>2. CASE Cancel \/ UNCHANGED vars
  <2>1. UNCHANGED <<saver, cps, index, puts>>
    BY <1>2 DEF Cancel, vars
  <2> QED
    BY <2>1 DEF IInv, Shapes, IndexSound, Family, Whole, Unindexed, Indexed, Chain
<1>3. CASE Browse
  BY <1>3, BrowseIInv
<1>4. CASE Compress
  BY <1>4, CompressIInv
<1>5. CASE \E i \in DOMAIN Messages : Replay(i)
  BY <1>5, ReplayIInv
<1> QED
  BY <1>1, <1>2, <1>3, <1>4, <1>5 DEF Next

LEMMA RewindInvariant == Spec => []IInv
BY InitIInv, NextIInv, PTL DEF Spec

\* The index of the SQLite checkpointer is never stale: whatever fails between a
\* checkpoint and its index (aput), and whatever is deleted by delete_after.
THEOREM IndexIsSound == Spec => []IndexSound
<1>1. IInv => IndexSound
  BY DEF IInv
<1> QED
  BY <1>1, RewindInvariant, PTL

\* Deleting by number of messages (the fast path of _get_checkpoints_after), as the
\* SQLite checkpointer does, never cuts an indexed checkpoint off from its parent;
\* nor does deleting what comes later in the history, as the in-memory one does.
THEOREM HistoryIsWhole == Spec => []HistoryWhole
<1>1. IInv => HistoryWhole
  BY DEF IInv, Family, Chain, HistoryWhole, Whole
<1> QED
  BY <1>1, RewindInvariant, PTL

-----------------------------------------------------------------------------
(* The conversation, undisturbed: nothing fails or is cancelled, and a          *)
(* compression keeps no message (the default of messages_to_keep).             *)

Undisturbed == ~Faults /\ ~Cancels /\ Keep = 0

Begins(s, t) == Len(s) <= Len(t) /\ \A k \in 1..Len(s) : s[k] = t[k]

\* Later checkpoints have the messages of the earlier ones first.
Line ==
  \A id, later \in DOMAIN cps :
    id <= later => Begins(cps[id].messages, cps[later].messages)

\* All messages are indexed.
Full == Indexed => DOMAIN index = {id \in DOMAIN cps : cps[id].messages # <<>>}

\* The user speaks when answered, and a checkpoint has what was said before.
Answered(ms) == ms = <<>> \/ ms[Len(ms)].kind = "ai"
Asked ==
  /\ turn \in {"idle", "human"} => Answered(Messages)
  /\ turn = "agent" => Messages # <<>> /\ Messages[Len(Messages)].kind = "human"
Places ==
  \A i \in 2..Len(Messages) : Messages[i].kind = "human" =>
    /\ Messages[i - 1].kind = "ai"
    /\ \E id \in DOMAIN cps : Len(cps[id].messages) = i - 1

SInv == Chain /\ Line /\ Full /\ Asked /\ Places

LEMMA BeginsFollows ==
  ASSUME NEW r \in Seq(AnyMessage), NEW s \in Seq(AnyMessage), NEW t \in Seq(AnyMessage)
  PROVE  /\ Begins(s, s)
         /\ Begins(r, s) /\ Begins(s, t) => Begins(r, t)
         /\ Begins(s, s \o t)
<1>1. Len(r) \in Nat /\ Len(s) \in Nat /\ Len(t) \in Nat
  BY LenProperties
<1>2. Begins(s, s)
  BY <1>1 DEF Begins
<1>3. Begins(r, s) /\ Begins(s, t) => Begins(r, t)
  BY <1>1 DEF Begins
<1>4. Begins(s, s \o t)
  BY <1>1 DEF Begins
<1> QED
  BY <1>2, <1>3, <1>4

\* The latest checkpoint is the last one.
LEMMA LatestIs ==
  ASSUME NEW c, NEW t \in DOMAIN c, DOMAIN c \subseteq Nat, \A other \in DOMAIN c : other <= t
  PROVE  (CHOOSE id \in DOMAIN c : \A other \in DOMAIN c : other <= id) = t
<1>1. \A id \in DOMAIN c : (\A other \in DOMAIN c : other <= id) => id = t
  <2> TAKE id \in DOMAIN c
  <2> HAVE \A other \in DOMAIN c : other <= id
  <2>1. t <= id /\ id <= t /\ t \in Nat /\ id \in Nat
    OBVIOUS
  <2> QED
    BY <2>1
<1>2. \E id \in DOMAIN c : \A other \in DOMAIN c : other <= id
  OBVIOUS
<1> QED
  BY <1>1, <1>2

\* A function of something is not <<>>.
LEMMA SomeArguments ==
  ASSUME NEW c, NEW t \in DOMAIN c
  PROVE  c # <<>>
OBVIOUS

\* Putting a checkpoint that goes on from the latest one.
LEMMA PutSInv ==
  ASSUME IInv, SInv, Undisturbed, NEW ms \in Seq(AnyMessage), NEW next, Put(ms, next),
         Begins(Messages, ms),
         next \in {"idle", "human"} => Answered(ms),
         next = "agent" => ms # <<>> /\ ms[Len(ms)].kind = "human",
         \A i \in 2..Len(ms) : ms[i].kind = "human" /\ ~(i <= Len(Messages)) =>
           i = Len(Messages) + 1 /\ ms[i - 1].kind = "ai"
  PROVE  SInv' /\ Messages' = ms /\ puts' = puts + 1 /\ puts < MaxPuts
<1> DEFINE new == puts + 1
<1>1. /\ puts \in Nat /\ new \in Nat /\ new \notin DOMAIN cps /\ DOMAIN cps \subseteq 1..puts
      /\ DOMAIN index \subseteq DOMAIN cps
  BY DEF IInv, Shapes, IndexSound
<1>2. /\ puts' = new /\ saver' = saver /\ turn' = next /\ puts < MaxPuts
      /\ cps' = With(cps, new, Child(ms))
      /\ index' = IF Indexed /\ ms # <<>> THEN With(index, new, Len(ms)) ELSE index
  BY DEF Put, IndexMessages, Child, Undisturbed
<1>3. /\ DOMAIN cps' = {new} \cup DOMAIN cps
      /\ cps'[new].messages = ms
      /\ \A id \in DOMAIN cps : cps'[id] = cps[id]
  BY <1>1, <1>2 DEF With, Child
<1>4. Messages \in Seq(AnyMessage) /\ Len(Messages) \in Nat /\ Len(ms) \in Nat
  BY MessagesType, LenProperties DEF IInv
<1>5. Messages' = ms
  <2>1. \A other \in DOMAIN cps' : other <= new
    BY <1>1, <1>3
  <2>2. DOMAIN cps' \subseteq Nat /\ new \in DOMAIN cps'
    BY <1>1, <1>3
  <2> HIDE DEF new
  <2>3. (CHOOSE id \in DOMAIN cps' : \A other \in DOMAIN cps' : other <= id) = new
    BY <2>1, <2>2, LatestIs
  <2>4. cps' # <<>>
    BY <2>2, SomeArguments
  <2> QED
    BY <1>3, <2>3, <2>4 DEF Messages, IsLatest
\* The latest checkpoint that was has the conversation that was.
<1>6. \A id \in DOMAIN cps : Begins(cps[id].messages, Messages)
  <2> TAKE id \in DOMAIN cps
  <2> DEFINE top == CHOOSE x \in DOMAIN cps : IsLatest(x)
  <2>1. cps # <<>>
    BY SomeArguments
  <2>2. top \in DOMAIN cps /\ IsLatest(top) /\ Messages = cps[top].messages
    BY <2>1, Latest DEF IInv
  <2> HIDE DEF top
  <2> QED
    BY <2>2 DEF SInv, Line, IsLatest
<1>7. Line'
  <2> SUFFICES ASSUME NEW id \in DOMAIN cps', NEW later \in DOMAIN cps', id <= later
               PROVE  Begins(cps'[id].messages, cps'[later].messages)
    BY DEF Line
  <2>1. \A x \in DOMAIN cps : cps[x].messages \in Seq(AnyMessage)
    BY DEF IInv, Shapes, Checkpoint
  <2>2. CASE later # new
    <3>1. later \in DOMAIN cps /\ id \in DOMAIN cps
      BY <1>1, <1>3, <2>2
    <3> QED
      BY <1>3, <3>1 DEF SInv, Line
  <2>3. CASE later = new /\ id = new
    BY <1>3, <2>3, BeginsFollows
  <2>4. CASE later = new /\ id # new
    <3>1. id \in DOMAIN cps
      BY <1>3, <2>4
    <3>2. Begins(cps[id].messages, ms)
      BY <1>4, <1>6, <2>1, <3>1, BeginsFollows
    <3> QED
      BY <1>3, <2>4, <3>1, <3>2
  <2> QED
    BY <2>2, <2>3, <2>4
<1>8. Full'
  <2> SUFFICES ASSUME Indexed
               PROVE  DOMAIN index' = {id \in DOMAIN cps' : cps'[id].messages # <<>>}
    BY <1>2 DEF Full, Indexed
  <2>1. DOMAIN index = {id \in DOMAIN cps : cps[id].messages # <<>>}
    BY DEF SInv, Full
  <2>2. DOMAIN index' = IF ms # <<>> THEN {new} \cup DOMAIN index ELSE DOMAIN index
    BY <1>2 DEF With
  <2> HIDE DEF new
  <2> QED
    BY <1>3, <2>1, <2>2
<1>9. Asked'
  BY <1>2, <1>5 DEF Asked
<1>10. Places'
  <2> SUFFICES ASSUME NEW i \in 2..Len(ms), ms[i].kind = "human"
               PROVE  /\ ms[i - 1].kind = "ai"
                      /\ \E id \in DOMAIN cps' : Len(cps'[id].messages) = i - 1
    BY <1>5 DEF Places
  <2>1. CASE i <= Len(Messages)
    <3>1. i \in 2..Len(Messages) /\ ms[i] = Messages[i] /\ ms[i - 1] = Messages[i - 1]
      BY <1>4, <2>1 DEF Begins
    <3>2. PICK id \in DOMAIN cps : Len(cps[id].messages) = i - 1 /\ Messages[i - 1].kind = "ai"
      BY <3>1 DEF SInv, Places
    <3> QED
      BY <1>3, <3>1, <3>2
  <2>2. CASE ~(i <= Len(Messages))
    <3>1. i = Len(Messages) + 1 /\ ms[i - 1].kind = "ai"
      BY <2>2
    <3>2. cps # <<>>
      BY <1>4, <3>1 DEF Messages
    <3>3. PICK top \in DOMAIN cps : Messages = cps[top].messages
      BY <3>2, Latest DEF IInv
    <3>4. Len(cps'[top].messages) = i - 1 /\ top \in DOMAIN cps'
      BY <1>3, <1>4, <3>1, <3>3
    <3> QED
      BY <3>1, <3>4
  <2> QED
    BY <2>1, <2>2
<1>11. Chain'
  BY PutChain DEF IInv, SInv
<1> QED
  BY <1>2, <1>5, <1>7, <1>8, <1>9, <1>10, <1>11 DEF SInv

\* When the user's message is the last one there is nothing to repair.
LEMMA NothingToRepair ==
  ASSUME IInv, SInv, turn = "agent"
  PROVE  Repaired(Messages) = Messages
<1> DEFINE ms == Messages
           ai == {i \in DOMAIN ms : ms[i].kind \in {"ai", "call"}}
           last == CHOOSE i \in ai : \A j \in ai : j <= i
<1>1. ms \in Seq(AnyMessage) /\ Len(ms) \in Nat /\ DOMAIN ms = 1..Len(ms)
  BY MessagesType, LenProperties DEF IInv
<1>2. ms # <<>> /\ ms[Len(ms)].kind = "human"
  BY DEF SInv, Asked
<1>3. Len(ms) # 0
  BY <1>1, <1>2, EmptySeq
<1>4. Len(ms) \notin ai
  BY <1>2
<1>5. CASE Len(ms) = 1
  <2>1. ai = {}
    BY <1>1, <1>4, <1>5
  <2> QED
    BY <2>1 DEF Repaired
<1>6. CASE Len(ms) # 1
  <2>1. ms[Len(ms) - 1].kind = "ai" /\ Len(ms) \in 2..Len(ms)
    BY <1>1, <1>2, <1>3, <1>6 DEF SInv, Places
  <2> DEFINE l == Len(ms) - 1
  <2>2. l \in ai /\ \A j \in ai : j <= l
    <3>1. l \in 1..Len(ms)
      BY <1>1, <2>1
    <3>2. l \in ai
      BY <1>1, <2>1, <3>1
    <3>3. \A j \in ai : j \in 1..Len(ms) /\ j # Len(ms)
      BY <1>1, <1>4
    <3> QED
      BY <1>1, <3>2, <3>3
  <2>3. \A i \in ai : (\A j \in ai : j <= i) => i = l
    <3>1. \A i \in ai : i \in Nat /\ l \in Nat
      BY <1>1, <2>2
    <3> QED
      BY <2>2, <3>1
  <2>4. last = l
    <3> HIDE DEF ai, l
    <3> QED
      BY <2>2, <2>3
  <2> QED
    BY <2>1, <2>4 DEF Repaired
<1> QED
  BY <1>5, <1>6

\* Several messages from the same put.
Many(m, n) == [k \in 1..n |-> m]

LEMMA OneIsAppend ==
  ASSUME NEW s \in Seq(AnyMessage), NEW m \in AnyMessage
  PROVE  /\ Append(s, m) = s \o Many(m, 1)
         /\ Begins(s, Append(s, m))
         /\ Append(s, m) \in Seq(AnyMessage) /\ Len(Append(s, m)) = Len(s) + 1
         /\ Append(s, m)[Len(s) + 1] = m
         /\ \A k \in 1..Len(s) : Append(s, m)[k] = s[k]
<1>1. Len(s) \in Nat
  BY LenProperties
<1>2. /\ Append(s, m) \in Seq(AnyMessage) /\ Len(Append(s, m)) = Len(s) + 1
      /\ Append(s, m)[Len(s) + 1] = m
      /\ \A k \in 1..Len(s) : Append(s, m)[k] = s[k]
  BY <1>1
<1>3. Begins(s, Append(s, m))
  BY <1>1, <1>2 DEF Begins
<1>4. Append(s, m) = s \o Many(m, 1)
  BY <1>1 DEF Many
<1> QED
  BY <1>2, <1>3, <1>4

LEMMA TurnSInv ==
  ASSUME IInv, SInv, Undisturbed, Send \/ Human \/ BeforeAgent \/ Model \/ Tools
  PROVE  /\ SInv' /\ screen' = <<>>
         /\ \/ Messages' = Messages
            \/ /\ puts < MaxPuts
               /\ \E kind \in Kinds, n \in Nat \ {0} : Messages' = Messages \o Many(New(kind), n)
<1>1. Messages \in Seq(AnyMessage) /\ Len(Messages) \in Nat /\ Begins(Messages, Messages)
  BY MessagesType, LenProperties, BeginsFollows DEF IInv
<1>2. ASSUME NEW kind \in Kinds
      PROVE  LET ms == Append(Messages, New(kind)) IN
             /\ ms = Messages \o Many(New(kind), 1) /\ Begins(Messages, ms)
             /\ ms \in Seq(AnyMessage) /\ Len(ms) = Len(Messages) + 1
             /\ ms[Len(ms)].kind = kind
             /\ \A k \in 1..Len(Messages) : ms[k] = Messages[k]
  <2> DEFINE m == New(kind)
             ms == Append(Messages, m)
  <2>1. m \in AnyMessage /\ m.kind = kind
    BY NewType DEF IInv, New
  <2> HIDE DEF m
  <2>2. /\ ms = Messages \o Many(m, 1) /\ Begins(Messages, ms)
        /\ ms \in Seq(AnyMessage) /\ Len(ms) = Len(Messages) + 1
        /\ ms[Len(Messages) + 1] = m
        /\ \A k \in 1..Len(Messages) : ms[k] = Messages[k]
    BY <1>1, <2>1, OneIsAppend
  <2> HIDE DEF ms
  <2>3. ms[Len(ms)].kind = kind
    BY <2>1, <2>2
  <2> QED
    BY <2>2, <2>3 DEF ms, m
<1>3. CASE Send
  <2>1. Put(Messages, "human") /\ turn = "idle"
    BY <1>3 DEF Send
  <2>2. Answered(Messages)
    BY <2>1 DEF SInv, Asked
  <2>3. \A i \in 2..Len(Messages) : i <= Len(Messages)
    BY <1>1
  <2>4. SInv' /\ Messages' = Messages
    BY <1>1, <2>1, <2>2, <2>3, PutSInv
  <2> QED
    BY <2>1, <2>4 DEF Put
<1>4. CASE Human
  <2> DEFINE ms == Append(Messages, New("human"))
  <2>1. Put(ms, "agent") /\ turn = "human"
    BY <1>4 DEF Human
  <2>2. /\ ms = Messages \o Many(New("human"), 1) /\ Begins(Messages, ms)
        /\ ms \in Seq(AnyMessage) /\ Len(ms) = Len(Messages) + 1
        /\ ms[Len(ms)].kind = "human"
        /\ \A k \in 1..Len(Messages) : ms[k] = Messages[k]
    BY <1>2 DEF Kinds
  <2>3. Answered(Messages)
    BY <2>1 DEF SInv, Asked
  <2> HIDE DEF ms
  <2>4. \A i \in 2..Len(ms) : ms[i].kind = "human" /\ ~(i <= Len(Messages)) =>
           i = Len(Messages) + 1 /\ ms[i - 1].kind = "ai"
    <3> SUFFICES ASSUME NEW i \in 2..Len(ms), ~(i <= Len(Messages))
                 PROVE  i = Len(Messages) + 1 /\ ms[i - 1].kind = "ai"
      OBVIOUS
    <3>1. i = Len(Messages) + 1 /\ Len(Messages) \in 1..Len(Messages)
      BY <1>1, <2>2
    <3>2. Messages # <<>>
      BY <3>1
    <3> QED
      BY <2>2, <2>3, <3>1, <3>2 DEF Answered
  <2>5. ms # <<>>
    BY <1>1, <2>2
  <2>6. SInv' /\ Messages' = ms /\ puts < MaxPuts
    BY <2>1, <2>2, <2>4, <2>5, PutSInv
  <2> QED
    BY <2>1, <2>2, <2>6 DEF Put, Kinds
<1>5. CASE BeforeAgent
  <2>1. Put(Messages, "model")
    BY <1>5, NothingToRepair DEF BeforeAgent
  <2>2. \A i \in 2..Len(Messages) : i <= Len(Messages)
    BY <1>1
  <2>3. SInv' /\ Messages' = Messages
    BY <1>1, <2>1, <2>2, PutSInv
  <2> QED
    BY <2>1, <2>3 DEF Put
<1>6. CASE Model
  <2>1. PICK kind \in {"ai", "call"} :
          Put(Append(Messages, New(kind)), IF kind = "ai" THEN "idle" ELSE "tools")
    BY <1>6 DEF Model
  <2> DEFINE ms == Append(Messages, New(kind))
             next == IF kind = "ai" THEN "idle" ELSE "tools"
  <2>2. /\ ms = Messages \o Many(New(kind), 1) /\ Begins(Messages, ms)
        /\ ms \in Seq(AnyMessage) /\ Len(ms) = Len(Messages) + 1
        /\ ms[Len(ms)].kind = kind
        /\ \A k \in 1..Len(Messages) : ms[k] = Messages[k]
    BY <1>2 DEF Kinds
  <2>3. Put(ms, next) /\ (next \in {"idle", "human"} => kind = "ai") /\ next # "agent"
    BY <2>1
  <2> HIDE DEF ms, next
  <2>4. next \in {"idle", "human"} => Answered(ms)
    BY <2>2, <2>3 DEF Answered
  <2>5. \A i \in 2..Len(ms) : ms[i].kind = "human" /\ ~(i <= Len(Messages)) =>
           i = Len(Messages) + 1 /\ ms[i - 1].kind = "ai"
    BY <1>1, <2>2
  <2>6. SInv' /\ Messages' = ms /\ puts < MaxPuts
    BY <2>2, <2>3, <2>4, <2>5, PutSInv
  <2>7. screen' = <<>> /\ kind \in Kinds /\ 1 \in Nat \ {0}
    BY <2>3 DEF Put, Kinds
  <2> QED
    BY <2>2, <2>6, <2>7
<1>7. CASE Tools
  <2> DEFINE results == [k \in 1..Fan |-> New("tool")]
             ms == Messages \o results
  <2>1. Put(ms, "model") /\ results = Many(New("tool"), Fan) /\ Fan \in Nat \ {0}
    BY <1>7, RewindAssumption DEF Tools, Many
  <2>2. results \in Seq(AnyMessage) /\ Len(results) = Fan
    BY ResultsType DEF IInv
  <2>3. \A k \in 1..Fan : results[k].kind = "tool"
    BY DEF New
  <2> HIDE DEF results
  <2>4. /\ ms \in Seq(AnyMessage) /\ Len(ms) = Len(Messages) + Fan /\ Begins(Messages, ms)
        /\ \A k \in 1..Fan : ms[Len(Messages) + k] = results[k]
    <3>1. ms \in Seq(AnyMessage) /\ Len(ms) = Len(Messages) + Len(results)
      BY <1>1, <2>2, ConcatProperties
    <3>2. Begins(Messages, ms)
      BY <1>1, <2>2, BeginsFollows
    <3>3. \A k \in 1..Fan : ms[Len(Messages) + k] = results[k]
      BY <1>1, <2>1, <2>2
    <3> QED
      BY <2>2, <3>1, <3>2, <3>3
  <2> HIDE DEF ms
  <2>5. \A i \in 2..Len(ms) : i <= Len(Messages) \/ ms[i].kind = "tool"
    <3> SUFFICES ASSUME NEW i \in 2..Len(ms), ~(i <= Len(Messages)) PROVE ms[i].kind = "tool"
      OBVIOUS
    <3>1. i - Len(Messages) \in 1..Fan /\ Len(Messages) + (i - Len(Messages)) = i
      BY <1>1, <2>1, <2>4
    <3>2. ms[Len(Messages) + (i - Len(Messages))] = results[i - Len(Messages)]
      BY <2>4, <3>1
    <3> QED
      BY <2>3, <3>1, <3>2
  <2>6. SInv' /\ Messages' = ms /\ puts < MaxPuts
    BY <2>1, <2>4, <2>5, PutSInv
  <2> QED
    BY <2>1, <2>6 DEF Put, Kinds, ms
<1> QED
  BY <1>3, <1>4, <1>5, <1>6, <1>7

\* The rows of the index, made on demand or not.
LEMMA LazyIs ==
  ASSUME IInv, SInv, Indexed
  PROVE  /\ DOMAIN LazyIndex = {id \in DOMAIN cps : cps[id].messages # <<>>}
         /\ \A id \in DOMAIN LazyIndex : LazyIndex[id] = Len(cps[id].messages)
<1>1. DOMAIN index = {id \in DOMAIN cps : cps[id].messages # <<>>}
  BY DEF SInv, Full
<1>2. CASE index # <<>>
  BY <1>1, <1>2, LazyIndexSound DEF LazyIndex
<1>3. CASE index = <<>>
  <2>1. History \subseteq DOMAIN cps
    BY DEF History
  <2>2. {id \in DOMAIN cps : cps[id].messages # <<>>} = {}
    BY <1>1, <1>3
  <2>3. {id \in History : cps[id].messages # <<>>} = {}
    BY <2>1, <2>2
  <2>4. DOMAIN LazyIndex = {}
    BY <1>3, <2>3 DEF LazyIndex, Counted
  <2> QED
    BY <2>2, <2>4
<1> QED
  BY <1>2, <1>3

LEMMA BrowseSInv ==
  ASSUME IInv, SInv, Browse
  PROVE  SInv' /\ Messages' = Messages
<1>1. UNCHANGED <<cps, saver, turn>> /\ Indexed /\ index' = LazyIndex
  BY DEF Browse
<1>2. DOMAIN index' = {id \in DOMAIN cps : cps[id].messages # <<>>}
  BY <1>1, LazyIs
<1>3. Messages' = Messages
  BY <1>1 DEF Messages, IsLatest
<1> QED
  BY <1>1, <1>2, <1>3 DEF SInv, Chain, Line, Full, Asked, Places, Indexed

\* A compression keeps nothing but its summary.
LEMMA CompressSInv ==
  ASSUME IInv, SInv, Undisturbed, Compress
  PROVE  SInv' /\ screen' = <<>> /\ puts < MaxPuts /\ Messages' = <<New("ai")>>
<1> DEFINE new == puts + 1
           ms == <<New("ai")>>
<1>1. Messages \in Seq(AnyMessage) /\ Len(Messages) \in Nat /\ Len(Messages) # 0
      /\ turn = "idle" /\ puts < MaxPuts /\ screen' = <<>>
  <2>1. Messages \in Seq(AnyMessage) /\ Messages # <<>>
    BY MessagesType DEF IInv, Compress
  <2>2. Len(Messages) \in Nat /\ Len(Messages) # 0
    BY <2>1, LenProperties, EmptySeq
  <2> QED
    BY <2>1, <2>2 DEF Compress
<1>2. SubSeq(Messages, Len(Messages) + 1, Len(Messages)) = <<>>
  BY <1>1
<1>3. ms \o <<>> = ms
  OBVIOUS
<1>4. (IF Len(Messages) > Keep THEN Len(Messages) - Keep ELSE 0) = Len(Messages)
  BY <1>1 DEF Undisturbed
<1>5. /\ puts' = new /\ saver' = saver /\ turn' = "idle"
      /\ cps' = With(<<>>, new, [messages |-> ms, parent |-> 0])
      /\ Indexed => index' = With(<<>>, new, Len(ms))
  BY <1>1, <1>2, <1>3, <1>4 DEF Compress, Undisturbed
<1>6. /\ DOMAIN cps' = {new} /\ cps'[new].messages = ms /\ cps'[new].parent = 0
      /\ Indexed => DOMAIN index' = {new}
  <2> DEFINE cp == [messages |-> ms, parent |-> 0]
  <2>1. cp.messages = ms /\ cp.parent = 0
    OBVIOUS
  <2>2. cps' = With(<<>>, new, cp) /\ (Indexed => index' = With(<<>>, new, Len(ms)))
    BY <1>5
  <2> HIDE DEF new, ms, cp
  <2>3. /\ With(<<>>, new, cp) = [x \in {new} |-> cp]
        /\ With(<<>>, new, Len(ms)) = [x \in {new} |-> Len(ms)]
    BY Singleton
  <2> QED
    BY <2>1, <2>2, <2>3
<1>7. new \in Nat /\ new # 0 /\ new <= new /\ ~(new < new)
  BY DEF IInv, Shapes
<1>8. Messages' = ms
  <2>1. \A other \in DOMAIN cps' : other <= new
    BY <1>6, <1>7
  <2> HIDE DEF new
  <2>2. (CHOOSE id \in DOMAIN cps' : \A other \in DOMAIN cps' : other <= id) = new
    BY <1>6, <1>7, <2>1, LatestIs
  <2>3. cps' # <<>>
    BY <1>6, SomeArguments
  <2> QED
    BY <1>6, <2>2, <2>3 DEF Messages, IsLatest
<1>9. Len(ms) = 1 /\ ms[1].kind = "ai" /\ ms # <<>> /\ Begins(ms, ms)
  BY DEF New, Begins
<1> HIDE DEF ms, new
<1>10. Chain'
  BY <1>6, <1>7 DEF Chain
<1>11. Line'
  BY <1>6, <1>9 DEF Line
<1>12. Full'
  BY <1>5, <1>6, <1>9 DEF Full, Indexed
<1>13. Asked' /\ Places'
  BY <1>5, <1>8, <1>9 DEF Asked, Places, Answered
<1> QED
  BY <1>1, <1>8, <1>10, <1>11, <1>12, <1>13 DEF SInv, ms

\* The target of a replay is the latest checkpoint with as many messages, if any has.
LEMMA TargetIs ==
  ASSUME IInv, SInv, NEW n
  PROVE  LET t == Target(n)
             D == {id \in DOMAIN cps : Indexed => cps[id].messages # <<>>} IN
         /\ t \in {0} \cup D
         /\ t = 0 => \A id \in D : Len(cps[id].messages) # n
         /\ t # 0 => /\ Len(cps[t].messages) = n
                     /\ \A id \in D : Len(cps[id].messages) = n => id <= t
<1> DEFINE D == {id \in DOMAIN cps : Indexed => cps[id].messages # <<>>}
           found == {id \in DOMAIN Counts : Counts[id] = n}
           t == Target(n)
<1>1. /\ DOMAIN Counts = D
      /\ \A id \in D : Counts[id] = Len(cps[id].messages)
  <2>1. CASE Indexed
    BY <2>1, LazyIs DEF Counts
  <2>2. CASE ~Indexed
    <3>1. History = DOMAIN cps
      BY HistoryIsAll DEF IInv, SInv
    <3> QED
      BY <2>2, <3>1 DEF Counts, Counted
  <2> QED
    BY <2>1, <2>2
<1>2. DOMAIN cps \subseteq 1..puts /\ puts \in Nat /\ D \subseteq DOMAIN cps
  BY DEF IInv, Shapes
<1> HIDE DEF D
<1>3. found = {id \in D : Len(cps[id].messages) = n}
  BY <1>1
<1>4. t = IF found = {} THEN 0 ELSE CHOOSE id \in found : \A other \in found : other <= id
  BY DEF Target
<1>5. CASE found = {}
  BY <1>3, <1>4, <1>5 DEF D
<1>6. CASE found # {}
  <2>1. \E id \in found : \A other \in found : other <= id
    BY <1>2, <1>3, <1>6, Greatest
  <2> HIDE DEF found, t
  <2>2. t \in found /\ \A other \in found : other <= t
    BY <1>4, <1>6, <2>1
  <2>3. t \in D /\ t # 0 /\ Len(cps[t].messages) = n
    BY <1>2, <1>3, <2>2
  <2>4. \A id \in D : Len(cps[id].messages) = n => id <= t
    BY <1>3, <2>2
  <2> QED
    BY <2>3, <2>4 DEF t, D
<1> QED
  BY <1>5, <1>6

\* Deleting what has more messages than the target is deleting what comes after it.
LEMMA ReplayKeeps ==
  ASSUME IInv, SInv, NEW i \in DOMAIN Messages, Replay(i)
  PROVE  LET t == Target(i - 1) IN
         /\ t \in Nat /\ KeptUpTo(t)
         /\ t = 0 => i = 1
         /\ t # 0 => t \in DOMAIN cps /\ Len(cps[t].messages) = i - 1
<1> DEFINE t == Target(i - 1)
           D == {id \in DOMAIN cps : Indexed => cps[id].messages # <<>>}
<1>1. /\ t \in {0} \cup D
      /\ t = 0 => \A id \in D : Len(cps[id].messages) # i - 1
      /\ t # 0 => /\ Len(cps[t].messages) = i - 1
                  /\ \A id \in D : Len(cps[id].messages) = i - 1 => id <= t
  BY TargetIs
<1>2. cps' = Without(cps, After(t)) /\ Messages[i].kind = "human"
  BY DEF Replay
<1> HIDE DEF t
<1>3. /\ DOMAIN cps' = DOMAIN cps \ After(t)
      /\ \A id \in DOMAIN cps' : cps'[id] = cps[id]
  BY <1>2 DEF Without
<1>4. /\ DOMAIN cps \subseteq 1..puts /\ puts \in Nat /\ t \in Nat
      /\ \A id \in DOMAIN cps : /\ cps[id].messages \in Seq(AnyMessage)
                                /\ Len(cps[id].messages) \in Nat
  <2>1. /\ DOMAIN cps \subseteq 1..puts /\ puts \in Nat
        /\ \A id \in DOMAIN cps : cps[id].messages \in Seq(AnyMessage)
    BY DEF IInv, Shapes, Checkpoint
  <2> QED
    BY <1>1, <2>1, LenProperties
<1>5. i \in 1..Len(Messages) /\ Len(Messages) \in Nat /\ i - 1 \in Nat /\ i \in Nat
  BY MessagesType, LenProperties DEF IInv
<1>6. ASSUME i # 1 PROVE t # 0
  <2>1. i \in 2..Len(Messages)
    BY <1>5, <1>6
  <2>2. PICK id \in DOMAIN cps : Len(cps[id].messages) = i - 1
    BY <1>2, <2>1 DEF SInv, Places
  <2>3. cps[id].messages # <<>>
    BY <1>5, <1>6, <2>2
  <2> QED
    BY <1>1, <2>2, <2>3
<1>7. DOMAIN cps' = {id \in DOMAIN cps : id <= t}
  <2>1. CASE t = 0
    <3>1. After(t) = DOMAIN cps
      BY <2>1 DEF After
    <3> QED
      BY <1>3, <1>4, <2>1, <3>1
  <2>2. CASE t # 0 /\ ~Indexed
    <3>1. History = DOMAIN cps
      BY HistoryIsAll DEF IInv, SInv
    <3>2. After(t) = {id \in DOMAIN cps : id > t}
      BY <1>1, <2>2, <3>1 DEF After
    <3>3. \A id \in DOMAIN cps : ~(id > t) <=> id <= t
      BY <1>4
    <3> QED
      BY <1>3, <3>2, <3>3
  <2>3. CASE t # 0 /\ Indexed
    <3>1. /\ DOMAIN LazyIndex = D
          /\ \A id \in D : LazyIndex[id] = Len(cps[id].messages)
      BY <2>3, LazyIs
    <3>2. t \in D
      BY <1>1, <2>3
    <3>3. After(t) = {id \in D : Len(cps[id].messages) > i - 1}
      BY <1>1, <2>3, <3>1, <3>2 DEF After
    <3>4. ASSUME NEW id \in DOMAIN cps
          PROVE  id \in After(t) <=> ~(id <= t)
      <4>1. Len(cps[id].messages) \in Nat /\ Len(cps[t].messages) = i - 1
        BY <1>1, <1>4, <2>3
      <4>2. CASE id <= t
        <5>1. Len(cps[id].messages) <= i - 1
          BY <3>2, <4>1, <4>2 DEF SInv, Line, Begins
        <5> QED
          BY <1>5, <3>3, <4>1, <4>2, <5>1
      <4>3. CASE ~(id <= t)
        <5>1. t <= id
          BY <1>4, <4>3
        <5>2. i - 1 <= Len(cps[id].messages)
          BY <3>2, <4>1, <5>1 DEF SInv, Line, Begins
        <5>3. cps[t].messages # <<>>
          BY <2>3, <3>2
        <5>4. i - 1 # 0
          BY <1>4, <3>2, <4>1, <5>3, EmptySeq
        <5>5. cps[id].messages # <<>>
          BY <1>5, <4>1, <5>2, <5>4
        <5>6. Len(cps[id].messages) # i - 1
          BY <1>1, <2>3, <4>3, <5>5
        <5> QED
          BY <1>5, <3>3, <4>1, <4>3, <5>2, <5>5, <5>6
      <4> QED
        BY <4>2, <4>3
    <3> QED
      BY <1>3, <3>4
  <2> QED
    BY <2>1, <2>2, <2>3
<1>8. t # 0 => t \in DOMAIN cps
  BY <1>1
<1> QED
  BY <1>1, <1>3, <1>4, <1>6, <1>7, <1>8 DEF KeptUpTo, t

LEMMA ReplaySInv ==
  ASSUME IInv, SInv, NEW i \in DOMAIN Messages, Replay(i)
  PROVE  SInv' /\ Messages' = SubSeq(Messages, 1, i - 1)
<1> DEFINE t == Target(i - 1)
           ms == SubSeq(Messages, 1, i - 1)
<1>1. /\ t \in Nat /\ KeptUpTo(t)
      /\ t = 0 => i = 1
      /\ t # 0 => t \in DOMAIN cps /\ Len(cps[t].messages) = i - 1
  BY ReplayKeeps
<1>2. /\ turn = "idle" /\ turn' = "idle" /\ saver' = saver /\ Messages[i].kind = "human"
      /\ Indexed => index' = Without(LazyIndex, After(t))
      /\ cps' = Without(cps, After(t))
  BY DEF Replay
<1>3. /\ Messages \in Seq(AnyMessage) /\ Len(Messages) \in Nat
      /\ i \in 1..Len(Messages) /\ i - 1 \in 0..Len(Messages) /\ i \in Nat
  BY MessagesType, LenProperties DEF IInv
<1>4. /\ Len(ms) = i - 1 /\ ms \in Seq(AnyMessage)
      /\ \A k \in 1..(i - 1) : ms[k] = Messages[k]
  BY <1>3
<1> HIDE DEF t, ms
<1>5. /\ DOMAIN cps' = {id \in DOMAIN cps : id <= t}
      /\ \A id \in DOMAIN cps' : cps'[id] = cps[id]
      /\ DOMAIN cps \subseteq 1..puts /\ puts \in Nat
      /\ \A id \in DOMAIN cps : cps[id].messages \in Seq(AnyMessage)
  BY <1>1 DEF KeptUpTo, IInv, Shapes, Checkpoint
<1>6. Messages' = ms
  <2>1. CASE t = 0
    <3>1. DOMAIN cps' = {}
      BY <1>5, <2>1
    <3>2. cps' = <<>>
      <4>1. cps' \in [DOMAIN cps' -> {}]
        BY <1>2, <3>1 DEF Without
      <4> QED
        BY <3>1, <4>1, NoArguments
    <3>3. ms = <<>>
      BY <1>1, <1>4, <2>1, EmptySeq
    <3> QED
      BY <3>2, <3>3 DEF Messages
  <2>2. CASE t # 0
    <3>1. t \in DOMAIN cps' /\ DOMAIN cps' \subseteq Nat /\ \A other \in DOMAIN cps' : other <= t
      BY <1>1, <1>5, <2>2
    <3>2. (CHOOSE id \in DOMAIN cps' : \A other \in DOMAIN cps' : other <= id) = t
      BY <3>1, LatestIs
    <3>3. cps' # <<>>
      BY <3>1, SomeArguments
    <3>4. Messages' = cps[t].messages
      BY <1>5, <3>1, <3>2, <3>3 DEF Messages, IsLatest
    <3>5. Begins(cps[t].messages, Messages)
      <4>1. cps # <<>>
        BY <1>1, <2>2, SomeArguments
      <4>2. PICK top \in DOMAIN cps : Messages = cps[top].messages /\ IsLatest(top)
        BY <4>1, Latest DEF IInv
      <4> QED
        BY <1>1, <2>2, <4>2 DEF SInv, Line, IsLatest
    <3>6. cps[t].messages \in Seq(AnyMessage) /\ Len(cps[t].messages) = i - 1
      BY <1>1, <1>5, <2>2
    <3>7. cps[t].messages = ms
      <4>1. \A k \in 1..(i - 1) : cps[t].messages[k] = ms[k]
        BY <1>4, <3>5, <3>6 DEF Begins
      <4> QED
        BY <1>4, <3>6, <4>1, SeqEqual
    <3> QED
      BY <3>4, <3>7
  <2> QED
    BY <2>1, <2>2
<1>7. Chain'
  BY <1>1, KeptChain DEF IInv, SInv
<1>8. Line'
  BY <1>5 DEF SInv, Line
<1>9. Full'
  <2> SUFFICES ASSUME Indexed
               PROVE  DOMAIN index' = {id \in DOMAIN cps' : cps'[id].messages # <<>>}
    BY <1>2 DEF Full, Indexed
  <2>1. DOMAIN index' = DOMAIN LazyIndex \ After(t) /\ DOMAIN cps' = DOMAIN cps \ After(t)
    BY <1>2 DEF Without
  <2> QED
    BY <1>5, <2>1, LazyIs
<1>10. \A j \in 2..Len(ms) : ms[j] = Messages[j] /\ ms[j - 1] = Messages[j - 1]
                            /\ j \in 2..Len(Messages) /\ j - 1 \in Nat /\ j - 1 < i - 1
  BY <1>3, <1>4
<1>11. Asked'
  <2>1. Answered(ms)
    <3>1. CASE i = 1
      BY <1>4, <3>1, EmptySeq DEF Answered
    <3>2. CASE i # 1
      <4>1. i \in 2..Len(Messages) /\ Len(ms) \in 1..(i - 1)
        BY <1>3, <1>4, <3>2
      <4> QED
        BY <1>2, <1>4, <4>1 DEF SInv, Places, Answered
    <3> QED
      BY <3>1, <3>2
  <2> QED
    BY <1>2, <1>6, <2>1 DEF Asked
<1>12. Places'
  <2> SUFFICES ASSUME NEW j \in 2..Len(ms), ms[j].kind = "human"
               PROVE  /\ ms[j - 1].kind = "ai"
                      /\ \E id \in DOMAIN cps' : Len(cps'[id].messages) = j - 1
    BY <1>6 DEF Places
  <2>1. PICK id \in DOMAIN cps : Len(cps[id].messages) = j - 1 /\ Messages[j - 1].kind = "ai"
    BY <1>10 DEF SInv, Places
  <2>2. id <= t
    <3> SUFFICES ASSUME ~(id <= t) PROVE FALSE
      OBVIOUS
    <3>1. t # 0 /\ t \in DOMAIN cps /\ Len(cps[t].messages) = i - 1
      <4>1. i # 1
        BY <1>3, <1>4
      <4> QED
        BY <1>1, <4>1
    <3>2. t <= id
      BY <1>1, <1>5
    <3>3. i - 1 <= j - 1
      BY <2>1, <3>1, <3>2 DEF SInv, Line, Begins
    <3> QED
      BY <1>3, <1>10, <3>3
  <2> QED
    BY <1>5, <1>10, <2>1, <2>2
<1> QED
  BY <1>6, <1>7, <1>8, <1>9, <1>11, <1>12 DEF SInv, ms

LEMMA InitSInv == Init => SInv
<1> SUFFICES ASSUME Init PROVE SInv
  OBVIOUS
<1>1. cps = <<>> /\ index = <<>> /\ DOMAIN cps = {} /\ DOMAIN index = {} /\ Messages = <<>>
  BY DEF Init, Messages
<1>2. turn = "idle"
  BY DEF Init
<1>3. Chain /\ Line /\ Full
  BY <1>1 DEF Chain, Line, Full
<1>4. Asked
  BY <1>1, <1>2 DEF Asked, Answered
<1>5. Places
  <2>1. Len(Messages) = 0
    BY <1>1, EmptySeq
  <2>2. 2..Len(Messages) = {}
    BY <2>1
  <2> QED
    BY <2>2 DEF Places
<1> QED
  BY <1>3, <1>4, <1>5 DEF SInv

\* What a step does to the conversation and the screen.
Goes ==
  \/ Messages' = Messages /\ screen' \in {<<>>, screen}
  \/ /\ puts < MaxPuts /\ screen' = <<>>
     /\ \E kind \in Kinds, n \in Nat \ {0} : Messages' = Messages \o Many(New(kind), n)
  \/ puts < MaxPuts /\ screen' = <<>> /\ Messages' = <<New("ai")>>
  \/ \E i \in DOMAIN Messages : /\ Messages[i].kind = "human"
                                /\ Messages' = SubSeq(Messages, 1, i - 1)
                                /\ screen' = <<SubSeq(Messages, 1, i - 1)>>

LEMMA NextSInv ==
  ASSUME Undisturbed
  PROVE  IInv /\ SInv /\ [Next]_vars => SInv' /\ Goes
<1> SUFFICES ASSUME IInv, SInv, [Next]_vars PROVE SInv' /\ Goes
  OBVIOUS
<1>1. CASE Send \/ Human \/ BeforeAgent \/ Model \/ Tools
  BY <1>1, TurnSInv DEF Goes
<1>2. CASE UNCHANGED vars
  <2>1. UNCHANGED <<saver, cps, index, turn, screen>>
    BY <1>2 DEF vars
  <2>2. Messages' = Messages
    BY <2>1 DEF Messages, IsLatest
  <2> QED
    BY <2>1, <2>2 DEF SInv, Chain, Line, Full, Asked, Places, Indexed, Goes
<1>3. CASE Cancel
  BY <1>3 DEF Cancel, Undisturbed
<1>4. CASE Browse
  BY <1>4, BrowseSInv DEF Browse, Goes
<1>5. CASE Compress
  BY <1>5, CompressSInv DEF Goes
<1>6. CASE \E i \in DOMAIN Messages : Replay(i)
  <2>1. PICK i \in DOMAIN Messages : Replay(i)
    BY <1>6
  <2>2. SInv' /\ Messages' = SubSeq(Messages, 1, i - 1)
    BY <2>1, ReplaySInv
  <2> QED
    BY <2>1, <2>2 DEF Replay, Goes
<1> QED
  BY <1>1, <1>2, <1>3, <1>4, <1>5, <1>6 DEF Next

\* What a replay leaves on the screen is what the model is shown next, when nothing
\* fails or is cancelled (replay.py's screen, delete_after's checkpoints).
THEOREM RewindsShowThread == ASSUME Undisturbed PROVE Spec => []RewindShowsThread
<1>1. Init => RewindShowsThread
  BY DEF Init, RewindShowsThread
<1>2. RewindShowsThread /\ Goes => RewindShowsThread'
  <2> SUFFICES ASSUME RewindShowsThread, Goes, screen' # <<>> PROVE Messages' = screen'[1]
    BY DEF RewindShowsThread
  <2>1. CASE Messages' = Messages /\ screen' \in {<<>>, screen}
    BY <2>1 DEF RewindShowsThread
  <2>2. CASE \E i \in DOMAIN Messages : /\ Messages' = SubSeq(Messages, 1, i - 1)
                                       /\ screen' = <<SubSeq(Messages, 1, i - 1)>>
    <3>1. PICK i \in DOMAIN Messages : /\ Messages' = SubSeq(Messages, 1, i - 1)
                                      /\ screen' = <<SubSeq(Messages, 1, i - 1)>>
      BY <2>2
    <3> DEFINE shown == SubSeq(Messages, 1, i - 1)
    <3>2. Messages' = shown /\ screen' = <<shown>>
      BY <3>1
    <3> HIDE DEF shown
    <3> QED
      BY <3>2
  <2> QED
    BY <2>1, <2>2 DEF Goes
<1>3. IInv /\ SInv /\ [Next]_vars => SInv' /\ Goes
  BY NextSInv
<1> QED
  BY <1>1, <1>2, <1>3, InitIInv, NextIInv, InitSInv, PTL DEF Spec

\* ... and the thread is a conversation: messages are added at its end, a rewind
\* takes it back to before a message of the user's, a compression sums it up.
THEOREM ThreadImplementsConversation == ASSUME Undisturbed PROVE Spec => ThreadIsConversation
<1> DEFINE Step == Thread!Say \/ Thread!Rewind \/ Thread!Compress
<1>1. Init => Thread!Init
  BY DEF Init, Messages, Thread!Init
<1>2. IInv /\ SInv /\ Goes => [Step]_Messages
  <2> SUFFICES ASSUME IInv, SInv, Goes PROVE [Step]_Messages
    OBVIOUS
  <2>1. Messages \in Seq(AnyMessage) /\ Len(Messages) \in Nat /\ puts \in Nat
    BY MessagesType, LenProperties DEF IInv, Shapes
  <2>2. ASSUME puts < MaxPuts, NEW kind \in Kinds PROVE New(kind) \in Message
    BY <2>1, <2>2, RewindAssumption DEF New, Message
  <2>3. CASE /\ puts < MaxPuts
             /\ \E kind \in Kinds, n \in Nat \ {0} : Messages' = Messages \o Many(New(kind), n)
    <3>1. PICK kind \in Kinds, n \in Nat \ {0} : Messages' = Messages \o Many(New(kind), n)
      BY <2>3
    <3> DEFINE m == New(kind)
    <3>2. m \in Message /\ m \in AnyMessage
      BY <2>2, <2>3, NewType DEF IInv
    <3> HIDE DEF m
    <3>3. Many(m, n) \in Seq(AnyMessage) /\ Len(Many(m, n)) = n
      BY <3>2 DEF Many
    <3>4. Len(Messages') = Len(Messages) + n
      BY <2>1, <3>1, <3>3, ConcatProperties DEF m
    <3>5. n \in 1..Len(Messages')
      BY <2>1, <3>4
    <3>6. Messages' = Messages \o [k \in 1..n |-> m]
      BY <3>1 DEF Many, m
    <3>7. Thread!Say
      BY <3>2, <3>5, <3>6 DEF Thread!Say
    <3> QED
      BY <3>7
  <2>4. CASE puts < MaxPuts /\ Messages' = <<New("ai")>>
    <3> DEFINE m == New("ai")
    <3>1. m \in Message
      BY <2>2, <2>4 DEF Kinds
    <3> HIDE DEF m
    <3>2. /\ Len(Messages) \in 0..Len(Messages)
          /\ SubSeq(Messages, Len(Messages) + 1, Len(Messages)) = <<>>
          /\ <<m>> \o <<>> = <<m>>
      BY <2>1
    <3>3. Thread!Compress
      BY <2>4, <3>1, <3>2 DEF Thread!Compress, m
    <3> QED
      BY <3>3
  <2>5. CASE \E i \in DOMAIN Messages : /\ Messages[i].kind = "human"
                                       /\ Messages' = SubSeq(Messages, 1, i - 1)
    BY <2>5 DEF Thread!Rewind
  <2> QED
    BY <2>3, <2>4, <2>5 DEF Goes
<1>3. IInv /\ SInv /\ [Next]_vars => SInv' /\ Goes
  BY NextSInv
<1> QED
  BY <1>1, <1>2, <1>3, InitIInv, NextIInv, InitSInv, PTL
     DEF Spec, ThreadIsConversation, Thread!Spec
=============================================================================
