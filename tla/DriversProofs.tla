--------------------------- MODULE DriversProofs ---------------------------
(***************************************************************************)
(* schedule() of dag is right for every task list: what it orders is       *)
(* executable, the least such order and holds every task, and a cycle is   *)
(* reported only when there is one.  Everything rests on IndegreeExact,    *)
(* that the counters are exactly the numbers of dependencies not yet       *)
(* ordered: an unordered task with a counter above zero then has an        *)
(* unordered dependency.                                                   *)
(***************************************************************************)
EXTENDS Drivers, FiniteSetTheorems, FunctionTheorems, SequenceTheorems,
        WellFoundedInduction, TLAPS

Fresh == pc = "created" => ordered = <<>> /\ error = ""
Valid == pc = "scheduling" => UniqueIds(tasks) /\ Closed(tasks) /\ error = ""

\* Of the tasks that could come at a position none is smaller than the one
\* that does.
Candidate(id, i) ==
  /\ \A j \in 1..(i - 1) : ordered[j] # id
  /\ \A d \in Dependencies(SpecOf(id)) : \E j \in 1..(i - 1) : ordered[j] = d

Greedy ==
  \A i \in DOMAIN ordered : \A id \in Ids(tasks) :
    Candidate(id, i) => ordered[i] <= id

IInv == TypeOK /\ IndegreeExact /\ Topological /\ VerdictRight /\ Fresh /\ Valid

-----------------------------------------------------------------------------
(* Numbers.                                                                *)

\* A set of numbers has a least one: what stands in for an induction.
LEMMA NatMin ==
  ASSUME NEW T, T \subseteq Nat, T # {}
  PROVE  \E x \in T : \A y \in T : x <= y
<1> DEFINE R == {ss \in Nat \X Nat : ss[1] < ss[2]}
<1>1. R = OpToRel(<, Nat)
  BY Zenon DEF OpToRel
<1>2. IsWellFoundedOn(R, Nat)
  BY <1>1, NatLessThanWellFounded, Zenon
<1>3. \A x, y \in Nat : x < y => <<x, y>> \in R
  OBVIOUS
<1> HIDE DEF R
<1>4. PICK x \in T : \A y \in T : ~(<<y, x>> \in R)
  BY <1>2, WFMin
<1>5. \A y \in T : ~(y < x)
  BY <1>3, <1>4
<1> QED
  BY <1>5

-----------------------------------------------------------------------------
(* Facts about the list.                                                   *)

LEMMA SpecType ==
  ASSUME tasks \in Seq(Task), NEW id \in Ids(tasks)
  PROVE  SpecOf(id) \in Task /\ SpecOf(id).id = id
<1>1. PICK i \in DOMAIN tasks : tasks[i].id = id
  BY DEF Ids
<1> DEFINE j == CHOOSE k \in DOMAIN tasks : tasks[k].id = id
<1>2. j \in DOMAIN tasks /\ tasks[j].id = id
  BY <1>1
<1>3. tasks[j] \in Task
  BY <1>2
<1> QED
  BY <1>2, <1>3 DEF SpecOf

LEMMA SpecListed ==
  ASSUME tasks \in Seq(Task), NEW id \in Ids(tasks)
  PROVE  \E i \in DOMAIN tasks : SpecOf(id) = tasks[i]
BY DEF Ids, SpecOf

LEMMA IntervalCard ==
  ASSUME NEW n \in Nat
  PROVE  IsFiniteSet(1..n) /\ Cardinality(1..n) = n
<1>1. /\ IsFiniteSet(1..n)
      /\ Cardinality(1..n) = IF 1 > n THEN 0 ELSE n - 1 + 1
  BY FS_Interval
<1> QED
  BY <1>1

\* The positions of a dependency list are finitely many.
LEMMA PositionsFinite ==
  ASSUME tasks \in Seq(Task), NEW id \in Ids(tasks)
  PROVE  /\ IsFiniteSet(DOMAIN SpecOf(id).dependsOn)
         /\ Cardinality(DOMAIN SpecOf(id).dependsOn) = Len(SpecOf(id).dependsOn)
<1> DEFINE s == SpecOf(id).dependsOn
<1>1. s \in Seq(Id)
  BY SpecType DEF Task
<1>2. DOMAIN s = 1..Len(s) /\ Len(s) \in Nat
  BY <1>1
<1> HIDE DEF s
<1>3. IsFiniteSet(1..Len(s)) /\ Cardinality(1..Len(s)) = Len(s)
  BY <1>2, IntervalCard
<1> QED
  BY <1>2, <1>3 DEF s

LEMMA PendingFinite ==
  ASSUME tasks \in Seq(Task), NEW id \in Ids(tasks)
  PROVE  IsFiniteSet(Pending(id)) /\ Cardinality(Pending(id)) \in Nat
<1>1. Pending(id) \subseteq DOMAIN SpecOf(id).dependsOn
  BY DEF Pending
<1>2. IsFiniteSet(DOMAIN SpecOf(id).dependsOn)
  BY PositionsFinite
<1>3. IsFiniteSet(Pending(id))
  BY <1>1, <1>2, FS_Subset
<1> QED
  BY <1>3, FS_CardinalityType

\* A sequence without repetitions has as many elements as it is long.
LEMMA DistinctLength ==
  ASSUME NEW n \in Nat, NEW f, DOMAIN f = 1..n,
         \A i, j \in 1..n : f[i] = f[j] => i = j,
         NEW R, R = {f[i] : i \in 1..n}
  PROVE  IsFiniteSet(R) /\ Cardinality(R) = n
<1> DEFINE g == [i \in 1..n |-> f[i]]
<1>1. g \in Bijection(1..n, R)
  BY DEF Bijection, Injection, Surjection, IsInjective
<1>2. ExistsBijection(1..n, R)
  BY <1>1 DEF ExistsBijection
<1>3. Cardinality(R) = n
  BY <1>2, FS_CountingElements
<1> QED
  BY <1>2, <1>3, FS_NatBijection

\* A full order names every task, a shorter one leaves some out.
LEMMA OrderLength ==
  ASSUME TypeOK, Topological, UniqueIds(tasks)
  PROVE  Len(ordered) = Len(tasks) <=> Ordered = Ids(tasks)
<1>1. /\ tasks \in Seq(Task) /\ DOMAIN tasks = 1..Len(tasks) /\ Len(tasks) \in Nat
      /\ ordered \in Seq(Ids(tasks)) /\ DOMAIN ordered = 1..Len(ordered)
      /\ Len(ordered) \in Nat
  BY DEF TypeOK
<1>a. /\ \A i, j \in 1..Len(ordered) : ordered[i] = ordered[j] => i = j
      /\ Ordered = {ordered[i] : i \in 1..Len(ordered)}
  BY <1>1 DEF Topological, Ordered
<1>2. IsFiniteSet(Ordered) /\ Cardinality(Ordered) = Len(ordered)
  BY <1>1, <1>a, DistinctLength
<1> DEFINE name == [i \in 1..Len(tasks) |-> tasks[i].id]
<1>3. /\ DOMAIN name = 1..Len(tasks)
      /\ \A i, j \in 1..Len(tasks) : name[i] = name[j] => i = j
      /\ Ids(tasks) = {name[i] : i \in 1..Len(tasks)}
  BY <1>1 DEF UniqueIds, Ids
<1> HIDE DEF name
<1>4. IsFiniteSet(Ids(tasks)) /\ Cardinality(Ids(tasks)) = Len(tasks)
  <2>1. Len(tasks) \in Nat
    BY <1>1
  <2> QED
    BY <1>3, <2>1, DistinctLength
<1>5. Ordered \subseteq Ids(tasks)
  BY <1>1 DEF Ordered
<1>6. Cardinality(Ids(tasks)) = Cardinality(Ordered) => Ids(tasks) = Ordered
  BY <1>4, <1>5, FS_Subset
<1> QED
  BY <1>2, <1>4, <1>6

-----------------------------------------------------------------------------
(* The steps.                                                              *)

\* With nothing ordered the properties of the order say nothing.
LEMMA EmptyOrder ==
  ASSUME ordered' = <<>>
  PROVE  Topological' /\ Ordered' = {} /\ ordered' \in Seq(Ids(tasks)')
<1>1. DOMAIN ordered' = {}
  OBVIOUS
<1>2. Topological' /\ Ordered' = {}
  BY <1>1 DEF Topological, Ordered
<1> QED
  BY <1>2

\* The list does not change while it is ordered.
LEMMA SpecKept ==
  ASSUME tasks' = tasks
  PROVE  /\ Ids(tasks)' = Ids(tasks)
         /\ \A id : SpecOf(id)' = SpecOf(id)
BY DEF SpecOf

LEMMA InitEstablishes == Init => IInv
<1> SUFFICES ASSUME Init PROVE IInv
  OBVIOUS
<1>1. ordered = <<>> /\ pc = "created" /\ error = "" /\ tasks = <<>>
  BY DEF Init
<1>2. <<>> \in Seq(Task)
  OBVIOUS
<1>3. DOMAIN <<>> = {} /\ \A S : <<>> \in Seq(S)
  OBVIOUS
<1>4. DOMAIN ordered = {} /\ ordered \in Seq(Ids(tasks))
  BY <1>1, <1>3
<1>5. Topological
  BY <1>4 DEF Topological
<1> QED
  BY <1>1, <1>2, <1>4, <1>5 DEF IInv, TypeOK, IndegreeExact, VerdictRight, Fresh, Valid

\* What is loaded is a list of tasks, cut off or not.
LEMMA PrefixType ==
  ASSUME NEW list \in TaskLists, NEW n \in 0..Len(list)
  PROVE  SubSeq(list, 1, n) \in Seq(Task)
<1>1. list \in Seq(Task) /\ Len(list) \in Nat
  BY ListAssumption
<1>2. \A i \in 1..n : i \in DOMAIN list
  BY <1>1
<1> QED
  BY <1>1, <1>2, SubSeqProperties

LEMMA LoadKeeps ==
  ASSUME IInv, Load PROVE IInv'
<1>1. tasks' \in Seq(Task)
  BY PrefixType DEF Load
<1>2. ordered' = <<>> /\ pc' = "idle" /\ error' = ""
  BY DEF Load, IInv, Fresh
<1>3. Topological' /\ ordered' \in Seq(Ids(tasks)')
  BY <1>2, EmptyOrder
<1> QED
  BY <1>1, <1>2, <1>3 DEF IInv, TypeOK, IndegreeExact, VerdictRight, Fresh, Valid

LEMMA RejectKeeps ==
  ASSUME IInv, Reject PROVE IInv'
<1>1. /\ tasks' = tasks /\ ordered' = <<>> /\ pc' = "idle"
      /\ error' # "dag_cycle_detected"
  BY DEF Reject
<1>2. tasks' \in Seq(Task)
  BY <1>1 DEF IInv, TypeOK
<1>3. Topological' /\ ordered' \in Seq(Ids(tasks)')
  BY <1>1, EmptyOrder
<1> QED
  BY <1>1, <1>2, <1>3 DEF IInv, TypeOK, IndegreeExact, VerdictRight, Fresh, Valid

LEMMA StartKeeps ==
  ASSUME IInv, Start PROVE IInv'
<1>1. /\ tasks' = tasks /\ ordered' = <<>> /\ pc' = "scheduling" /\ error' = ""
      /\ UniqueIds(tasks) /\ Closed(tasks)
      /\ indegree' = [id \in Ids(tasks) |-> Len(SpecOf(id).dependsOn)]
      /\ ready' = {id \in Ids(tasks) : indegree'[id] = 0}
  BY DEF Start
<1>2. tasks \in Seq(Task)
  BY DEF IInv, TypeOK
<1>3. Topological' /\ Ordered' = {} /\ ordered' \in Seq(Ids(tasks)')
  BY <1>1, EmptyOrder
<1>4. \A id \in Ids(tasks) : Len(SpecOf(id).dependsOn) \in Nat
  BY <1>2, SpecType DEF Task
<1>5. TypeOK'
  BY <1>1, <1>2, <1>3, <1>4 DEF TypeOK
<1>6. ASSUME NEW id \in Ids(tasks)
      PROVE  Pending(id)' = DOMAIN SpecOf(id).dependsOn
  <2>1. SpecOf(id)' = SpecOf(id)
    BY <1>1, SpecKept
  <2> QED
    BY <1>3, <2>1 DEF Pending
<1>7. ASSUME NEW id \in Ids(tasks)
      PROVE  indegree'[id] = Cardinality(Pending(id)')
  <2>1. Cardinality(DOMAIN SpecOf(id).dependsOn) = Len(SpecOf(id).dependsOn)
    BY <1>2, PositionsFinite
  <2> QED
    BY <1>1, <1>6, <2>1
<1>8. Ids(tasks)' = Ids(tasks)
  BY <1>1
<1>9. IndegreeExact'
  BY <1>1, <1>3, <1>7, <1>8 DEF IndegreeExact
<1> QED
  BY <1>1, <1>3, <1>5, <1>9 DEF IInv, VerdictRight, Fresh, Valid

\* One round of the loop: the smallest ready id is ordered, its entries
\* disappear from what the others wait for.
LEMMA PopFacts ==
  ASSUME IInv, Pop
  PROVE  \E id \in ready :
           /\ tasks' = tasks /\ pc' = "scheduling" /\ error' = ""
           /\ ordered' = Append(ordered, id)
           /\ indegree' = [d \in Ids(tasks) |->
                              indegree[d] - Cardinality(Edges(d, id))]
           /\ ready' = (ready \ {id}) \cup
                         {d \in Ids(tasks) : Edges(d, id) # {} /\ indegree'[d] = 0}
           /\ id \in Ids(tasks) /\ id \notin Ordered /\ Pending(id) = {}
           /\ \A other \in ready : id <= other
<1>1. pc = "scheduling" /\ tasks' = tasks /\ pc' = "scheduling" /\ error' = error
  BY DEF Pop
<1>2. DOMAIN indegree = Ids(tasks) /\ error = "" /\ tasks \in Seq(Task)
  BY <1>1 DEF IInv, TypeOK, Valid
<1>3. PICK id \in ready :
        /\ ordered' = Append(ordered, id)
        /\ indegree' = [d \in Ids(tasks) |->
                          indegree[d] - Cardinality(Edges(d, id))]
        /\ ready' = (ready \ {id}) \cup
                      {d \in Ids(tasks) : Edges(d, id) # {} /\ indegree'[d] = 0}
        /\ \A other \in ready : id <= other
  BY <1>2 DEF Pop
<1>4. /\ id \in Ids(tasks) /\ id \notin Ordered
      /\ Cardinality(Pending(id)) = 0
  BY <1>1 DEF IInv, IndegreeExact
<1>5. Pending(id) = {}
  BY <1>2, <1>4, PendingFinite, FS_EmptySet
<1> QED
  BY <1>1, <1>2, <1>3, <1>4, <1>5

LEMMA AppendOrdered ==
  ASSUME TypeOK, NEW id \in Ids(tasks), ordered' = Append(ordered, id), tasks' = tasks
  PROVE  /\ Len(ordered) \in Nat /\ DOMAIN ordered = 1..Len(ordered)
         /\ DOMAIN ordered' = 1..(Len(ordered) + 1)
         /\ ordered'[Len(ordered) + 1] = id
         /\ \A i \in DOMAIN ordered : ordered'[i] = ordered[i]
         /\ ordered' \in Seq(Ids(tasks)')
         /\ Ordered' = Ordered \cup {id}
<1>1. ordered \in Seq(Ids(tasks))
  BY DEF TypeOK
<1>2. /\ Len(ordered) \in Nat /\ DOMAIN ordered = 1..Len(ordered)
      /\ DOMAIN ordered' = 1..(Len(ordered) + 1)
      /\ ordered'[Len(ordered) + 1] = id
      /\ \A i \in DOMAIN ordered : ordered'[i] = ordered[i]
      /\ ordered' \in Seq(Ids(tasks))
  BY <1>1
<1>3. Ordered' = Ordered \cup {id}
  BY <1>2 DEF Ordered
<1> QED
  BY <1>2, <1>3

\* The next one has everything it depends on before it.
LEMMA PopTopological ==
  ASSUME IInv, Pop PROVE Topological'
<1>1. PICK id \in ready :
        /\ tasks' = tasks /\ ordered' = Append(ordered, id)
        /\ id \in Ids(tasks) /\ id \notin Ordered /\ Pending(id) = {}
  BY PopFacts
<1> DEFINE n == Len(ordered) + 1
<1>2. /\ Len(ordered) \in Nat /\ DOMAIN ordered = 1..Len(ordered)
      /\ DOMAIN ordered' = 1..n /\ ordered'[n] = id
      /\ \A i \in DOMAIN ordered : ordered'[i] = ordered[i]
  BY <1>1, AppendOrdered DEF IInv
<1>3. ASSUME NEW i \in DOMAIN ordered', NEW j \in DOMAIN ordered',
             ordered'[i] = ordered'[j]
      PROVE  i = j
  BY <1>1, <1>2, <1>3 DEF IInv, Topological, Ordered
<1>4. \A x : SpecOf(x)' = SpecOf(x)
  BY <1>1, SpecKept
<1>5. ASSUME NEW i \in DOMAIN ordered', NEW d \in Dependencies(SpecOf(ordered'[i]))
      PROVE  \E j \in 1..(i - 1) : ordered'[j] = d
  <2>1. CASE i = n
    <3>1. d \in Ordered
      BY <1>1, <1>2, <1>5, <2>1 DEF Pending, Dependencies
    <3>2. PICK j \in DOMAIN ordered : ordered[j] = d
      BY <3>1 DEF Ordered
    <3> QED
      BY <1>2, <2>1, <3>2
  <2>2. CASE i # n
    <3>1. i \in DOMAIN ordered /\ ordered'[i] = ordered[i]
      BY <1>2, <2>2
    <3>2. PICK j \in 1..(i - 1) : ordered[j] = d
      BY <1>5, <3>1 DEF IInv, Topological
    <3> QED
      BY <1>2, <3>1, <3>2
  <2> QED
    BY <2>1, <2>2
<1> QED
  BY <1>3, <1>4, <1>5 DEF Topological

\* The counters go down by exactly what the ordered task stood for.
LEMMA PopExact ==
  ASSUME IInv, Pop, NEW id \in ready,
         tasks' = tasks, ordered' = Append(ordered, id),
         id \in Ids(tasks), id \notin Ordered, NEW d \in Ids(tasks)
  PROVE  /\ Cardinality(Edges(d, id)) \in Nat
         /\ indegree[d] - Cardinality(Edges(d, id)) = Cardinality(Pending(d)')
         /\ Cardinality(Pending(d)') \in Nat
         /\ Edges(d, id) = {} => Pending(d)' = Pending(d)
<1>1. tasks \in Seq(Task) /\ indegree[d] = Cardinality(Pending(d))
  BY DEF IInv, TypeOK, IndegreeExact, Pop
<1>2. Ordered' = Ordered \cup {id}
  BY AppendOrdered DEF IInv
<1>3. SpecOf(d)' = SpecOf(d)
  BY SpecKept
<1>4. Pending(d)' = Pending(d) \ Edges(d, id) /\ Edges(d, id) \subseteq Pending(d)
  BY <1>2, <1>3 DEF Pending, Edges
<1>5. IsFiniteSet(Pending(d)) /\ Cardinality(Pending(d)) \in Nat
  BY <1>1, PendingFinite
<1>6. IsFiniteSet(Edges(d, id)) /\ Cardinality(Edges(d, id)) \in Nat
  BY <1>4, <1>5, FS_Subset, FS_CardinalityType
<1> DEFINE P == Pending(d)
           E == Edges(d, id)
<1> HIDE DEF P, E
<1>7. /\ IsFiniteSet(P \ E)
      /\ Cardinality(P \ E) = Cardinality(P) - Cardinality(P \cap E)
  BY <1>5, FS_Difference DEF P
<1>8. P \cap E = E
  BY <1>4 DEF P, E
<1>9. Cardinality(P \ E) \in Nat
  BY <1>7, FS_CardinalityType
<1> QED
  BY <1>1, <1>4, <1>6, <1>7, <1>8, <1>9 DEF P, E

LEMMA PopKeeps ==
  ASSUME IInv, Pop PROVE IInv'
<1>1. PICK id \in ready :
        /\ tasks' = tasks /\ pc' = "scheduling" /\ error' = ""
        /\ ordered' = Append(ordered, id)
        /\ indegree' = [d \in Ids(tasks) |->
                           indegree[d] - Cardinality(Edges(d, id))]
        /\ ready' = (ready \ {id}) \cup
                      {d \in Ids(tasks) : Edges(d, id) # {} /\ indegree'[d] = 0}
        /\ id \in Ids(tasks) /\ id \notin Ordered /\ Pending(id) = {}
  BY PopFacts
<1>2. /\ tasks \in Seq(Task) /\ pc = "scheduling" /\ ready \subseteq Ids(tasks)
      /\ UniqueIds(tasks) /\ Closed(tasks)
      /\ \A d \in Ids(tasks) : indegree[d] = Cardinality(Pending(d))
      /\ ready = {d \in Ids(tasks) \ Ordered : indegree[d] = 0}
  BY DEF Pop, IInv, TypeOK, Valid, IndegreeExact
<1>3. Ordered' = Ordered \cup {id} /\ ordered' \in Seq(Ids(tasks)')
  BY <1>1, AppendOrdered DEF IInv
<1>4. Ids(tasks)' = Ids(tasks) /\ \A x : SpecOf(x)' = SpecOf(x)
  BY <1>1, SpecKept
<1>5. ASSUME NEW d \in Ids(tasks)
      PROVE  /\ indegree'[d] = Cardinality(Pending(d)') /\ indegree'[d] \in Nat
             /\ Edges(d, id) = {} => indegree'[d] = indegree[d]
  BY <1>1, <1>2, PopExact
<1>6. TypeOK'
  BY <1>1, <1>2, <1>3, <1>4, <1>5 DEF TypeOK
\* An ordered task, and the one just taken, waits for nothing any more.
<1>7. ASSUME NEW d \in Ids(tasks), Edges(d, id) # {}
      PROVE  d \notin Ordered /\ d # id
  <2>1. PICK k \in DOMAIN SpecOf(d).dependsOn : SpecOf(d).dependsOn[k] = id
    BY <1>7 DEF Edges
  <2>2. d # id
    BY <1>1, <2>1 DEF Pending
  <2>3. d \notin Ordered
    <3> SUFFICES ASSUME d \in Ordered PROVE FALSE
      OBVIOUS
    <3>1. PICK i \in DOMAIN ordered : ordered[i] = d
      BY DEF Ordered
    <3>2. id \in Dependencies(SpecOf(ordered[i]))
      BY <2>1, <3>1 DEF Dependencies
    <3>3. PICK j \in 1..(i - 1) : ordered[j] = id
      BY <3>1, <3>2 DEF IInv, Topological
    <3>4. DOMAIN ordered = 1..Len(ordered) /\ Len(ordered) \in Nat
      BY DEF IInv, TypeOK
    <3>5. i \in 1..Len(ordered) /\ j \in 1..(i - 1)
      BY <3>4
    <3>6. j \in DOMAIN ordered
      BY <3>4, <3>5
    <3>7. id \in Ordered
      BY <3>3, <3>6 DEF Ordered
    <3> QED
      BY <1>1, <3>7
  <2> QED
    BY <2>2, <2>3
<1>8. ready' = {d \in Ids(tasks) \ Ordered' : indegree'[d] = 0}
  <2>1. ASSUME NEW d \in Ids(tasks)
        PROVE  d \in ready' <=> d \notin Ordered' /\ indegree'[d] = 0
    <3>1. d \in ready' <=> \/ d \in ready /\ d # id
                           \/ Edges(d, id) # {} /\ indegree'[d] = 0
      BY <1>1
    <3>2. CASE Edges(d, id) = {}
      BY <1>2, <1>3, <1>5, <3>1, <3>2
    <3>3. CASE Edges(d, id) # {}
      <4>1. d \notin Ordered' /\ indegree[d] # 0
        <5>1. d \notin Ordered'
          BY <1>3, <1>7, <3>3
        <5>2. Edges(d, id) \subseteq Pending(d)
          BY <1>1 DEF Edges, Pending
        <5>3. IsFiniteSet(Pending(d)) /\ Pending(d) # {}
          BY <1>2, <3>3, <5>2, PendingFinite
        <5> QED
          BY <1>2, <5>1, <5>3, FS_EmptySet
      <4> QED
        BY <1>2, <3>1, <3>3, <4>1
    <3> QED
      BY <3>2, <3>3
  <2> QED
    BY <1>1, <1>2, <2>1
<1>9. IndegreeExact'
  BY <1>4, <1>5, <1>8 DEF IndegreeExact
<1>10. Topological'
  BY PopTopological
<1>11. UniqueIds(tasks)' /\ Closed(tasks)'
  BY <1>1, <1>2 DEF UniqueIds, Closed
<1> QED
  BY <1>1, <1>6, <1>9, <1>10, <1>11 DEF IInv, VerdictRight, Fresh, Valid

\* When nothing is ready the unordered tasks wait for one another.
LEMMA StuckIsCycle ==
  ASSUME IInv, pc = "scheduling", ready = {}, Ordered # Ids(tasks)
  PROVE  Deadlocked(Ids(tasks) \ Ordered)
<1>1. /\ tasks \in Seq(Task) /\ Closed(tasks)
      /\ \A d \in Ids(tasks) : indegree[d] = Cardinality(Pending(d))
      /\ \A d \in Ids(tasks) \ Ordered : indegree[d] # 0
  BY DEF IInv, TypeOK, Valid, IndegreeExact
<1>3. Ids(tasks) \ Ordered # {}
  <2>1. Ordered \subseteq Ids(tasks)
    BY DEF IInv, TypeOK, Ordered
  <2> QED
    BY <2>1
<1>2. ASSUME NEW d \in Ids(tasks) \ Ordered
      PROVE  Dependencies(SpecOf(d)) \cap (Ids(tasks) \ Ordered) # {}
  <2>1. Pending(d) # {}
    BY <1>1, FS_EmptySet
  <2>2. PICK k \in DOMAIN SpecOf(d).dependsOn : SpecOf(d).dependsOn[k] \notin Ordered
    BY <2>1 DEF Pending
  <2>3. SpecOf(d).dependsOn[k] \in Dependencies(SpecOf(d))
    BY DEF Dependencies
  <2>4. PICK i \in DOMAIN tasks : SpecOf(d) = tasks[i]
    BY <1>1, SpecListed
  <2>5. Dependencies(SpecOf(d)) \subseteq Ids(tasks)
    BY <1>1, <2>4 DEF Closed
  <2> QED
    BY <2>2, <2>3, <2>5
<1> QED
  BY <1>2, <1>3 DEF Deadlocked

LEMMA FinishKeeps ==
  ASSUME IInv, Finish PROVE IInv'
<1>1. /\ pc = "scheduling" /\ ready = {} /\ pc' = "idle" /\ tasks' = tasks
      /\ error = "" /\ UniqueIds(tasks) /\ tasks \in Seq(Task)
  BY DEF Finish, IInv, Valid, TypeOK
<1>2. Ids(tasks)' = Ids(tasks) /\ \A x : SpecOf(x)' = SpecOf(x)
  BY <1>1, SpecKept
<1>3. Len(ordered) = Len(tasks) <=> Ordered = Ids(tasks)
  BY <1>1, OrderLength DEF IInv
<1>4. CASE Len(ordered) = Len(tasks)
  <2>1. ordered' = ordered /\ error' = ""
    BY <1>1, <1>4 DEF Finish
  <2>2. TypeOK'
    BY <1>1, <2>1 DEF IInv, TypeOK
  <2>3. Topological'
    <3>1. Topological /\ ordered' = ordered
      BY <2>1 DEF IInv
    <3> QED
      BY <1>2, <3>1 DEF Topological
  <2>4. Ordered' = Ids(tasks)'
    BY <1>2, <1>3, <1>4, <2>1 DEF Ordered
  <2> QED
    BY <1>1, <2>1, <2>2, <2>3, <2>4
       DEF IInv, IndegreeExact, VerdictRight, Fresh, Valid
<1>5. CASE Len(ordered) # Len(tasks)
  <2>1. ordered' = <<>>
    BY <1>5 DEF Finish
  <2>2. Topological' /\ ordered' \in Seq(Ids(tasks)')
    BY <2>1, EmptyOrder
  <2>3. Deadlocked(Ids(tasks) \ Ordered)
    BY <1>1, <1>3, <1>5, StuckIsCycle
  <2>4. \E S \in SUBSET Ids(tasks) : Deadlocked(S)
    BY <2>3
  <2>5. \A S : Deadlocked(S)' <=> Deadlocked(S)
    BY <1>2 DEF Deadlocked
  <2>6. (\E S \in SUBSET Ids(tasks) : Deadlocked(S))'
    BY <1>2, <2>4, <2>5
  <2> QED
    BY <1>1, <2>1, <2>2, <2>6
       DEF IInv, TypeOK, IndegreeExact, VerdictRight, Fresh, Valid
<1> QED
  BY <1>4, <1>5

LEMMA StutterKeeps ==
  ASSUME IInv, UNCHANGED vars PROVE IInv'
<1>1. /\ pc' = pc /\ tasks' = tasks /\ indegree' = indegree /\ ready' = ready
      /\ ordered' = ordered /\ error' = error
  BY DEF vars
<1>2. Ids(tasks)' = Ids(tasks) /\ \A x : SpecOf(x)' = SpecOf(x)
  BY <1>1, SpecKept
<1>3. Ordered' = Ordered
  BY <1>1 DEF Ordered
<1>4. \A x : Pending(x)' = Pending(x)
  BY <1>2, <1>3 DEF Pending
<1>5. \A S : Deadlocked(S)' <=> Deadlocked(S)
  BY <1>2 DEF Deadlocked
<1>6. TypeOK' /\ Fresh' /\ Valid'
  BY <1>1 DEF IInv, TypeOK, Fresh, Valid, UniqueIds, Closed
<1>7. Topological' /\ IndegreeExact'
  BY <1>1, <1>2, <1>3, <1>4 DEF IInv, Topological, IndegreeExact
<1>8. VerdictRight'
  BY <1>1, <1>2, <1>3, <1>5 DEF IInv, VerdictRight
<1> QED
  BY <1>6, <1>7, <1>8 DEF IInv

THEOREM Inductive == Spec => []IInv
<1>1. Init => IInv
  BY InitEstablishes
<1>2. IInv /\ [Next]_vars => IInv'
  BY LoadKeeps, RejectKeeps, StartKeeps, PopKeeps, FinishKeeps, StutterKeeps
     DEF Next, Schedule
<1> QED
  BY <1>1, <1>2, PTL DEF Spec

\* The locals of schedule() keep their types; the counters, unsigned in the
\* code, never pass below zero.
THEOREM TypeCorrect == Spec => []TypeOK
<1>1. IInv => TypeOK
  BY DEF IInv
<1> QED
  BY <1>1, Inductive, PTL

\* The counters are exact for every graph, with repeated dependencies too.
THEOREM CountersExact == Spec => []IndegreeExact
<1>1. IInv => IndegreeExact
  BY DEF IInv
<1> QED
  BY <1>1, Inductive, PTL

\* What schedule() has ordered can be executed in that order.
THEOREM OrderExecutable == Spec => []Topological
<1>1. IInv => Topological
  BY DEF IInv
<1> QED
  BY <1>1, Inductive, PTL

\* An order that is handed out is complete; a cycle that is reported exists.
THEOREM VerdictCorrect == Spec => []VerdictRight
<1>1. IInv => VerdictRight
  BY DEF IInv
<1> QED
  BY <1>1, Inductive, PTL

-----------------------------------------------------------------------------
(* The least order.                                                        *)

LEMMA PopGreedy == ASSUME IInv, Greedy, Pop PROVE Greedy'
<1>1. PICK id \in ready :
        /\ tasks' = tasks /\ ordered' = Append(ordered, id)
        /\ id \in Ids(tasks) /\ \A other \in ready : id <= other
  BY PopFacts
<1> DEFINE n == Len(ordered) + 1
<1>2. /\ Len(ordered) \in Nat /\ DOMAIN ordered = 1..Len(ordered)
      /\ DOMAIN ordered' = 1..n /\ ordered'[n] = id
      /\ \A i \in DOMAIN ordered : ordered'[i] = ordered[i]
  BY <1>1, AppendOrdered DEF IInv
<1>3. Ids(tasks)' = Ids(tasks) /\ \A x : SpecOf(x)' = SpecOf(x)
  BY <1>1, SpecKept
<1>4. /\ pc = "scheduling" /\ tasks \in Seq(Task)
      /\ ready = {d \in Ids(tasks) \ Ordered : indegree[d] = 0}
      /\ \A d \in Ids(tasks) : indegree[d] = Cardinality(Pending(d))
  BY DEF Pop, IInv, TypeOK, IndegreeExact
<1>5. ASSUME NEW i \in DOMAIN ordered', NEW x \in Ids(tasks), Candidate(x, i)'
      PROVE  ordered'[i] <= x
  <2>1. /\ \A j \in 1..(i - 1) : j \in DOMAIN ordered /\ ordered'[j] = ordered[j]
        /\ i \in 1..n
    BY <1>2
  <2>2. Candidate(x, i)
    BY <1>3, <1>5, <2>1 DEF Candidate
  <2>3. CASE i \in DOMAIN ordered
    BY <1>2, <2>2, <2>3 DEF Greedy
  <2>4. CASE i \notin DOMAIN ordered
    <3>1. i = n
      BY <1>2, <2>1, <2>4
    <3>2. x \notin Ordered /\ Dependencies(SpecOf(x)) \subseteq Ordered
      <4>1. \A j : j \in 1..(i - 1) <=> j \in DOMAIN ordered
        BY <1>2, <3>1
      <4> QED
        BY <2>2, <4>1 DEF Candidate, Ordered
    <3>3. Pending(x) = {}
      BY <3>2 DEF Pending, Dependencies
    <3>4. x \in ready
      BY <1>4, <3>2, <3>3, FS_EmptySet
    <3> QED
      BY <1>1, <1>2, <3>1, <3>4
  <2> QED
    BY <2>3, <2>4
<1> QED
  BY <1>3, <1>5 DEF Greedy

LEMMA GreedyStep == ASSUME IInv, Greedy, [Next]_vars PROVE Greedy'
<1>1. ASSUME ordered' = <<>> PROVE Greedy'
  <2>1. DOMAIN ordered' = {}
    BY <1>1
  <2> QED
    BY <2>1 DEF Greedy
<1>2. ASSUME ordered' = ordered, tasks' = tasks PROVE Greedy'
  <2>1. Ids(tasks)' = Ids(tasks) /\ \A x : SpecOf(x)' = SpecOf(x)
    BY <1>2, SpecKept
  <2>2. \A x, i : Candidate(x, i)' <=> Candidate(x, i)
    BY <1>2, <2>1 DEF Candidate
  <2> QED
    BY <1>2, <2>1, <2>2 DEF Greedy
<1>3. CASE Load
  BY <1>1, <1>3 DEF Load, IInv, Fresh
<1>4. CASE Reject
  BY <1>1, <1>4 DEF Reject
<1>5. CASE Start
  BY <1>1, <1>5 DEF Start
<1>6. CASE Pop
  BY <1>6, PopGreedy
<1>7. CASE Finish
  BY <1>1, <1>2, <1>7 DEF Finish
<1>8. CASE UNCHANGED vars
  BY <1>2, <1>8 DEF vars
<1> QED
  BY <1>3, <1>4, <1>5, <1>6, <1>7, <1>8 DEF Next, Schedule

\* At the first position where another executable order differs it could have
\* taken the same task, and schedule() took the smallest.
LEMMA GreedyIsLeast == ASSUME TypeOK, Greedy PROVE LeastOrder
<1> SUFFICES ASSUME NEW s \in [DOMAIN ordered -> Ids(tasks)],
                    \A i, j \in DOMAIN s : s[i] = s[j] => i = j,
                    \A i \in DOMAIN s : \A d \in Dependencies(SpecOf(s[i])) :
                      \E j \in 1..(i - 1) : s[j] = d,
                    s # ordered
             PROVE  Before(ordered, s)
  BY DEF LeastOrder
<1> DEFINE T == {i \in DOMAIN ordered : s[i] # ordered[i]}
<1>1. /\ DOMAIN ordered = 1..Len(ordered) /\ Len(ordered) \in Nat
      /\ \A i \in DOMAIN ordered : ordered[i] \in Ids(tasks)
      /\ ordered \in [DOMAIN ordered -> Ids(tasks)]
  BY DEF TypeOK
<1>2. T \subseteq Nat /\ T # {}
  BY <1>1
<1>3. PICK i \in T : \A j \in T : i <= j
  <2> HIDE DEF T
  <2> QED
    BY <1>2, NatMin
<1>4. /\ i \in DOMAIN ordered /\ s[i] # ordered[i]
      /\ \A j \in 1..(i - 1) : j \in DOMAIN ordered /\ ordered[j] = s[j] /\ j # i
  BY <1>1, <1>3
<1>5. Candidate(s[i], i)
  BY <1>4 DEF Candidate
<1>6. ordered[i] <= s[i]
  BY <1>4, <1>5 DEF Greedy
<1>7. Ids(tasks) \subseteq Nat
  <2>1. \A k \in DOMAIN tasks : tasks[k] \in Task
    BY DEF TypeOK
  <2> QED
    BY <2>1, IdAssumption DEF Ids, Task
<1>8. ordered[i] < s[i]
  BY <1>1, <1>4, <1>6, <1>7
<1> QED
  BY <1>4, <1>8 DEF Before

\* The order schedule() hands out is the least executable one, so it does not
\* depend on the order of the list.
THEOREM OrderIsLeast == Spec => []LeastOrder
<1>1. Init => Greedy
  <2> SUFFICES ASSUME Init PROVE Greedy
    OBVIOUS
  <2>1. ordered = <<>>
    BY DEF Init
  <2>2. DOMAIN ordered = {}
    BY <2>1
  <2> QED
    BY <2>2 DEF Greedy
<1>2. IInv /\ Greedy /\ [Next]_vars => Greedy'
  BY GreedyStep
<1>3. IInv /\ Greedy => LeastOrder
  BY GreedyIsLeast DEF IInv
<1> QED
  BY <1>1, <1>2, <1>3, Inductive, PTL DEF Spec

-----------------------------------------------------------------------------
(* kd: the list and the results.                                           *)

Details == {"dependency_failed", "provider_not_registered", "provider_not_available",
            "driver_provider_ready", "dependency_cycle", "ready_for_mcp_dispatch"}

KdResult == [id : STRING, status : {"admitted", "blocked", "planned"}, detail : Details]

KdIds == Kd!Ids(loadedTasks)
Admitted == Kd!WithStatus(scheduled, "admitted")
BlockedIds == Kd!Blocked(scheduled)

\* Everything an admitted task depends on is admitted before it.
Executable ==
  Kd!UniqueIds(loadedTasks) =>
    \A i \in DOMAIN scheduled : scheduled[i].status = "admitted" =>
      \A d \in Kd!SpecOf(scheduled[i].id).dependsOn :
        \E j \in 1..(i - 1) : scheduled[j].id = d /\ scheduled[j].status = "admitted"

\* A result of run() against the one of plan() at its place.
Matches(r, s) ==
  /\ r.id = s.id
  /\ r.status = "planned" <=> s.status = "admitted"
  /\ r.status = "blocked" => s.status = "blocked"

KdTypeOK ==
  /\ kdPc \in {"created", "idle", "planning", "running"}
  /\ loadedTasks \in Seq(KdTask)
  /\ scheduled \in Seq(KdResult) /\ results \in Seq(KdResult)
  /\ completed \cup remaining \subseteq KdIds

\* An id is decided once; the sets of plan() say what its results say.
Decided ==
  /\ failed \subseteq completed /\ completed \cap remaining = {}
  /\ Admitted = completed \ failed
  /\ BlockedIds \subseteq failed \cup (IF kdPc = "planning" THEN {} ELSE remaining)

Agreeing ==
  /\ \A i \in DOMAIN scheduled : scheduled[i].status \in {"admitted", "blocked"}
  /\ kdPc \in {"created", "planning"} => results = <<>>
  /\ Len(results) <= Len(scheduled)
  /\ Kd!UniqueIds(loadedTasks) =>
       \A i \in DOMAIN results : Matches(results[i], scheduled[i])

Unplanned ==
  kdPc = "created" => /\ scheduled = <<>> /\ results = <<>>
                      /\ completed = {} /\ failed = {} /\ remaining = {}

KdInv == KdTypeOK /\ Decided /\ Executable /\ Agreeing /\ Unplanned

\* An instance has a copy of every operator of the libraries.
LEMMA KdCardinality == \A S : Kd!Cardinality(S) = Cardinality(S)
BY DEF Kd!Cardinality, Cardinality

\* With unique ids a task is what is found under its id.
LEMMA KdUnique ==
  ASSUME NEW list \in Seq(KdTask), Kd!UniqueIds(list)
  PROVE  \A i, j \in DOMAIN list : list[i].id = list[j].id => i = j
<1> DEFINE n == Len(list)
           R == {list[i].id : i \in 1..n}
           f == [i \in 1..n |-> list[i].id]
<1>1. n \in Nat /\ DOMAIN list = 1..n
  OBVIOUS
<1>2. R = Kd!Ids(list) /\ Cardinality(R) = n
  <2>1. R = Kd!Ids(list)
    BY <1>1 DEF Kd!Ids
  <2>2. Cardinality(Kd!Ids(list)) = n
    BY KdCardinality DEF Kd!UniqueIds
  <2> QED
    BY <2>1, <2>2
<1>3. f \in Surjection(1..n, R)
  BY DEF Surjection
<1>4. IsFiniteSet(1..n) /\ Cardinality(1..n) = n
  BY <1>1, IntervalCard
<1> HIDE DEF f, R, n
<1>5. f \in Injection(1..n, R)
  BY <1>2, <1>3, <1>4, FS_Surjection
<1>6. \A i, j \in 1..n : f[i] = f[j] => i = j
  BY <1>5 DEF Injection, IsInjective
<1> QED
  BY <1>1, <1>6 DEF f

LEMMA KdFinite ==
  ASSUME NEW list \in Seq(KdTask)
  PROVE  IsFiniteSet(Kd!Ids(list))
<1> DEFINE n == Len(list)
           R == {list[i].id : i \in 1..n}
           f == [i \in 1..n |-> list[i].id]
<1>1. n \in Nat /\ DOMAIN list = 1..n
  OBVIOUS
<1>2. R = Kd!Ids(list)
  BY <1>1 DEF Kd!Ids
<1>3. f \in Surjection(1..n, R)
  BY DEF Surjection
<1>4. IsFiniteSet(1..n)
  BY <1>1, IntervalCard
<1> HIDE DEF f, R, n
<1> QED
  BY <1>2, <1>3, <1>4, FS_Surjection

LEMMA KdSpecOf ==
  ASSUME loadedTasks \in Seq(KdTask), Kd!UniqueIds(loadedTasks),
         NEW i \in DOMAIN loadedTasks
  PROVE  Kd!SpecOf(loadedTasks[i].id) = loadedTasks[i]
<1> DEFINE P(k) == /\ loadedTasks[k].id = loadedTasks[i].id
                   /\ \A j \in 1..(k - 1) : loadedTasks[j].id # loadedTasks[i].id
<1>1. \A k, j \in DOMAIN loadedTasks : loadedTasks[k].id = loadedTasks[j].id => k = j
  BY KdUnique
<1>2. DOMAIN loadedTasks = 1..Len(loadedTasks) /\ Len(loadedTasks) \in Nat
  OBVIOUS
<1>3. P(i)
  BY <1>1, <1>2
<1>4. (CHOOSE k \in DOMAIN loadedTasks : P(k)) = i
  BY <1>1, <1>3
<1> QED
  BY <1>4 DEF Kd!SpecOf

\* What one more result does to the ids with a status.
LEMMA Appended ==
  ASSUME NEW rs \in Seq(KdResult), NEW r \in KdResult
  PROVE  /\ Append(rs, r) \in Seq(KdResult)
         /\ Len(rs) \in Nat /\ DOMAIN rs = 1..Len(rs)
         /\ DOMAIN Append(rs, r) = 1..(Len(rs) + 1) /\ Len(Append(rs, r)) = Len(rs) + 1
         /\ Append(rs, r)[Len(rs) + 1] = r
         /\ \A i \in 1..Len(rs) : Append(rs, r)[i] = rs[i]
         /\ \A status : Kd!WithStatus(Append(rs, r), status) =
              Kd!WithStatus(rs, status) \cup (IF r.status = status THEN {r.id} ELSE {})
         /\ Kd!Blocked(Append(rs, r)) =
              Kd!Blocked(rs) \cup (IF r.status = "blocked" THEN {r.id} ELSE {})
<1> DEFINE q == Append(rs, r)
           n == Len(rs)
<1>1. /\ q \in Seq(KdResult) /\ n \in Nat /\ DOMAIN rs = 1..n
      /\ DOMAIN q = 1..(n + 1) /\ Len(q) = n + 1
      /\ q[n + 1] = r /\ \A i \in 1..n : q[i] = rs[i]
  BY AppendProperties
<1> HIDE DEF q, n
<1>2. \A status : Kd!WithStatus(q, status) =
        Kd!WithStatus(rs, status) \cup (IF r.status = status THEN {r.id} ELSE {})
  <2> SUFFICES ASSUME NEW status
               PROVE  Kd!WithStatus(q, status) =
                 Kd!WithStatus(rs, status) \cup (IF r.status = status THEN {r.id} ELSE {})
    OBVIOUS
  <2>1. Kd!WithStatus(q, status) = {q[i].id : i \in {j \in 1..(n + 1) : q[j].status = status}}
    BY <1>1 DEF Kd!WithStatus
  <2>2. Kd!WithStatus(rs, status) = {rs[i].id : i \in {j \in 1..n : rs[j].status = status}}
    BY <1>1 DEF Kd!WithStatus
  <2>3. /\ \A i \in 1..(n + 1) : i \in 1..n \/ i = n + 1
        /\ \A i \in 1..n : i \in 1..(n + 1)
        /\ n + 1 \in 1..(n + 1)
    BY <1>1
  <2> QED
    BY <1>1, <2>1, <2>2, <2>3
<1>3. \A s : Kd!Blocked(s) = Kd!WithStatus(s, "blocked")
  BY DEF Kd!Blocked, Kd!WithStatus
<1> QED
  BY <1>1, <1>2, <1>3 DEF q, n

-----------------------------------------------------------------------------
(* kd: the steps.                                                          *)

LEMMA KdInitInv == Kd!Init => KdInv
<1> SUFFICES ASSUME Kd!Init PROVE KdInv
  OBVIOUS
<1>1. /\ kdPc = "created" /\ loadedTasks = <<>> /\ scheduled = <<>> /\ results = <<>>
      /\ completed = {} /\ failed = {} /\ remaining = {}
  BY DEF Kd!Init
<1>2. /\ <<>> \in Seq(KdTask) /\ <<>> \in Seq(KdResult)
      /\ DOMAIN <<>> = {} /\ Len(<<>>) = 0
  OBVIOUS
<1>3. DOMAIN scheduled = {} /\ DOMAIN results = {} /\ Len(scheduled) = 0 /\ Len(results) = 0
  BY <1>1, <1>2
<1>4. Admitted = {} /\ BlockedIds = {}
  BY <1>3 DEF Admitted, BlockedIds, Kd!WithStatus, Kd!Blocked
<1>5. KdTypeOK
  BY <1>1, <1>2 DEF KdTypeOK
<1> QED
  BY <1>1, <1>3, <1>4, <1>5 DEF KdInv, Decided, Executable, Agreeing, Unplanned

LEMMA KdLoad == ASSUME KdInv, Kd!Load PROVE KdInv'
<1>1. /\ kdPc = "created" /\ kdPc' = "idle" /\ scheduled' = scheduled
      /\ results' = results /\ completed' = completed /\ failed' = failed
      /\ remaining' = remaining
  BY DEF Kd!Load, Kd!planVars
<1>2. /\ scheduled = <<>> /\ results = <<>>
      /\ completed = {} /\ failed = {} /\ remaining = {}
  BY <1>1 DEF KdInv, Unplanned
<1>3. loadedTasks' \in Seq(KdTask)
  <2>1. PICK list \in KdLists :
          \/ loadedTasks' = list
          \/ \E n \in 0..(Len(list) - 1) : loadedTasks' = SubSeq(list, 1, n)
    BY DEF Kd!Load
  <2>2. list \in Seq(KdTask) /\ Len(list) \in Nat /\ DOMAIN list = 1..Len(list)
    BY KdAssumption
  <2>3. ASSUME NEW n \in 0..(Len(list) - 1) PROVE SubSeq(list, 1, n) \in Seq(KdTask)
    <3>1. \A i \in 1..n : list[i] \in KdTask
      BY <2>2
    <3>2. n \in Int
      BY <2>2
    <3> QED
      BY <3>1, <3>2, SubSeqProperties
  <2> QED
    BY <2>1, <2>2, <2>3
<1>4. DOMAIN scheduled' = {} /\ DOMAIN results' = {} /\ Len(scheduled') = 0 /\ Len(results') = 0
  BY <1>1, <1>2
<1>5. Admitted' = {} /\ BlockedIds' = {}
  BY <1>4 DEF Admitted, BlockedIds, Kd!WithStatus, Kd!Blocked
<1>6. KdTypeOK'
  BY <1>1, <1>2, <1>3 DEF KdTypeOK, KdInv
<1> QED
  BY <1>1, <1>2, <1>4, <1>5, <1>6 DEF KdInv, Decided, Executable, Agreeing, Unplanned

LEMMA KdPlan == ASSUME KdInv, NEW caller, Kd!Plan(caller) PROVE KdInv'
<1>1. /\ kdPc' = "planning" /\ loadedTasks' = loadedTasks
      /\ scheduled' = <<>> /\ results' = <<>>
      /\ completed' = {} /\ failed' = {} /\ remaining' = KdIds
  BY DEF Kd!Plan, KdIds
<1>2. <<>> \in Seq(KdResult) /\ DOMAIN <<>> = {} /\ Len(<<>>) = 0
  OBVIOUS
<1>3. DOMAIN scheduled' = {} /\ DOMAIN results' = {} /\ Len(scheduled') = 0 /\ Len(results') = 0
  BY <1>1, <1>2
<1>4. Admitted' = {} /\ BlockedIds' = {}
  BY <1>3 DEF Admitted, BlockedIds, Kd!WithStatus, Kd!Blocked
<1>5. KdIds' = KdIds
  BY <1>1 DEF KdIds
<1>6. KdTypeOK'
  BY <1>1, <1>2, <1>5 DEF KdTypeOK, KdInv
<1> QED
  BY <1>1, <1>3, <1>4, <1>6 DEF KdInv, Decided, Executable, Agreeing, Unplanned

\* A step that touches none of the sets and results.
LEMMA KdQuiet ==
  ASSUME KdInv, loadedTasks' = loadedTasks, scheduled' = scheduled, results' = results,
         completed' = completed, failed' = failed, remaining' = remaining,
         \/ kdPc' = kdPc
         \/ kdPc = "running" /\ kdPc' = "idle"
  PROVE  KdInv'
<1>1. KdIds' = KdIds /\ Admitted' = Admitted /\ BlockedIds' = BlockedIds
  BY DEF KdIds, Admitted, BlockedIds, Kd!WithStatus, Kd!Blocked
<1>2. \A x : Kd!SpecOf(x)' = Kd!SpecOf(x)
  BY DEF Kd!SpecOf
<1>3. KdTypeOK' /\ Decided' /\ Unplanned'
  BY <1>1 DEF KdInv, KdTypeOK, Decided, Unplanned
<1>4. Kd!UniqueIds(loadedTasks)' <=> Kd!UniqueIds(loadedTasks)
  BY DEF Kd!UniqueIds
<1>5. Executable'
  BY <1>2, <1>4 DEF KdInv, Executable
<1>6. Agreeing'
  BY <1>4 DEF KdInv, Agreeing
<1> QED
  BY <1>3, <1>5, <1>6 DEF KdInv

\* A visit that decides a task: what it admits has its dependencies admitted.
LEMMA KdDecide ==
  ASSUME KdInv, NEW i \in DOMAIN loadedTasks,
         NEW status \in {"admitted", "blocked"}, NEW detail \in Details,
         Kd!Visiting(loadedTasks[i]), Kd!Undecided(loadedTasks[i]),
         Kd!Decide(loadedTasks[i], status, detail),
         status = "admitted" => /\ ~Kd!FailedDependency(loadedTasks[i])
                                /\ Kd!Ready(loadedTasks[i])
  PROVE  KdInv'
<1> DEFINE t == loadedTasks[i]
           r == [id |-> t.id, status |-> status, detail |-> detail]
           n == Len(scheduled)
<1>1. /\ kdPc = "planning" /\ kdPc' = "planning" /\ loadedTasks' = loadedTasks
      /\ results' = results
  BY DEF Kd!Visiting
<1>2. /\ scheduled' = Append(scheduled, r)
      /\ completed' = completed \cup {t.id} /\ remaining' = remaining \ {t.id}
      /\ failed' = IF status = "blocked" THEN failed \cup {t.id} ELSE failed
      /\ t.id \in remaining
  BY DEF Kd!Decide, Kd!Undecided
<1>3. /\ loadedTasks \in Seq(KdTask) /\ scheduled \in Seq(KdResult)
      /\ t \in KdTask /\ r \in KdResult /\ r.id = t.id /\ r.status = status
  <2>1. t \in KdTask
    BY DEF KdInv, KdTypeOK
  <2>2. t.id \in STRING
    BY <2>1 DEF KdTask
  <2>3. r \in KdResult
    BY <2>2 DEF KdResult
  <2> QED
    BY <2>1, <2>3 DEF KdInv, KdTypeOK
<1>4. Kd!SpecOf(t.id) = t \/ ~Kd!UniqueIds(loadedTasks)
  BY <1>3, KdSpecOf
<1>5. status = "admitted" => t.dependsOn \subseteq completed \ failed
  BY DEF Kd!FailedDependency, Kd!Ready
<1>6. /\ Admitted = completed \ failed /\ failed \subseteq completed
      /\ completed \cap remaining = {} /\ BlockedIds \subseteq failed
  BY <1>1 DEF KdInv, Decided
<1> HIDE DEF r
<1>7. /\ scheduled' \in Seq(KdResult) /\ n \in Nat /\ DOMAIN scheduled = 1..n
      /\ DOMAIN scheduled' = 1..(n + 1) /\ Len(scheduled') = n + 1
      /\ scheduled'[n + 1] = r /\ \A k \in 1..n : scheduled'[k] = scheduled[k]
      /\ Admitted' = Admitted \cup (IF status = "admitted" THEN {t.id} ELSE {})
      /\ BlockedIds' = BlockedIds \cup (IF status = "blocked" THEN {t.id} ELSE {})
  <2>1. /\ Kd!WithStatus(scheduled, "admitted")' = Kd!WithStatus(Append(scheduled, r), "admitted")
        /\ Kd!Blocked(scheduled)' = Kd!Blocked(Append(scheduled, r))
    BY <1>2 DEF Kd!WithStatus, Kd!Blocked
  <2> QED
    BY <1>2, <1>3, <2>1, Appended DEF Admitted, BlockedIds
<1> HIDE DEF t, n
<1>8. KdIds' = KdIds /\ \A x : Kd!SpecOf(x)' = Kd!SpecOf(x)
  BY <1>1 DEF KdIds, Kd!SpecOf
<1>9. KdTypeOK'
  BY <1>1, <1>2, <1>7, <1>8 DEF KdInv, KdTypeOK
<1>10. Decided'
  <2>1. CASE status = "admitted"
    BY <1>1, <1>2, <1>6, <1>7, <2>1 DEF Decided
  <2>2. CASE status = "blocked"
    BY <1>1, <1>2, <1>6, <1>7, <2>2 DEF Decided
  <2> QED
    BY <2>1, <2>2
<1>11. Executable'
  <2> SUFFICES ASSUME Kd!UniqueIds(loadedTasks), NEW k \in DOMAIN scheduled',
                      scheduled'[k].status = "admitted",
                      NEW d \in Kd!SpecOf(scheduled'[k].id).dependsOn
               PROVE  \E j \in 1..(k - 1) : /\ scheduled'[j].id = d
                                            /\ scheduled'[j].status = "admitted"
    BY <1>1, <1>8 DEF Executable, Kd!UniqueIds
  <2>1. CASE k \in 1..n
    <3>1. /\ k \in DOMAIN scheduled /\ scheduled[k].status = "admitted"
          /\ d \in Kd!SpecOf(scheduled[k].id).dependsOn
      BY <1>7, <2>1
    <3>2. PICK j \in 1..(k - 1) : scheduled[j].id = d /\ scheduled[j].status = "admitted"
      BY <3>1 DEF KdInv, Executable
    <3> QED
      BY <1>7, <2>1, <3>2
  <2>2. CASE k \notin 1..n
    <3>1. k = n + 1 /\ status = "admitted"
      BY <1>3, <1>7, <2>2
    <3>2. d \in t.dependsOn
      BY <1>3, <1>4, <1>7, <3>1
    <3>3. d \in Admitted
      BY <1>5, <1>6, <3>1, <3>2
    <3>4. PICK j \in DOMAIN scheduled : scheduled[j].id = d /\ scheduled[j].status = "admitted"
      BY <3>3 DEF Admitted, Kd!WithStatus
    <3> QED
      BY <1>7, <3>1, <3>4
  <2> QED
    BY <2>1, <2>2
<1>12. Agreeing'
  <2>1. results' = <<>>
    BY <1>1 DEF KdInv, Agreeing
  <2>2. DOMAIN results' = {} /\ Len(results') = 0
    BY <2>1
  <2>3. \A k \in DOMAIN scheduled' : scheduled'[k].status \in {"admitted", "blocked"}
    BY <1>3, <1>7 DEF KdInv, Agreeing
  <2> QED
    BY <1>7, <2>1, <2>2, <2>3 DEF Agreeing
<1> QED
  BY <1>1, <1>9, <1>10, <1>11, <1>12 DEF KdInv, Unplanned

LEMMA SetToSeqIn ==
  ASSUME NEW S, IsFiniteSet(S)
  PROVE  /\ Cardinality(S) \in Nat
         /\ \A i \in 1..Cardinality(S) : Kd!SetToSeq(S)[i] \in S
<1>1. PICK n \in Nat : ExistsBijection(1..n, S)
  BY FS_NatBijection
<1>2. Cardinality(S) = n
  BY <1>1, FS_CountingElements
<1>3. PICK f : f \in Bijection(1..n, S)
  BY <1>1 DEF ExistsBijection
<1>4. f \in [1..n -> S] /\ Kd!IsInjective(f)
  BY <1>3 DEF Bijection, Injection, IsInjective, Kd!IsInjective
<1>5. Kd!Cardinality(S) = n
  BY <1>2, KdCardinality
<1>6. Kd!SetToSeq(S) \in [1..n -> S]
  BY <1>4, <1>5 DEF Kd!SetToSeq
<1> QED
  BY <1>2, <1>6

LEMMA KdEndPlan == ASSUME KdInv, Kd!EndPlan PROVE KdInv'
<1> DEFINE m == Cardinality(remaining)
           cycles == [i \in 1..m |-> Kd!Cycle(Kd!SetToSeq(remaining)[i])]
           n == Len(scheduled)
<1>1. /\ kdPc = "planning" /\ kdPc' \in {"running", "idle"} /\ loadedTasks' = loadedTasks
      /\ results' = results /\ completed' = completed /\ failed' = failed
      /\ remaining' = remaining
  BY DEF Kd!EndPlan, Kd!SweepOver
<1>2. scheduled' = scheduled \o cycles
  BY KdCardinality DEF Kd!EndPlan
<1>3. remaining \subseteq STRING /\ IsFiniteSet(remaining)
  <2>1. KdIds \subseteq STRING
    <3>1. \A i \in DOMAIN loadedTasks : loadedTasks[i].id \in STRING
      <4>1. \A i \in DOMAIN loadedTasks : loadedTasks[i] \in KdTask
        BY DEF KdInv, KdTypeOK
      <4> QED
        BY <4>1 DEF KdTask
    <3> QED
      BY <3>1 DEF KdIds, Kd!Ids
  <2>2. IsFiniteSet(KdIds)
    BY KdFinite DEF KdInv, KdTypeOK, KdIds
  <2> QED
    BY <2>1, <2>2, FS_Subset DEF KdInv, KdTypeOK
<1>4. m \in Nat /\ \A i \in 1..m : Kd!SetToSeq(remaining)[i] \in remaining
  BY <1>3, SetToSeqIn
<1>5. /\ cycles \in Seq(KdResult) /\ Len(cycles) = m
      /\ \A i \in 1..m : cycles[i].status = "blocked" /\ cycles[i].id \in remaining
  <2>1. \A x \in STRING : Kd!Cycle(x) \in KdResult
    BY DEF Kd!Cycle, KdResult, Details
  <2>2. cycles \in [1..m -> KdResult]
    BY <1>3, <1>4, <2>1
  <2>3. \A i \in 1..m : cycles[i].status = "blocked" /\ cycles[i].id \in remaining
    BY <1>4 DEF Kd!Cycle
  <2> HIDE DEF cycles, m
  <2> QED
    BY <1>4, <2>2, <2>3
<1> HIDE DEF cycles, m
<1>6. /\ scheduled \in Seq(KdResult) /\ n \in Nat /\ DOMAIN scheduled = 1..n
  BY DEF KdInv, KdTypeOK
<1>7. /\ scheduled' \in Seq(KdResult) /\ Len(scheduled') = n + m
      /\ DOMAIN scheduled' = 1..(n + m)
      /\ \A i \in 1..n : scheduled'[i] = scheduled[i]
      /\ \A i \in 1..(n + m) :
           i \notin 1..n => scheduled'[i].status = "blocked" /\ scheduled'[i].id \in remaining
  <2>1. /\ scheduled' \in Seq(KdResult) /\ Len(scheduled') = n + m
        /\ \A i \in 1..(n + m) :
             scheduled'[i] = IF i <= n THEN scheduled[i] ELSE cycles[i - n]
    BY <1>2, <1>5, <1>6, ConcatProperties
  <2>2. \A i \in 1..(n + m) : i \notin 1..n => i - n \in 1..m /\ ~(i <= n)
    BY <1>4, <1>6
  <2>3. DOMAIN scheduled' = 1..(n + m)
    BY <2>1
  <2>4. ASSUME NEW i \in 1..n PROVE scheduled'[i] = scheduled[i]
    BY <1>4, <1>6, <2>1
  <2>5. ASSUME NEW i \in 1..(n + m), i \notin 1..n
        PROVE  scheduled'[i].status = "blocked" /\ scheduled'[i].id \in remaining
    BY <1>5, <2>1, <2>2, <2>5
  <2> QED
    BY <2>1, <2>3, <2>4, <2>5
<1> HIDE DEF n
<1>8. Admitted' = Admitted /\ BlockedIds' \subseteq BlockedIds \cup remaining
  <2>1. \A i \in 1..n : i \in 1..(n + m)
    BY <1>4, <1>6
  <2>2. Admitted' = {scheduled'[i].id : i \in {j \in 1..(n + m) :
                                                 scheduled'[j].status = "admitted"}}
    BY <1>7 DEF Admitted, Kd!WithStatus
  <2>3. Admitted = {scheduled[i].id : i \in {j \in 1..n : scheduled[j].status = "admitted"}}
    BY <1>6 DEF Admitted, Kd!WithStatus
  <2>4. BlockedIds' = {scheduled'[i].id : i \in {j \in 1..(n + m) :
                                                 scheduled'[j].status = "blocked"}}
    BY <1>7 DEF BlockedIds, Kd!Blocked
  <2>5. BlockedIds = {scheduled[i].id : i \in {j \in 1..n : scheduled[j].status = "blocked"}}
    BY <1>6 DEF BlockedIds, Kd!Blocked
  <2>6. Admitted' = Admitted
    BY <1>7, <2>1, <2>2, <2>3
  <2>7. BlockedIds' \subseteq BlockedIds \cup remaining
    BY <1>7, <2>1, <2>4, <2>5
  <2> QED
    BY <2>6, <2>7
<1>9. KdIds' = KdIds /\ \A x : Kd!SpecOf(x)' = Kd!SpecOf(x)
  BY <1>1 DEF KdIds, Kd!SpecOf
<1>10. KdTypeOK'
  BY <1>1, <1>7, <1>9 DEF KdInv, KdTypeOK
<1>11. Decided'
  BY <1>1, <1>8 DEF KdInv, Decided
<1>12. Executable'
  <2> SUFFICES ASSUME Kd!UniqueIds(loadedTasks), NEW k \in DOMAIN scheduled',
                      scheduled'[k].status = "admitted",
                      NEW d \in Kd!SpecOf(scheduled'[k].id).dependsOn
               PROVE  \E j \in 1..(k - 1) : /\ scheduled'[j].id = d
                                            /\ scheduled'[j].status = "admitted"
    BY <1>1, <1>9 DEF Executable, Kd!UniqueIds
  <2>1. k \in 1..n
    BY <1>7
  <2>2. /\ k \in DOMAIN scheduled /\ scheduled[k].status = "admitted"
        /\ d \in Kd!SpecOf(scheduled[k].id).dependsOn
    BY <1>6, <1>7, <2>1
  <2>3. PICK j \in 1..(k - 1) : scheduled[j].id = d /\ scheduled[j].status = "admitted"
    BY <2>2 DEF KdInv, Executable
  <2> QED
    BY <1>6, <1>7, <2>1, <2>3
<1>13. Agreeing'
  <2>1. results' = <<>>
    BY <1>1 DEF KdInv, Agreeing
  <2>2. DOMAIN results' = {} /\ Len(results') = 0
    BY <2>1
  <2>3. \A k \in DOMAIN scheduled' : scheduled'[k].status \in {"admitted", "blocked"}
    BY <1>6, <1>7 DEF KdInv, Agreeing
  <2>4. 0 <= Len(scheduled')
    BY <1>4, <1>6, <1>7
  <2> QED
    BY <1>1, <2>1, <2>2, <2>3, <2>4 DEF Agreeing
<1> QED
  BY <1>1, <1>10, <1>11, <1>12, <1>13 DEF KdInv, Unplanned

\* run() finds no blocked dependency of a task that plan() admitted.
LEMMA KdRunOne == ASSUME KdInv, Kd!RunOne PROVE KdInv'
<1> DEFINE n == Len(results)
           s == scheduled[n + 1]
           bad == BlockedIds \cup Kd!Blocked(results)
           r == IF s.status # "admitted" THEN s
                ELSE IF Kd!SpecOf(s.id).dependsOn \cap bad # {}
                THEN [s EXCEPT !.status = "blocked", !.detail = "dependency_failed"]
                ELSE [s EXCEPT !.status = "planned", !.detail = "ready_for_mcp_dispatch"]
<1>1. /\ kdPc = "running" /\ kdPc' = kdPc /\ loadedTasks' = loadedTasks
      /\ scheduled' = scheduled /\ completed' = completed /\ failed' = failed
      /\ remaining' = remaining /\ n < Len(scheduled)
      /\ results' = Append(results, r)
  BY DEF Kd!RunOne, Kd!planVars, BlockedIds
<1>2. /\ scheduled \in Seq(KdResult) /\ results \in Seq(KdResult)
      /\ n \in Nat /\ Len(scheduled) \in Nat /\ DOMAIN scheduled = 1..Len(scheduled)
      /\ DOMAIN results = 1..n
  BY DEF KdInv, KdTypeOK
<1>3. n + 1 \in DOMAIN scheduled /\ s \in KdResult /\ s.status \in {"admitted", "blocked"}
  <2>1. n + 1 \in DOMAIN scheduled
    BY <1>1, <1>2
  <2> QED
    BY <1>2, <2>1 DEF KdInv, Agreeing
<1>4. r \in KdResult /\ r.id = s.id
  BY <1>3 DEF KdResult, Details
<1>5. ASSUME Kd!UniqueIds(loadedTasks) PROVE Matches(r, s)
  <2>1. Kd!Blocked(results) \subseteq BlockedIds
    <3> SUFFICES ASSUME NEW j \in DOMAIN results, results[j].status = "blocked"
                 PROVE  results[j].id \in BlockedIds
      BY DEF Kd!Blocked
    <3>1. j \in DOMAIN scheduled /\ Matches(results[j], scheduled[j])
      BY <1>1, <1>2, <1>5 DEF KdInv, Agreeing
    <3> QED
      BY <3>1 DEF Matches, BlockedIds, Kd!Blocked
  <2>2. Admitted \cap BlockedIds = {}
    BY <1>1 DEF KdInv, Decided
  <2>3. ASSUME s.status = "admitted" PROVE Kd!SpecOf(s.id).dependsOn \subseteq Admitted
    <3> SUFFICES ASSUME NEW d \in Kd!SpecOf(s.id).dependsOn PROVE d \in Admitted
      OBVIOUS
    <3>1. PICK j \in 1..n : scheduled[j].id = d /\ scheduled[j].status = "admitted"
      <4>1. \E j \in 1..((n + 1) - 1) : scheduled[j].id = d /\ scheduled[j].status = "admitted"
        BY <1>3, <1>5, <2>3 DEF KdInv, Executable
      <4>2. (n + 1) - 1 = n
        BY <1>2
      <4> QED
        BY <4>1, <4>2
    <3>2. j \in DOMAIN scheduled
      BY <1>1, <1>2
    <3> QED
      BY <3>1, <3>2 DEF Admitted, Kd!WithStatus
  <2>4. CASE s.status = "admitted"
    <3>1. r = [s EXCEPT !.status = "planned", !.detail = "ready_for_mcp_dispatch"]
      BY <2>1, <2>2, <2>3, <2>4
    <3> QED
      BY <1>3, <2>4, <3>1 DEF Matches, KdResult
  <2>5. CASE s.status # "admitted"
    BY <1>3, <2>5 DEF Matches
  <2> QED
    BY <2>4, <2>5
<1> HIDE DEF r
<1>6. /\ results' \in Seq(KdResult) /\ DOMAIN results' = 1..(n + 1)
      /\ Len(results') = n + 1 /\ results'[n + 1] = r
      /\ \A i \in 1..n : results'[i] = results[i]
  BY <1>1, <1>2, <1>4, Appended
<1>7. KdIds' = KdIds /\ Admitted' = Admitted /\ BlockedIds' = BlockedIds
  BY <1>1 DEF KdIds, Admitted, BlockedIds, Kd!WithStatus, Kd!Blocked
<1>8. \A x : Kd!SpecOf(x)' = Kd!SpecOf(x)
  BY <1>1 DEF Kd!SpecOf
<1>9. Kd!UniqueIds(loadedTasks)' <=> Kd!UniqueIds(loadedTasks)
  BY <1>1 DEF Kd!UniqueIds
<1>10. KdTypeOK' /\ Decided' /\ Unplanned'
  BY <1>1, <1>6, <1>7 DEF KdInv, KdTypeOK, Decided, Unplanned
<1>11. Executable'
  BY <1>1, <1>8, <1>9 DEF KdInv, Executable
<1>12. Agreeing'
  <2>1. ASSUME Kd!UniqueIds(loadedTasks), NEW i \in DOMAIN results'
        PROVE  Matches(results'[i], scheduled[i])
    <3>1. CASE i \in 1..n
      BY <1>2, <1>6, <2>1, <3>1 DEF KdInv, Agreeing
    <3>2. CASE i \notin 1..n
      <4>1. i = n + 1
        BY <1>2, <1>6, <3>2
      <4> QED
        BY <1>5, <1>6, <2>1, <4>1
    <3> QED
      BY <3>1, <3>2
  <2>2. Len(results') <= Len(scheduled')
    BY <1>1, <1>2, <1>6
  <2>3. \A i \in DOMAIN scheduled' : scheduled'[i].status \in {"admitted", "blocked"}
    BY <1>1 DEF KdInv, Agreeing
  <2> QED
    BY <1>1, <1>9, <2>1, <2>2, <2>3 DEF Agreeing
<1> QED
  BY <1>10, <1>11, <1>12 DEF KdInv

LEMMA KdVisit == ASSUME KdInv, Kd!Visit PROVE KdInv'
<1>1. PICK i \in DOMAIN loadedTasks :
        LET t == loadedTasks[i]
        IN \/ Kd!Skip(t) \/ Kd!BlockDependent(t) \/ Kd!BlockUnregistered(t)
           \/ Kd!BlockUnavailable(t) \/ Kd!Admit(t)
  BY DEF Kd!Visit
<1>2. CASE Kd!Skip(loadedTasks[i])
  BY <1>2, KdQuiet DEF Kd!Skip, Kd!Visiting
<1>3. CASE Kd!BlockDependent(loadedTasks[i])
  <2>1. "dependency_failed" \in Details
    BY DEF Details
  <2> QED
    BY <1>3, <2>1, KdDecide DEF Kd!BlockDependent
<1>4. CASE Kd!BlockUnregistered(loadedTasks[i])
  <2>1. "provider_not_registered" \in Details
    BY DEF Details
  <2> QED
    BY <1>4, <2>1, KdDecide DEF Kd!BlockUnregistered
<1>5. CASE Kd!BlockUnavailable(loadedTasks[i])
  <2>1. "provider_not_available" \in Details
    BY DEF Details
  <2> QED
    BY <1>5, <2>1, KdDecide DEF Kd!BlockUnavailable
<1>6. CASE Kd!Admit(loadedTasks[i])
  <2>1. "driver_provider_ready" \in Details
    BY DEF Details
  <2> QED
    BY <1>6, <2>1, KdDecide DEF Kd!Admit
<1> QED
  BY <1>1, <1>2, <1>3, <1>4, <1>5, <1>6

LEMMA KdNextInv == ASSUME KdInv, [Kd!Next]_(Kd!vars) PROVE KdInv'
<1>1. CASE Kd!Load
  BY <1>1, KdLoad
<1>2. CASE Kd!Plan("plan") \/ Kd!Plan("run")
  BY <1>2, KdPlan
<1>3. CASE Kd!Visit
  BY <1>3, KdVisit
<1>4. CASE Kd!NextSweep
  BY <1>4, KdQuiet DEF Kd!NextSweep, Kd!SweepOver
<1>5. CASE Kd!EndPlan
  BY <1>5, KdEndPlan
<1>6. CASE Kd!RunOne
  BY <1>6, KdRunOne
<1>7. CASE Kd!EndRun
  BY <1>7, KdQuiet DEF Kd!EndRun, Kd!planVars
<1>8. CASE UNCHANGED Kd!vars
  BY <1>8, KdQuiet DEF Kd!vars, Kd!planVars
<1> QED
  BY <1>1, <1>2, <1>3, <1>4, <1>5, <1>6, <1>7, <1>8 DEF Kd!Next, Kd!Work

\* A behaviour of the host is one of kd.
LEMMA HostRunsKd == DriversSpec => Kd!Spec
<1>1. DriversInit => Kd!Init
  BY DEF DriversInit
<1>2. [DriversNext]_<<library, vars, kdVars>> => [Kd!Next]_(Kd!vars)
  BY DEF DriversNext, kdVars, Kd!vars, Kd!planVars
<1> QED
  BY <1>1, <1>2, PTL DEF DriversSpec, Kd!Spec

LEMMA KdInductive == DriversSpec => []KdInv
<1>1. KdInv /\ [Kd!Next]_(Kd!vars) => KdInv'
  BY KdNextInv
<1> QED
  BY <1>1, KdInitInv, HostRunsKd, PTL DEF Kd!Spec

\* What plan() of kd admits can be executed in the order of its results,
\* whatever the list, its order and its providers.
THEOREM KdOrderExecutable == DriversSpec => []ExecutableOrder
<1>1. KdInv => ExecutableOrder
  <2> SUFFICES ASSUME KdInv, Kd!UniqueIds(loadedTasks), NEW i \in DOMAIN scheduled,
                      scheduled[i].status = "admitted",
                      NEW d \in Kd!SpecOf(scheduled[i].id).dependsOn
               PROVE  d \in Kd!WithStatus(SubSeq(scheduled, 1, i - 1), "admitted")
    BY DEF ExecutableOrder, Kd!ExecutableOrder
  <2> DEFINE s == SubSeq(scheduled, 1, i - 1)
  <2>1. /\ scheduled \in Seq(KdResult) /\ Len(scheduled) \in Nat
        /\ DOMAIN scheduled = 1..Len(scheduled) /\ i \in 1..Len(scheduled)
    BY DEF KdInv, KdTypeOK
  <2>2. /\ \A k \in 1..(i - 1) : scheduled[k] \in KdResult
        /\ i - 1 \in Int /\ i - 1 \in Nat
    BY <2>1
  <2>3. DOMAIN s = 1..(i - 1) /\ \A k \in 1..(i - 1) : s[k] = scheduled[k]
    <3>1. /\ s \in Seq(KdResult)
          /\ Len(s) = IF 1 <= i - 1 THEN i - 1 - 1 + 1 ELSE 0
          /\ \A k \in 1..(i - 1 - 1 + 1) : s[k] = scheduled[1 + k - 1]
      BY <2>2, SubSeqProperties
    <3> HIDE DEF s
    <3> QED
      BY <2>1, <2>2, <3>1
  <2>4. PICK j \in 1..(i - 1) : scheduled[j].id = d /\ scheduled[j].status = "admitted"
    BY DEF KdInv, Executable
  <2> HIDE DEF s
  <2> QED
    BY <2>3, <2>4 DEF Kd!WithStatus, s
<1> QED
  BY <1>1, KdInductive, PTL

\* The test of the dependencies in run() never finds what plan() has missed.
THEOREM KdRunAgrees == DriversSpec => []RunAgreesWithPlan
<1>1. KdInv => RunAgreesWithPlan
  BY DEF KdInv, Agreeing, Matches, RunAgreesWithPlan, Kd!RunAgreesWithPlan
<1> QED
  BY <1>1, KdInductive, PTL

-----------------------------------------------------------------------------
(* kd: the verdict.  An id is admitted within as many rounds as there are  *)
(* results; a sweep that decides nothing leaves no task that could be.     *)

Round(list, S) ==
  {list[i].id : i \in {j \in DOMAIN list : /\ Kd!Usable(list[j])
                                           /\ list[j].dependsOn \subseteq S}}

\* The rounds are a function that is defined by recursion: that there is one
\* has to be shown first.
LEMMA RoundsExist ==
  ASSUME NEW list
  PROVE  \A m \in Nat : \E f :
           f = [n \in 0..m |-> IF n = 0 THEN {} ELSE Round(list, f[n - 1])]
<1> DEFINE Is(f, m) == f = [n \in 0..m |-> IF n = 0 THEN {} ELSE Round(list, f[n - 1])]
           T == {m \in Nat : ~(\E f : Is(f, m))}
<1> SUFFICES ASSUME T # {} PROVE FALSE
  OBVIOUS
<1>1. PICK m \in T : \A k \in T : m <= k
  <2>1. T \subseteq Nat
    OBVIOUS
  <2> HIDE DEF T
  <2> QED
    BY <2>1, NatMin
<1>2. m \in Nat /\ ~(\E f : Is(f, m))
  BY <1>1
<1>3. m # 0
  <2> SUFFICES ASSUME m = 0 PROVE FALSE
    OBVIOUS
  <2> DEFINE f == [n \in 0..0 |-> {}]
  <2>1. f = [n \in 0..0 |-> IF n = 0 THEN {} ELSE Round(list, f[n - 1])]
    OBVIOUS
  <2> QED
    BY <1>2, <2>1
<1>4. m - 1 \in Nat /\ m - 1 \notin T
  <2>1. m - 1 \in Nat /\ ~(m <= m - 1)
    BY <1>2, <1>3
  <2> HIDE DEF T
  <2> QED
    BY <1>1, <2>1
<1>5. PICK f : Is(f, m - 1)
  BY <1>4
<1> DEFINE g == [n \in 0..m |-> IF n < m THEN f[n] ELSE Round(list, f[m - 1])]
           h == [n \in 0..m |-> IF n = 0 THEN {} ELSE Round(list, g[n - 1])]
<1>6. ASSUME NEW n \in 0..m PROVE g[n] = h[n]
  <2>1. CASE n < m
    <3>1. n \in 0..(m - 1) /\ g[n] = f[n]
      BY <1>2, <2>1
    <3>2. f[n] = IF n = 0 THEN {} ELSE Round(list, f[n - 1])
      BY <1>5, <3>1
    <3>3. n # 0 => n - 1 \in 0..m /\ n - 1 < m
      BY <1>2, <2>1
    <3> QED
      BY <3>1, <3>2, <3>3
  <2>2. CASE ~(n < m)
    <3>1. n = m /\ n - 1 \in 0..m /\ n - 1 < m /\ n # 0
      BY <1>2, <1>3, <2>2
    <3> QED
      BY <3>1
  <2> QED
    BY <2>1, <2>2
<1>7. g = h
  BY <1>6
<1>8. Is(g, m)
  BY <1>7
<1> QED
  BY <1>2, <1>8

LEMMA RoundsAre ==
  ASSUME NEW list \in Seq(KdTask)
  PROVE  LET R == Kd!Rounds(list)
         IN  R = [n \in 0..Len(list) |-> IF n = 0 THEN {} ELSE Round(list, R[n - 1])]
<1>1. Len(list) \in Nat
  OBVIOUS
<1>2. \E f : f = [n \in 0..Len(list) |-> IF n = 0 THEN {} ELSE Round(list, f[n - 1])]
  BY <1>1, RoundsExist
<1>3. Kd!Rounds(list) =
        CHOOSE f : f = [n \in 0..Len(list) |-> IF n = 0 THEN {} ELSE Round(list, f[n - 1])]
  BY DEF Kd!Rounds, Round
<1> QED
  BY <1>2, <1>3

\* They grow.
LEMMA RoundsGrow ==
  ASSUME NEW list \in Seq(KdTask)
  PROVE  LET R == Kd!Rounds(list)
         IN  /\ Len(list) \in Nat /\ R[0] = {}
             /\ \A n \in 1..Len(list) : R[n] = Round(list, R[n - 1])
             /\ \A n \in 1..Len(list) : R[n - 1] \subseteq R[n]
             /\ \A n \in 0..Len(list) : R[n] \subseteq R[Len(list)]
<1> DEFINE R == Kd!Rounds(list)
           last == Len(list)
<1>1. last \in Nat /\ R = [n \in 0..last |-> IF n = 0 THEN {} ELSE Round(list, R[n - 1])]
  BY RoundsAre
<1> HIDE DEF R, last
<1>2. R[0] = {} /\ \A n \in 1..last : R[n] = Round(list, R[n - 1])
  <2>1. 0 \in 0..last /\ \A n \in 1..last : n \in 0..last /\ n # 0
    BY <1>1
  <2> DEFINE rounds == [n \in 0..last |-> IF n = 0 THEN {} ELSE Round(list, R[n - 1])]
  <2>2. \A n \in 0..last : rounds[n] = IF n = 0 THEN {} ELSE Round(list, R[n - 1])
    OBVIOUS
  <2>3. R = rounds
    BY <1>1
  <2> HIDE DEF rounds
  <2> QED
    BY <2>1, <2>2, <2>3
<1>3. \A S, T : S \subseteq T => Round(list, S) \subseteq Round(list, T)
  BY DEF Round
<1>4. \A n \in 1..last : R[n - 1] \subseteq R[n]
  <2> DEFINE T == {n \in 1..last : ~(R[n - 1] \subseteq R[n])}
  <2> SUFFICES ASSUME T # {} PROVE FALSE
    OBVIOUS
  <2>1. PICK n \in T : \A k \in T : n <= k
    <3>1. T \subseteq Nat
      BY <1>1
    <3> HIDE DEF T
    <3> QED
      BY <3>1, NatMin
  <2>2. n \in 1..last /\ ~(R[n - 1] \subseteq R[n])
    BY <2>1
  <2>3. n # 1
    BY <1>2, <2>2
  <2>4. n - 1 \in 1..last /\ n - 1 \notin T
    <3>1. n - 1 \in 1..last /\ ~(n <= n - 1)
      BY <1>1, <2>2, <2>3
    <3> HIDE DEF T
    <3> QED
      BY <2>1, <3>1
  <2>5. R[n - 1 - 1] \subseteq R[n - 1]
    BY <2>4
  <2> QED
    BY <1>2, <1>3, <2>2, <2>4, <2>5
<1>5. \A n \in 0..last : R[n] \subseteq R[last]
  <2> DEFINE T == {d \in 0..last : ~(R[last - d] \subseteq R[last])}
  <2>1. T = {}
    <3> SUFFICES ASSUME T # {} PROVE FALSE
      OBVIOUS
    <3>1. PICK d \in T : \A k \in T : d <= k
      <4>1. T \subseteq Nat
        BY <1>1
      <4> HIDE DEF T
      <4> QED
        BY <4>1, NatMin
    <3>2. d \in 0..last /\ ~(R[last - d] \subseteq R[last])
      BY <3>1
    <3>3. d # 0
      BY <1>1, <3>2
    <3>4. d - 1 \in 0..last /\ d - 1 \notin T
      <4>1. d - 1 \in 0..last /\ ~(d <= d - 1)
        BY <1>1, <3>2, <3>3
      <4> HIDE DEF T
      <4> QED
        BY <3>1, <4>1
    <3>5. R[last - (d - 1)] \subseteq R[last]
      BY <3>4
    <3>6. last - (d - 1) \in 1..last /\ last - (d - 1) - 1 = last - d
      BY <1>1, <3>2, <3>3
    <3>7. R[last - d] \subseteq R[last - (d - 1)]
      BY <1>4, <3>6
    <3> QED
      BY <3>2, <3>5, <3>7
  <2>2. ASSUME NEW n \in 0..last PROVE R[n] \subseteq R[last]
    <3>1. last - n \in 0..last /\ last - (last - n) = n
      BY <1>1
    <3>2. last - n \notin T
      BY <2>1
    <3> QED
      BY <3>1, <3>2
  <2> QED
    BY <2>2
<1> QED
  BY <1>1, <1>2, <1>4, <1>5 DEF R, last

Swept ==
  ~progressed => \A i \in DOMAIN loadedTasks :
    i < cursor /\ loadedTasks[i].id \in remaining => ~Kd!Ready(loadedTasks[i])

Justified ==
  \A i \in DOMAIN loadedTasks : loadedTasks[i].id \in failed =>
    ~Kd!Usable(loadedTasks[i]) \/ Kd!FailedDependency(loadedTasks[i])

\* plan() is under way.
Underway ==
  /\ cursor \in Nat \ {0}
  /\ completed \cup remaining = KdIds
  /\ Cardinality(remaining) + Len(scheduled) = Len(loadedTasks)
  /\ Admitted \subseteq Kd!Rounds(loadedTasks)[Len(scheduled)]
  /\ Swept /\ Justified

\* plan() has returned to run().
Final ==
  /\ Admitted \subseteq Kd!Reference(loadedTasks)
  /\ \A i \in DOMAIN loadedTasks :
       Kd!Usable(loadedTasks[i]) /\ loadedTasks[i].dependsOn \subseteq Admitted =>
         loadedTasks[i].id \in Admitted

FreeInv ==
  /\ kdPc = "created" => call = "plan"
  /\ Kd!UniqueIds(loadedTasks) /\ kdPc = "planning" => Underway
  /\ Kd!UniqueIds(loadedTasks) /\ Kd!Planned => Final

LEMMA FinalIsReference ==
  ASSUME KdInv, Final
  PROVE  Admitted = Kd!Reference(loadedTasks)
<1> DEFINE R == Kd!Rounds(loadedTasks)
           last == Len(loadedTasks)
<1>1. loadedTasks \in Seq(KdTask)
  BY DEF KdInv, KdTypeOK
<1>2. /\ last \in Nat /\ R[0] = {}
      /\ \A n \in 1..last : R[n] = Round(loadedTasks, R[n - 1])
  BY <1>1, RoundsGrow
<1>3. Kd!Reference(loadedTasks) = R[last]
  BY DEF Kd!Reference
<1> HIDE DEF R, last
<1>4. \A S : S \subseteq Admitted => Round(loadedTasks, S) \subseteq Admitted
  <2> SUFFICES ASSUME NEW S, S \subseteq Admitted, NEW x \in Round(loadedTasks, S)
               PROVE  x \in Admitted
    OBVIOUS
  <2>1. PICK i \in DOMAIN loadedTasks :
          /\ x = loadedTasks[i].id /\ Kd!Usable(loadedTasks[i])
          /\ loadedTasks[i].dependsOn \subseteq S
    BY DEF Round
  <2> QED
    BY <2>1 DEF Final
<1> DEFINE T == {n \in 0..last : ~(R[n] \subseteq Admitted)}
<1>5. T = {}
  <2> SUFFICES ASSUME T # {} PROVE FALSE
    OBVIOUS
  <2>1. PICK n \in T : \A k \in T : n <= k
    <3>1. T \subseteq Nat
      BY <1>2
    <3> HIDE DEF T
    <3> QED
      BY <3>1, NatMin
  <2>2. n \in 0..last /\ ~(R[n] \subseteq Admitted)
    BY <2>1
  <2>3. n # 0
    BY <1>2, <2>2
  <2>4. n - 1 \in 0..last /\ n \in 1..last /\ ~(n <= n - 1)
    BY <1>2, <2>2, <2>3
  <2>5. n - 1 \notin T
    <3> HIDE DEF T
    <3> QED
      BY <2>1, <2>4
  <2>6. R[n - 1] \subseteq Admitted
    BY <2>4, <2>5
  <2> QED
    BY <1>2, <1>4, <2>2, <2>4, <2>6
<1>6. R[last] \subseteq Admitted
  <2>1. last \in 0..last /\ last \notin T
    BY <1>2, <1>5
  <2> QED
    BY <2>1
<1> QED
  BY <1>3, <1>6 DEF Final

\* What the two predicates read.
LEMMA FreeKept ==
  ASSUME loadedTasks' = loadedTasks, providers' = providers
  PROVE  /\ KdIds' = KdIds /\ \A t : Kd!Usable(t)' = Kd!Usable(t)
         /\ Kd!UniqueIds(loadedTasks)' = Kd!UniqueIds(loadedTasks)
         /\ Kd!Rounds(loadedTasks)' = Kd!Rounds(loadedTasks)
         /\ Kd!Reference(loadedTasks)' = Kd!Reference(loadedTasks)
BY DEF KdIds, Kd!Usable, Kd!UniqueIds, Kd!Rounds, Kd!Reference

LEMMA FinalKept ==
  ASSUME loadedTasks' = loadedTasks, providers' = providers, scheduled' = scheduled, Final
  PROVE  Final'
<1>1. Admitted' = Admitted
  BY DEF Admitted, Kd!WithStatus
<1> QED
  BY <1>1, FreeKept DEF Final

LEMMA FreePlan == ASSUME KdInv, NEW caller, Kd!Plan(caller) PROVE FreeInv'
<1>1. /\ kdPc' = "planning" /\ loadedTasks' = loadedTasks /\ providers' = providers
      /\ scheduled' = <<>> /\ completed' = {} /\ failed' = {} /\ remaining' = KdIds
      /\ cursor' = 1
  BY DEF Kd!Plan, KdIds
<1>2. DOMAIN scheduled' = {} /\ Len(scheduled') = 0
  <2>1. DOMAIN <<>> = {} /\ Len(<<>>) = 0
    OBVIOUS
  <2> QED
    BY <1>1, <2>1
<1>3. Admitted' = {}
  BY <1>2 DEF Admitted, Kd!WithStatus
<1>4. ASSUME Kd!UniqueIds(loadedTasks) PROVE Underway'
  <2>1. loadedTasks \in Seq(KdTask) /\ Len(loadedTasks) \in Nat
    BY DEF KdInv, KdTypeOK
  <2>2. Cardinality(remaining') + Len(scheduled') = Len(loadedTasks)
    <3>1. Cardinality(KdIds) = Len(loadedTasks)
      BY <1>4, KdCardinality DEF Kd!UniqueIds, KdIds
    <3> QED
      BY <1>1, <1>2, <2>1, <3>1
  <2>3. Swept' /\ Justified'
    <3>1. \A i \in DOMAIN loadedTasks : ~(i < 1)
      BY <2>1
    <3> QED
      BY <1>1, <3>1 DEF Swept, Justified
  <2> QED
    BY <1>1, <1>3, <2>2, <2>3, FreeKept DEF Underway
<1> QED
  BY <1>1, <1>4, FreeKept DEF FreeInv, Kd!Planned

LEMMA FreeSkip ==
  ASSUME KdInv, FreeInv, NEW i \in DOMAIN loadedTasks, i = cursor, Kd!Skip(loadedTasks[i])
  PROVE  FreeInv'
<1>1. /\ kdPc = "planning" /\ kdPc' = "planning" /\ loadedTasks' = loadedTasks
      /\ providers' = providers /\ scheduled' = scheduled /\ cursor' = cursor + 1
      /\ progressed' = progressed /\ completed' = completed /\ failed' = failed
      /\ remaining' = remaining
      /\ loadedTasks[i].id \in remaining => ~Kd!Ready(loadedTasks[i])
  BY DEF Kd!Skip, Kd!Visiting, Kd!Undecided
<1>2. Admitted' = Admitted
  BY <1>1 DEF Admitted, Kd!WithStatus
<1>3. ASSUME Kd!UniqueIds(loadedTasks) PROVE Underway'
  <2>1. Underway
    BY <1>1, <1>3 DEF FreeInv
  <2>2. cursor' \in Nat \ {0}
    BY <1>1, <2>1 DEF Underway
  <2>3. Swept'
    <3>1. \A j \in DOMAIN loadedTasks : j < cursor + 1 => j < cursor \/ j = i
      BY <2>1 DEF Underway, KdInv, KdTypeOK
    <3> QED
      BY <1>1, <2>1, <3>1 DEF Underway, Swept, Kd!Ready
  <2>4. Justified'
    BY <1>1, <2>1, FreeKept DEF Underway, Justified, Kd!FailedDependency
  <2> QED
    BY <1>1, <1>2, <2>1, <2>2, <2>3, <2>4, FreeKept DEF Underway
<1> QED
  BY <1>1, <1>3, FreeKept DEF FreeInv, Kd!Planned

\* A decision: an admitted task joins a round later than what it depends on, a
\* blocked one has a reason.
LEMMA FreeDecide ==
  ASSUME KdInv, FreeInv, NEW i \in DOMAIN loadedTasks, i = cursor,
         NEW status \in {"admitted", "blocked"}, NEW detail \in Details,
         Kd!Visiting(loadedTasks[i]), Kd!Undecided(loadedTasks[i]),
         Kd!Decide(loadedTasks[i], status, detail),
         status = "admitted" => /\ ~Kd!FailedDependency(loadedTasks[i])
                                /\ Kd!Ready(loadedTasks[i])
                                /\ Kd!Usable(loadedTasks[i]),
         status = "blocked" => \/ ~Kd!Usable(loadedTasks[i])
                               \/ Kd!FailedDependency(loadedTasks[i])
  PROVE  FreeInv'
<1> DEFINE t == loadedTasks[i]
           r == [id |-> t.id, status |-> status, detail |-> detail]
           n == Len(scheduled)
           R == Kd!Rounds(loadedTasks)
<1>1. /\ kdPc = "planning" /\ kdPc' = "planning" /\ loadedTasks' = loadedTasks
      /\ providers' = providers /\ cursor' = cursor + 1 /\ progressed' = TRUE
      /\ scheduled' = Append(scheduled, r)
      /\ completed' = completed \cup {t.id} /\ remaining' = remaining \ {t.id}
      /\ failed' = IF status = "blocked" THEN failed \cup {t.id} ELSE failed
      /\ t.id \in remaining
  BY DEF Kd!Visiting, Kd!Decide, Kd!Undecided
<1>2. /\ loadedTasks \in Seq(KdTask) /\ scheduled \in Seq(KdResult)
      /\ Len(loadedTasks) \in Nat /\ n \in Nat /\ t \in KdTask /\ r \in KdResult
  <2>1. t \in KdTask
    BY DEF KdInv, KdTypeOK
  <2>2. t.id \in STRING
    BY <2>1 DEF KdTask
  <2>3. r \in KdResult
    BY <2>2 DEF KdResult
  <2> QED
    BY <2>1, <2>3 DEF KdInv, KdTypeOK
<1>3. /\ Len(scheduled') = n + 1
      /\ Admitted' = Admitted \cup (IF status = "admitted" THEN {t.id} ELSE {})
  <2>1. Kd!WithStatus(scheduled, "admitted")' = Kd!WithStatus(Append(scheduled, r), "admitted")
    BY <1>1 DEF Kd!WithStatus
  <2>2. r.id = t.id /\ r.status = status
    OBVIOUS
  <2> HIDE DEF r
  <2> QED
    BY <1>1, <1>2, <2>1, <2>2, Appended DEF Admitted
<1> HIDE DEF r
<1>4. Admitted = completed \ failed /\ completed \cap remaining = {} /\ failed \subseteq completed
  BY DEF KdInv, Decided
<1>5. ASSUME Kd!UniqueIds(loadedTasks) PROVE Underway'
  <2>1. Underway
    BY <1>1, <1>5 DEF FreeInv
  <2>2. /\ cursor' \in Nat \ {0} /\ (completed \cup remaining)' = KdIds
    BY <1>1, <2>1 DEF Underway
  <2>3. IsFiniteSet(remaining)
    <3>1. IsFiniteSet(KdIds)
      BY <1>2, KdFinite DEF KdIds
    <3> QED
      BY <2>1, <3>1, FS_Subset DEF Underway
  <2>4. /\ Cardinality(remaining) \in Nat /\ Cardinality(remaining') \in Nat
        /\ Cardinality(remaining') = Cardinality(remaining) - 1
    <3>1. /\ IsFiniteSet(remaining \ {t.id})
          /\ Cardinality(remaining \ {t.id}) = Cardinality(remaining) - 1
      BY <1>1, <2>3, FS_RemoveElement
    <3> QED
      BY <1>1, <2>3, <3>1, FS_CardinalityType
  <2>5. /\ Cardinality(remaining') + Len(scheduled') = Len(loadedTasks)
        /\ n + 1 \in 1..Len(loadedTasks)
    BY <1>2, <1>3, <2>1, <2>4 DEF Underway
  <2>6. R[n] \subseteq R[n + 1] /\ R[n + 1] = Round(loadedTasks, R[n])
    <3>1. /\ \A k \in 1..Len(loadedTasks) : R[k] = Round(loadedTasks, R[k - 1])
          /\ \A k \in 1..Len(loadedTasks) : R[k - 1] \subseteq R[k]
      BY <1>2, RoundsGrow
    <3>2. n + 1 - 1 = n
      BY <1>2
    <3> HIDE DEF R
    <3> QED
      BY <2>5, <3>1, <3>2
  <2>7. Admitted \subseteq R[n]
    BY <2>1 DEF Underway
  <2>8. Admitted' \subseteq R[n + 1]
    <3>1. ASSUME status = "admitted" PROVE t.id \in R[n + 1]
      <4>1. t.dependsOn \subseteq Admitted
        BY <1>4, <3>1 DEF Kd!FailedDependency, Kd!Ready
      <4>2. t.dependsOn \subseteq R[n] /\ Kd!Usable(t)
        BY <2>7, <3>1, <4>1
      <4>3. t.id \in Round(loadedTasks, R[n])
        BY <4>2 DEF Round
      <4> QED
        BY <2>6, <4>3
    <3> HIDE DEF R, t
    <3> QED
      BY <1>3, <2>6, <2>7, <3>1
  <2>9. Swept'
    BY <1>1 DEF Swept
  <2>10. Justified'
    <3> SUFFICES ASSUME NEW j \in DOMAIN loadedTasks, loadedTasks[j].id \in failed'
                 PROVE  \/ ~Kd!Usable(loadedTasks[j])
                        \/ loadedTasks[j].dependsOn \cap failed' # {}
      BY <1>1, FreeKept DEF Justified, Kd!FailedDependency
    <3>1. failed \subseteq failed'
      BY <1>1
    <3>2. CASE loadedTasks[j].id \in failed
      BY <2>1, <3>1, <3>2 DEF Underway, Justified, Kd!FailedDependency
    <3>3. CASE loadedTasks[j].id \notin failed
      <4>1. loadedTasks[j].id = t.id /\ status = "blocked"
        BY <1>1, <3>3
      <4>2. j = i
        BY <1>2, <1>5, <4>1, KdUnique
      <4> QED
        BY <3>1, <4>1, <4>2 DEF Kd!FailedDependency
    <3> QED
      BY <3>2, <3>3
  <2>11. KdIds' = KdIds /\ Kd!Rounds(loadedTasks)' = R
    BY <1>1, FreeKept
  <2> QED
    BY <1>1, <1>3, <2>2, <2>5, <2>8, <2>9, <2>10, <2>11 DEF Underway
<1> QED
  BY <1>1, <1>5, FreeKept DEF FreeInv, Kd!Planned

\* When plan() returns no task is left out that could be admitted.
LEMMA FreeEndPlan == ASSUME KdInv, FreeInv, Kd!EndPlan PROVE FreeInv'
<1>1. /\ kdPc = "planning" /\ kdPc' \in {"running", "idle"} /\ loadedTasks' = loadedTasks
      /\ providers' = providers
      /\ remaining = {} \/ cursor > Len(loadedTasks)
      /\ remaining # {} => ~progressed
  BY DEF Kd!EndPlan, Kd!SweepOver
<1>2. Admitted' = Admitted
  <2>1. KdInv'
    BY KdEndPlan
  <2>2. completed' = completed /\ failed' = failed
    BY DEF Kd!EndPlan
  <2> QED
    BY <2>1, <2>2 DEF KdInv, Decided
<1>3. ASSUME Kd!UniqueIds(loadedTasks) PROVE Final'
  <2>1. Underway
    BY <1>1, <1>3 DEF FreeInv
  <2>2. /\ loadedTasks \in Seq(KdTask) /\ Len(loadedTasks) \in Nat
        /\ DOMAIN loadedTasks = 1..Len(loadedTasks) /\ Len(scheduled) \in Nat
    BY DEF KdInv, KdTypeOK
  <2>3. Admitted \subseteq Kd!Reference(loadedTasks)
    <3>1. IsFiniteSet(remaining)
      <4>1. IsFiniteSet(KdIds)
        BY <2>2, KdFinite DEF KdIds
      <4> QED
        BY <2>1, <4>1, FS_Subset DEF Underway
    <3>2. Cardinality(remaining) \in Nat
      BY <3>1, FS_CardinalityType
    <3>3. Len(scheduled) \in 0..Len(loadedTasks)
      BY <2>1, <2>2, <3>2 DEF Underway
    <3>4. \A n \in 0..Len(loadedTasks) :
            Kd!Rounds(loadedTasks)[n] \subseteq Kd!Rounds(loadedTasks)[Len(loadedTasks)]
      BY <2>2, RoundsGrow
    <3>5. Kd!Rounds(loadedTasks)[Len(scheduled)]
            \subseteq Kd!Rounds(loadedTasks)[Len(loadedTasks)]
      BY <3>3, <3>4
    <3> QED
      BY <2>1, <3>5 DEF Underway, Kd!Reference
  <2>4. ASSUME NEW i \in DOMAIN loadedTasks, Kd!Usable(loadedTasks[i]),
               loadedTasks[i].dependsOn \subseteq Admitted
        PROVE  loadedTasks[i].id \in Admitted
    <3>1. Admitted = completed \ failed /\ loadedTasks[i].id \in completed \cup remaining
      BY <2>1 DEF KdInv, Decided, Underway, KdIds, Kd!Ids
    <3>2. loadedTasks[i].id \notin remaining
      <4> SUFFICES ASSUME loadedTasks[i].id \in remaining PROVE FALSE
        OBVIOUS
      <4>1. ~progressed /\ i < cursor
        BY <1>1, <2>1, <2>2 DEF Underway
      <4>2. ~Kd!Ready(loadedTasks[i])
        BY <2>1, <4>1 DEF Underway, Swept
      <4> QED
        BY <2>4, <3>1, <4>2 DEF Kd!Ready
    <3>3. loadedTasks[i].id \notin failed
      <4> SUFFICES ASSUME loadedTasks[i].id \in failed PROVE FALSE
        OBVIOUS
      <4>1. Kd!FailedDependency(loadedTasks[i])
        BY <2>1, <2>4 DEF Underway, Justified
      <4> QED
        BY <2>4, <3>1, <4>1 DEF Kd!FailedDependency
    <3> QED
      BY <3>1, <3>2, <3>3
  <2> QED
    BY <1>1, <1>2, <2>3, <2>4, FreeKept DEF Final
<1> QED
  BY <1>1, <1>3, FreeKept DEF FreeInv

LEMMA FreeNext == ASSUME KdInv, FreeInv, [Kd!Next]_(Kd!vars) PROVE FreeInv'
<1>1. CASE Kd!Load
  BY <1>1 DEF Kd!Load, FreeInv, Kd!Planned
<1>2. CASE Kd!Plan("plan") \/ Kd!Plan("run")
  BY <1>2, FreePlan
<1>3. CASE Kd!Visit
  <2>1. PICK i \in DOMAIN loadedTasks :
          LET t == loadedTasks[i]
          IN i = cursor /\ (\/ Kd!Skip(t) \/ Kd!BlockDependent(t) \/ Kd!BlockUnregistered(t)
                            \/ Kd!BlockUnavailable(t) \/ Kd!Admit(t))
    BY <1>3 DEF Kd!Visit
  <2>2. CASE Kd!Skip(loadedTasks[i])
    BY <2>1, <2>2, FreeSkip
  <2>3. CASE Kd!BlockDependent(loadedTasks[i])
    <3>1. "dependency_failed" \in Details
      BY DEF Details
    <3> QED
      BY <2>1, <2>3, <3>1, FreeDecide DEF Kd!BlockDependent
  <2>4. CASE Kd!BlockUnregistered(loadedTasks[i])
    <3>1. "provider_not_registered" \in Details /\ ~Kd!Usable(loadedTasks[i])
      BY <2>4 DEF Details, Kd!BlockUnregistered, Kd!Usable
    <3> QED
      BY <2>1, <2>4, <3>1, FreeDecide DEF Kd!BlockUnregistered
  <2>5. CASE Kd!BlockUnavailable(loadedTasks[i])
    <3>1. "provider_not_available" \in Details /\ ~Kd!Usable(loadedTasks[i])
      BY <2>5 DEF Details, Kd!BlockUnavailable, Kd!Usable
    <3> QED
      BY <2>1, <2>5, <3>1, FreeDecide DEF Kd!BlockUnavailable
  <2>6. CASE Kd!Admit(loadedTasks[i])
    <3>1. "driver_provider_ready" \in Details
      BY DEF Details
    <3> QED
      BY <2>1, <2>6, <3>1, FreeDecide DEF Kd!Admit
  <2> QED
    BY <2>1, <2>2, <2>3, <2>4, <2>5, <2>6
<1>4. CASE Kd!NextSweep
  <2>1. /\ kdPc = "planning" /\ kdPc' = kdPc /\ loadedTasks' = loadedTasks
        /\ providers' = providers /\ scheduled' = scheduled /\ cursor' = 1
        /\ completed' = completed /\ failed' = failed /\ remaining' = remaining
    BY <1>4 DEF Kd!NextSweep, Kd!SweepOver
  <2>2. Admitted' = Admitted
    BY <2>1 DEF Admitted, Kd!WithStatus
  <2>3. ASSUME Kd!UniqueIds(loadedTasks) PROVE Underway'
    <3>1. Underway
      BY <2>1, <2>3 DEF FreeInv
    <3>2. Swept'
      <4>1. \A i \in DOMAIN loadedTasks : ~(i < 1)
        BY DEF KdInv, KdTypeOK
      <4> QED
        BY <2>1, <4>1 DEF Swept
    <3>3. Justified'
      BY <2>1, <3>1, FreeKept DEF Underway, Justified, Kd!FailedDependency
    <3> QED
      BY <2>1, <2>2, <3>1, <3>2, <3>3, FreeKept DEF Underway
  <2> QED
    BY <2>1, <2>3, FreeKept DEF FreeInv, Kd!Planned
<1>5. CASE Kd!EndPlan
  BY <1>5, FreeEndPlan
<1>6. CASE Kd!RunOne \/ Kd!EndRun
  <2>1. /\ kdPc = "running" /\ kdPc' \in {"running", "idle"} /\ loadedTasks' = loadedTasks
        /\ providers' = providers /\ scheduled' = scheduled
    BY <1>6 DEF Kd!RunOne, Kd!EndRun, Kd!planVars
  <2> QED
    BY <2>1, FreeKept, FinalKept DEF FreeInv, Kd!Planned
<1>7. CASE UNCHANGED Kd!vars
  <2>1. /\ kdPc' = kdPc /\ call' = call /\ loadedTasks' = loadedTasks
        /\ providers' = providers /\ scheduled' = scheduled /\ cursor' = cursor
        /\ progressed' = progressed /\ completed' = completed /\ failed' = failed
        /\ remaining' = remaining
    BY <1>7 DEF Kd!vars, Kd!planVars
  <2>2. Admitted' = Admitted
    BY <2>1 DEF Admitted, Kd!WithStatus
  <2>3. ASSUME Underway PROVE Underway'
    <3>1. Swept' /\ Justified'
      BY <2>1, <2>3, FreeKept DEF Underway, Swept, Justified, Kd!Ready, Kd!FailedDependency
    <3> QED
      BY <2>1, <2>2, <2>3, <3>1, FreeKept DEF Underway
  <2> QED
    BY <2>1, <2>3, FreeKept, FinalKept DEF FreeInv, Kd!Planned
<1> QED
  BY <1>1, <1>2, <1>3, <1>4, <1>5, <1>6, <1>7 DEF Kd!Next, Kd!Work

\* kd admits exactly the tasks that can be admitted, whatever the order of the
\* list: the rounds of the reference do not know it.
THEOREM KdVerdictOrderFree == DriversSpec => []VerdictOrderFree
<1>1. Kd!Init => FreeInv
  BY DEF Kd!Init, FreeInv, Kd!Planned
<1>2. KdInv /\ FreeInv /\ [Kd!Next]_(Kd!vars) => FreeInv'
  BY FreeNext
<1>3. KdInv /\ FreeInv => VerdictOrderFree
  BY FinalIsReference DEF FreeInv, VerdictOrderFree, Kd!VerdictOrderFree, Admitted
<1> QED
  BY <1>1, <1>2, <1>3, KdInductive, HostRunsKd, PTL DEF Kd!Spec
=============================================================================
