------------------------- MODULE WasmRuntimeProofs -------------------------
(***************************************************************************)
(* Proofs about WasmRuntime, for every configuration that the runtime      *)
(* accepts and every set of modules, binaries and ids: the counter of      *)
(* active instances and the limit it enforces.                             *)
(***************************************************************************)
EXTENDS WasmRuntime, SetInduction, FiniteSetTheorems, TLAPS

(* What the counter says, with the types it needs.                         *)
RuntimeInv == TypeOK /\ InstancesCounted

(* There are finitely many instances.                                      *)
LEMMA LiveIsFinite ==
  IsFiniteSet(Live) /\ Cardinality(Live) \in Nat
<1>1. Live \subseteq Ids
  BY DEF Live
<1> QED
  BY <1>1, RuntimeAssumption, FS_Subset, FS_CardinalityType

(* The configuration's limits are numbers.                                 *)
LEMMA Limits ==
  /\ Config.max_instances \in Nat
  /\ Config.max_execution_time \in Nat
  /\ Config.fuel_budget \in Nat
BY RuntimeAssumption DEF WasmRuntimeConfig

(* The first state: no instance, no time, no count.                        *)
LEMMA InitInv ==
  ASSUME Init
  PROVE  RuntimeInv
<1>1. Live = {} /\ Cardinality(Live) = 0
  BY FS_EmptySet DEF Init, Live
<1>2. TypeOK
  BY Limits DEF Init, NewContext, TypeOK
<1> QED
  BY <1>1, <1>2, Limits DEF Init, NewContext, RuntimeInv, InstancesCounted

(* A step that leaves the instances where they are keeps the count.        *)
LEMMA SameInstances ==
  ASSUME RuntimeInv, TypeOK', Live' = Live, UNCHANGED <<active, leaked>>
  PROVE  RuntimeInv'
BY DEF RuntimeInv, InstancesCounted

(* load_module, remove_module and reset_session.                           *)
LEMMA ModuleSteps ==
  ASSUME RuntimeInv,
         NEW m \in ModuleIds,
         \/ \E b \in Binaries : load_module(m, b)
         \/ remove_module(m)
         \/ reset_session
  PROVE  RuntimeInv'
<1>1. TypeOK'
  BY Limits DEF RuntimeInv, TypeOK, load_module, remove_module, reset_session
<1>2. Live' = Live /\ UNCHANGED <<active, leaked>>
  BY DEF load_module, remove_module, reset_session, Live
<1> QED
  BY <1>1, <1>2, SameInstances

(* create_instance: one more, or one taken over and counted twice.         *)
LEMMA CreateStep ==
  ASSUME RuntimeInv, NEW m \in ModuleIds, NEW i \in Ids, create_instance(m, i)
  PROVE  RuntimeInv'
<1> DEFINE left == IF Config.fuel_budget = 0 THEN 0
                   ELSE Config.fuel_budget - modules[m].start
<1>1. left \in Nat
  <2>1. modules[m] \in BinaryType
    BY BinariesAssumption DEF create_instance, RuntimeInv, TypeOK
  <2>2. modules[m].start \in Nat
    BY <2>1 DEF BinaryType
  <2> QED
    BY <2>2, Limits DEF create_instance
<1>2. instances' = [instances EXCEPT ![i] = Instance(m, left, 0)]
  BY DEF create_instance
<1> HIDE DEF left
<1>3. Instance(m, left, 0) \in InstanceType /\ Instance(m, left, 0) # None
  BY <1>1, RuntimeAssumption DEF Instance, InstanceType
<1>4. Live' = Live \cup {i}
  BY <1>2, <1>3 DEF Live, RuntimeInv, TypeOK
<1>5. Cardinality(Live') = IF i \in Live THEN Cardinality(Live)
                           ELSE Cardinality(Live) + 1
  BY <1>4, LiveIsFinite, FS_AddElement
<1>6. TypeOK'
  BY <1>2, <1>3 DEF create_instance, RuntimeInv, TypeOK
<1>7. active + 1 <= Config.max_instances
  BY Limits DEF create_instance, check_instance_limit, RuntimeInv, TypeOK
<1> QED
  BY <1>5, <1>6, <1>7, LiveIsFinite, Limits
     DEF create_instance, RuntimeInv, TypeOK, InstancesCounted

(* A call leaves its instance in place and the time within the limit.      *)
LEMMA CallStep ==
  ASSUME RuntimeInv, NEW i \in Ids, CallFails(i) \/ CallReturns(i)
  PROVE  RuntimeInv'
<1>1. i \in Live /\ UNCHANGED <<modules, active, created, leaked>>
  BY DEF CallFails, CallReturns
<1>2. PICK fuel \in 0 .. Grant(i) : Spend(i, fuel)
  BY DEF CallFails, CallReturns
<1>3. /\ instances[i] \in InstanceType
      /\ instances[i].left \in Nat /\ instances[i].consumed \in Nat
  BY <1>1 DEF Live, RuntimeInv, TypeOK, InstanceType
<1> DEFINE new == [instances[i] EXCEPT !.left = Grant(i) - fuel,
                                       !.consumed = @ + fuel]
<1>4. fuel \in Nat /\ Grant(i) - fuel \in Nat
  BY <1>2, <1>3 DEF Grant
<1>5. new \in InstanceType /\ new # None
  <2> DEFINE left == Grant(i) - fuel
             total == instances[i].consumed + fuel
  <2>0. left \in Nat /\ total \in Nat
    BY <1>3, <1>4
  <2>1. new \in InstanceType
    <3> HIDE DEF left, total
    <3>1. [instances[i] EXCEPT !.left = left, !.consumed = total] \in InstanceType
      BY <1>3, <2>0 DEF InstanceType
    <3> QED
      BY <3>1 DEF left, total
  <2> QED
    BY <2>1, RuntimeAssumption
<1>6. instances' = [instances EXCEPT ![i] = new]
  BY <1>2, <1>3 DEF Spend, RuntimeInv, TypeOK
<1> HIDE DEF new
<1>7. Live' = Live
  BY <1>1, <1>5, <1>6 DEF Live, RuntimeInv, TypeOK
<1>8. instances' \in [Ids -> InstanceType \cup {None}] /\ burnt' \in Nat
  <2>1. instances' \in [Ids -> InstanceType \cup {None}]
    BY <1>5, <1>6 DEF RuntimeInv, TypeOK
  <2>2. burnt' \in Nat
    BY <1>2, <1>4 DEF Spend, RuntimeInv, TypeOK
  <2> QED
    BY <2>1, <2>2
<1>9. cpu' \in 0 .. Config.max_execution_time
  BY RuntimeAssumption, Limits
     DEF CallFails, CallReturns, check_cpu_time_limit, Second, RuntimeInv,
         TypeOK
<1>10. TypeOK'
  BY <1>1, <1>8, <1>9 DEF RuntimeInv, TypeOK
<1> QED
  BY <1>1, <1>7, <1>10, SameInstances

(* remove_instance takes the instance off the counter, shutdown_instance   *)
(* does not.                                                               *)
LEMMA RemoveStep ==
  ASSUME RuntimeInv, NEW i \in Ids, remove_instance(i) \/ shutdown_instance(i)
  PROVE  RuntimeInv'
<1>1. i \in Live /\ instances' = [instances EXCEPT ![i] = None]
  BY DEF remove_instance, shutdown_instance
<1>2. Live' = Live \ {i}
  BY <1>1 DEF Live, RuntimeInv, TypeOK
<1>3. Cardinality(Live') = Cardinality(Live) - 1 /\ Cardinality(Live') \in Nat
  BY <1>1, <1>2, LiveIsFinite, FS_RemoveElement, FS_CardinalityType
<1>4. TypeOK'
  BY <1>1 DEF remove_instance, shutdown_instance, RuntimeInv, TypeOK
<1> QED
  BY <1>3, <1>4, LiveIsFinite, Limits
     DEF remove_instance, shutdown_instance, RuntimeInv, TypeOK,
         InstancesCounted

(* unload_application: all instances of a module go uncounted.             *)
LEMMA UnloadStep ==
  ASSUME RuntimeInv, NEW m \in ModuleIds, unload_application(m)
  PROVE  RuntimeInv'
<1>1. Of(m) \subseteq Live
  BY DEF Of
<1>2. Live' = Live \ Of(m)
  BY DEF unload_application, Live, Of
<1>3. Live \cap Of(m) = Of(m)
  BY <1>1
<1>4. IsFiniteSet(Of(m)) /\ Cardinality(Of(m)) \in Nat
  BY <1>1, LiveIsFinite, FS_Subset, FS_CardinalityType
<1>5. Cardinality(Live') = Cardinality(Live) - Cardinality(Of(m))
  <2>1. Cardinality(Live \ Of(m)) = Cardinality(Live) - Cardinality(Live \cap Of(m))
    BY LiveIsFinite, FS_Difference, Zenon
  <2> QED
    BY <2>1, <1>2, <1>3
<1>6. TypeOK'
  BY <1>4 DEF unload_application, RuntimeInv, TypeOK
<1> QED
  BY <1>4, <1>5, <1>6, LiveIsFinite, Limits
     DEF unload_application, RuntimeInv, TypeOK, InstancesCounted

(* shutdown: nothing is left, and nothing counted.                         *)
LEMMA ShutdownStep ==
  ASSUME RuntimeInv, shutdown
  PROVE  RuntimeInv'
<1>1. Live' = {} /\ Cardinality(Live') = 0
  BY FS_EmptySet DEF shutdown, Live
<1>2. TypeOK'
  BY DEF shutdown, RuntimeInv, TypeOK
<1> QED
  BY <1>1, <1>2, Limits DEF shutdown, RuntimeInv, InstancesCounted

(* The invariant is inductive.                                             *)
LEMMA NextInv ==
  ASSUME RuntimeInv, [Next]_vars
  PROVE  RuntimeInv'
<1>1. CASE UNCHANGED vars
  BY <1>1 DEF vars, RuntimeInv, TypeOK, InstancesCounted, Live
<1>2. ASSUME NEW m \in ModuleIds,
             \/ \E b \in Binaries : load_module(m, b)
             \/ \E i \in Ids : create_instance(m, i)
             \/ remove_module(m)
             \/ unload_application(m)
      PROVE  RuntimeInv'
  BY <1>2, ModuleSteps, CreateStep, UnloadStep
<1>3. ASSUME NEW i \in Ids,
             \/ CallFails(i) \/ CallReturns(i)
             \/ remove_instance(i) \/ shutdown_instance(i)
      PROVE  RuntimeInv'
  BY <1>3, CallStep, RemoveStep
<1>4. CASE reset_session
  <2>1. TypeOK'
    BY <1>4, Limits DEF RuntimeInv, TypeOK, reset_session
  <2>2. Live' = Live /\ UNCHANGED <<active, leaked>>
    BY <1>4 DEF reset_session, Live
  <2> QED
    BY <2>1, <2>2, SameInstances
<1>5. CASE shutdown
  BY <1>5, ShutdownStep
<1> QED
  BY <1>1, <1>2, <1>3, <1>4, <1>5 DEF Next

(* Every behaviour keeps types and count.                                  *)
LEMMA AlwaysRuntimeInv == Spec => []RuntimeInv
<1>1. Init => RuntimeInv
  BY InitInv
<1>2. RuntimeInv /\ [Next]_vars => RuntimeInv'
  BY NextInv
<1> QED
  BY <1>1, <1>2, PTL DEF Spec

(* The runtime's state keeps its types, and the session's CPU time never   *)
(* passes the limit that call_function checks before and after a call.     *)
THEOREM RuntimeTypes == Spec => []TypeOK
<1>1. RuntimeInv => TypeOK
  BY DEF RuntimeInv
<1> QED
  BY <1>1, AlwaysRuntimeInv, PTL

(* active_instances is the number of live instances plus those that went   *)
(* uncounted through shutdown_instance, unload_application or a take-over. *)
THEOREM CounterIsExact == Spec => []InstancesCounted
<1>1. RuntimeInv => InstancesCounted
  BY DEF RuntimeInv
<1> QED
  BY <1>1, AlwaysRuntimeInv, PTL

(* No sequence of calls brings a device over max_instances, although the   *)
(* counter that create_instance checks drifts from the number of instances. *)
THEOREM InstancesAreBounded == Spec => []InstanceBound
<1>1. RuntimeInv => InstanceBound
  BY LiveIsFinite, Limits DEF RuntimeInv, TypeOK, InstancesCounted, InstanceBound
<1> QED
  BY <1>1, AlwaysRuntimeInv, PTL

----------------------------------------------------------------------------
(* Fuel.  Sums over the ids change as their summands do.                   *)

(* The partial sums behind Total: over every set of ids, taking off one    *)
(* element after the other.                                                *)
Pick(s) == CHOOSE x \in s : TRUE

Summand(v, g, s) == IF s = {} THEN 0 ELSE v[Pick(s)] + g[s \ {Pick(s)}]

Sums(v) == CHOOSE g : g = [s \in SUBSET Ids |-> Summand(v, g, s)]

(* Total is the last of them.                                              *)
LEMMA TotalIsSum ==
  ASSUME NEW v
  PROVE  Total(v) = Sums(v)[Ids]
BY DEF Total, Sums, Summand, Pick, MapThenSumSet, MapThenFoldSet

(* The sets of ids are finite.                                             *)
LEMMA SubsetsAreFinite ==
  ASSUME NEW s \in SUBSET Ids
  PROVE  IsFiniteSet(s) /\ Cardinality(s) \in Nat
BY RuntimeAssumption, FS_Subset, FS_CardinalityType

(* Picking from a nonempty set leaves a set of one element less.           *)
LEMMA PickFacts ==
  ASSUME NEW s \in SUBSET Ids, s # {}
  PROVE  /\ Pick(s) \in s
         /\ s \ {Pick(s)} \in SUBSET Ids
         /\ Cardinality(s \ {Pick(s)}) = Cardinality(s) - 1
<1>1. Pick(s) \in s
  BY DEF Pick
<1> QED
  BY <1>1, SubsetsAreFinite, FS_RemoveElement

(* Partial sums over the sets of at most n ids.                            *)
Upto(n) == {s \in SUBSET Ids : Cardinality(s) <= n}

SumsUpto(v, n, g) == g = [s \in Upto(n) |-> Summand(v, g, s)]

(* The empty set has the sum 0.                                            *)
LEMMA SumsUptoNone ==
  ASSUME NEW v
  PROVE  SumsUpto(v, 0, [s \in Upto(0) |-> 0])
<1>1. ASSUME NEW s \in Upto(0)
      PROVE  s = {}
  <2>1. Cardinality(s) = 0 /\ IsFiniteSet(s)
    BY SubsetsAreFinite DEF Upto
  <2> QED
    BY <2>1, FS_EmptySet
<1> QED
  BY <1>1 DEF SumsUpto, Summand

(* Sums over the sets of at most n ids give those over n + 1.              *)
LEMMA SumsUptoNext ==
  ASSUME NEW v, NEW n \in Nat, NEW g, SumsUpto(v, n, g)
  PROVE  SumsUpto(v, n + 1, [s \in Upto(n + 1) |-> Summand(v, g, s)])
<1> DEFINE h == [s \in Upto(n + 1) |-> Summand(v, g, s)]
<1>1. ASSUME NEW s \in Upto(n)
      PROVE  s \in Upto(n + 1) /\ h[s] = g[s]
  <2>1. s \in Upto(n + 1)
    BY SubsetsAreFinite DEF Upto
  <2> QED
    BY <2>1 DEF SumsUpto
<1>2. ASSUME NEW s \in Upto(n + 1)
      PROVE  Summand(v, g, s) = Summand(v, h, s)
  <2>1. CASE s = {}
    BY <2>1 DEF Summand
  <2>2. CASE s # {}
    <3>1. s \ {Pick(s)} \in Upto(n)
      BY <2>2, PickFacts, SubsetsAreFinite DEF Upto
    <3>2. g[s \ {Pick(s)}] = h[s \ {Pick(s)}]
      BY <3>1, <1>1
    <3> QED
      BY <3>2 DEF Summand
  <2> QED
    BY <2>1, <2>2
<1> QED
  BY <1>2 DEF SumsUpto

(* There are partial sums: they are found for sets of one element, of two, *)
(* and so on.                                                              *)
LEMMA SumsDefined ==
  ASSUME NEW v
  PROVE  Sums(v) = [s \in SUBSET Ids |-> Summand(v, Sums(v), s)]
<1> DEFINE P == {n \in Nat : \E g : SumsUpto(v, n, g)}
<1>1. 0 \in P
  BY SumsUptoNone
<1>2. ASSUME NEW n \in P
      PROVE  n + 1 \in P
  <2>1. n \in Nat /\ \E g : SumsUpto(v, n, g)
    OBVIOUS
  <2>2. PICK g : SumsUpto(v, n, g)
    BY <2>1
  <2>3. \E h : SumsUpto(v, n + 1, h)
    BY <2>1, <2>2, SumsUptoNext
  <2> QED
    BY <2>1, <2>3
<1>3. P = Nat
  <2> HIDE DEF P
  <2>1. P \in SUBSET Nat
    BY DEF P
  <2> QED
    BY <1>1, <1>2, <2>1, NatSetInduction
<1>4. Cardinality(Ids) \in Nat /\ Upto(Cardinality(Ids)) = SUBSET Ids
  <2>1. ASSUME NEW s \in SUBSET Ids
        PROVE  Cardinality(s) <= Cardinality(Ids)
    BY RuntimeAssumption, FS_Subset
  <2> QED
    BY <2>1, RuntimeAssumption, FS_CardinalityType DEF Upto
<1>5. PICK g : SumsUpto(v, Cardinality(Ids), g)
  BY <1>3, <1>4
<1>6. g = [s \in SUBSET Ids |-> Summand(v, g, s)]
  BY <1>4, <1>5, Zenon DEF SumsUpto
<1> QED
  BY <1>6, Zenon DEF Sums

(* The sum of the empty set is 0, that of another one is the summand that  *)
(* is picked and the sum of the rest.                                      *)
LEMMA SumsStep ==
  ASSUME NEW v
  PROVE  /\ Sums(v)[{}] = 0
         /\ \A s \in SUBSET Ids :
              s # {} => Sums(v)[s] = v[Pick(s)] + Sums(v)[s \ {Pick(s)}]
<1>1. \A s \in SUBSET Ids : Sums(v)[s] = Summand(v, Sums(v), s)
  BY SumsDefined, Zenon
<1> QED
  BY <1>1 DEF Summand

(* Partial sums of numbers are numbers.                                    *)
LEMMA SumsAreNumbers ==
  ASSUME NEW v \in [Ids -> Nat], NEW s \in SUBSET Ids
  PROVE  Sums(v)[s] \in Nat
<1> DEFINE P == {t \in SUBSET Ids : Sums(v)[t] \in Nat}
<1>1. {} \in P
  BY SumsStep
<1>2. ASSUME NEW t \in SUBSET Ids, t # {}, t \ {Pick(t)} \in P
      PROVE  t \in P
  <2>1. Pick(t) \in Ids
    BY <1>2, PickFacts
  <2>2. Sums(v)[t] = v[Pick(t)] + Sums(v)[t \ {Pick(t)}]
    BY <1>2, SumsStep
  <2>3. v[Pick(t)] \in Nat
    BY <2>1
  <2> QED
    BY <1>2, <2>2, <2>3
<1>3. \A t \in SUBSET Ids : t # {} => \E x \in t : t \ {x} \in P => t \in P
  BY <1>2, PickFacts
<1>4. P = SUBSET Ids
  <2>1. P \in SUBSET (SUBSET Ids)
    OBVIOUS
  <2> HIDE DEF P
  <2> QED
    BY <1>1, <1>3, <2>1, RuntimeAssumption, SubsetInduction
<1> QED
  BY <1>4

(* No summand, no total.                                                   *)
LEMMA TotalOfNone ==
  Total([i \in Ids |-> 0]) = 0
<1> DEFINE zero == [i \in Ids |-> 0]
           P == {t \in SUBSET Ids : Sums(zero)[t] = 0}
<1>1. {} \in P
  BY SumsStep
<1>2. ASSUME NEW t \in SUBSET Ids, t # {}, t \ {Pick(t)} \in P
      PROVE  t \in P
  <2>1. Pick(t) \in Ids
    BY <1>2, PickFacts
  <2>2. Sums(zero)[t] = zero[Pick(t)] + Sums(zero)[t \ {Pick(t)}]
    BY <1>2, SumsStep
  <2> QED
    BY <1>2, <2>1, <2>2
<1>3. \A t \in SUBSET Ids : t # {} => \E x \in t : t \ {x} \in P => t \in P
  BY <1>2, PickFacts
<1>4. P = SUBSET Ids
  <2>1. P \in SUBSET (SUBSET Ids)
    OBVIOUS
  <2> HIDE DEF P
  <2> QED
    BY <1>1, <1>3, <2>1, RuntimeAssumption, SubsetInduction
<1>5. Ids \in P
  BY <1>4
<1> QED
  BY <1>5, TotalIsSum

(* A larger function has a larger total.                                   *)
LEMMA TotalGrows ==
  ASSUME NEW v \in [Ids -> Nat], NEW w \in [Ids -> Nat],
         \A i \in Ids : v[i] <= w[i]
  PROVE  Total(v) <= Total(w)
<1> DEFINE P == {t \in SUBSET Ids : Sums(v)[t] <= Sums(w)[t]}
<1>1. {} \in P
  BY SumsStep
<1>2. ASSUME NEW t \in SUBSET Ids, t # {}, t \ {Pick(t)} \in P
      PROVE  t \in P
  <2>1. Pick(t) \in Ids
    BY <1>2, PickFacts
  <2>2. /\ Sums(v)[t] = v[Pick(t)] + Sums(v)[t \ {Pick(t)}]
        /\ Sums(w)[t] = w[Pick(t)] + Sums(w)[t \ {Pick(t)}]
    BY <1>2, SumsStep
  <2>3. Sums(v)[t \ {Pick(t)}] \in Nat /\ Sums(w)[t \ {Pick(t)}] \in Nat
    BY SumsAreNumbers
  <2>4. v[Pick(t)] <= w[Pick(t)] /\ v[Pick(t)] \in Nat /\ w[Pick(t)] \in Nat
    BY <2>1
  <2> QED
    BY <1>2, <2>2, <2>3, <2>4
<1>3. \A t \in SUBSET Ids : t # {} => \E x \in t : t \ {x} \in P => t \in P
  BY <1>2, PickFacts
<1>4. P = SUBSET Ids
  <2>1. P \in SUBSET (SUBSET Ids)
    OBVIOUS
  <2> HIDE DEF P
  <2> QED
    BY <1>1, <1>3, <2>1, RuntimeAssumption, SubsetInduction
<1>5. Ids \in P
  BY <1>4
<1> QED
  BY <1>5, TotalIsSum

(* Two functions that differ at one id have totals that differ by as much. *)
LEMMA TotalChanges ==
  ASSUME NEW v \in [Ids -> Nat], NEW w \in [Ids -> Nat], NEW i \in Ids,
         \A j \in Ids \ {i} : v[j] = w[j]
  PROVE  Total(v) + w[i] = Total(w) + v[i]
<1> DEFINE Same(t) == Sums(v)[t] = Sums(w)[t]
           Off(t) == Sums(v)[t] + w[i] = Sums(w)[t] + v[i]
           P == {t \in SUBSET Ids : IF i \in t THEN Off(t) ELSE Same(t)}
<1>1. {} \in P
  BY SumsStep
<1>2. ASSUME NEW t \in SUBSET Ids, t # {}, t \ {Pick(t)} \in P
      PROVE  t \in P
  <2> DEFINE x == Pick(t)
             r == t \ {Pick(t)}
  <2>1. x \in t /\ x \in Ids /\ r \in SUBSET Ids
    BY <1>2, PickFacts
  <2>2. Sums(v)[t] = v[x] + Sums(v)[r] /\ Sums(w)[t] = w[x] + Sums(w)[r]
    BY <1>2, SumsStep
  <2>3. Sums(v)[r] \in Nat /\ Sums(w)[r] \in Nat
    BY SumsAreNumbers
  <2>4. v[x] \in Nat /\ w[x] \in Nat /\ v[i] \in Nat /\ w[i] \in Nat
    BY <2>1
  <2>5. CASE x = i
    <3>1. i \notin r /\ i \in t
      BY <2>1, <2>5
    <3>2. Same(r)
      BY <1>2, <3>1
    <3>3. Off(t)
      BY <2>2, <2>3, <2>4, <2>5, <3>2
    <3> QED
      BY <3>1, <3>3
  <2>6. CASE x # i
    <3>1. (i \in t <=> i \in r) /\ v[x] = w[x]
      BY <2>1, <2>6
    <3>2. CASE i \in t
      <4>1. Off(r)
        BY <1>2, <3>1, <3>2
      <4>2. Off(t)
        BY <2>2, <2>3, <2>4, <3>1, <4>1
      <4> QED
        BY <3>2, <4>2
    <3>3. CASE i \notin t
      <4>1. Same(r)
        BY <1>2, <3>1, <3>3
      <4>2. Same(t)
        BY <2>2, <2>3, <2>4, <3>1, <4>1
      <4> QED
        BY <3>3, <4>2
    <3> QED
      BY <3>2, <3>3
  <2> QED
    BY <2>5, <2>6
<1>3. \A t \in SUBSET Ids : t # {} => \E x \in t : t \ {x} \in P => t \in P
  BY <1>2, PickFacts
<1>4. P = SUBSET Ids
  <2>1. P \in SUBSET (SUBSET Ids)
    OBVIOUS
  <2> HIDE DEF P
  <2> QED
    BY <1>1, <1>3, <2>1, RuntimeAssumption, SubsetInduction
<1>5. Ids \in P
  BY <1>4
<1> QED
  BY <1>5, TotalIsSum

----------------------------------------------------------------------------
(* The invariant with the fuel.                                            *)
FuelInv == RuntimeInv /\ FuelBounded /\ FuelReported

(* What is held and reported is a number under every id.                   *)
LEMMA FuelTypes ==
  ASSUME TypeOK, TypeOK'
  PROVE  /\ Held \in [Ids -> Nat] /\ Held' \in [Ids -> Nat]
         /\ Reported \in [Ids -> Nat] /\ Reported' \in [Ids -> Nat]
<1>1. Held \in [Ids -> Nat] /\ Reported \in [Ids -> Nat]
  BY DEF TypeOK, InstanceType, Held, Reported, Live
<1>2. Held' \in [Ids -> Nat] /\ Reported' \in [Ids -> Nat]
  BY DEF TypeOK, InstanceType, Held, Reported, Live
<1> QED
  BY <1>1, <1>2

(* A total of numbers is a number.                                         *)
LEMMA TotalIsNumber ==
  ASSUME NEW v \in [Ids -> Nat]
  PROVE  Total(v) \in Nat
BY TotalIsSum, SumsAreNumbers

(* In the first state there is no fuel.                                    *)
LEMMA InitFuel ==
  ASSUME Init
  PROVE  FuelInv
<1>1. RuntimeInv /\ Live = {}
  BY InitInv DEF Init, Live
<1> DEFINE zero == [i \in Ids |-> 0]
<1>2. Held = zero /\ Reported = zero
  BY <1>1 DEF Held, Reported
<1>3. Total(zero) = 0
  BY TotalOfNone
<1>4. burnt = 0 /\ created = 0 /\ created * Config.fuel_budget = 0
  BY Limits DEF Init
<1> QED
  BY <1>1, <1>2, <1>3, <1>4 DEF FuelInv, FuelBounded, FuelReported

(* Steps that burn nothing and at most take instances away.                *)
LEMMA FewerInstances ==
  ASSUME FuelInv, RuntimeInv', UNCHANGED <<created, burnt>>,
         \A j \in Ids : instances'[j] = instances[j] \/ instances'[j] = None
  PROVE  FuelInv'
<1>1. TypeOK /\ TypeOK'
  BY DEF FuelInv, RuntimeInv
<1>2. /\ Held \in [Ids -> Nat] /\ Held' \in [Ids -> Nat]
      /\ Reported \in [Ids -> Nat] /\ Reported' \in [Ids -> Nat]
  BY <1>1, FuelTypes
<1>3. \A j \in Ids : Held'[j] <= Held[j] /\ Reported'[j] <= Reported[j]
  <2> SUFFICES ASSUME NEW j \in Ids
               PROVE  Held'[j] <= Held[j] /\ Reported'[j] <= Reported[j]
    OBVIOUS
  <2>1. CASE instances'[j] = None
    <3>1. Held'[j] = 0 /\ Reported'[j] = 0
      BY <2>1 DEF Held, Reported, Live
    <3> QED
      BY <3>1, <1>2
  <2>2. CASE instances'[j] = instances[j]
    <3>1. Held'[j] = Held[j] /\ Reported'[j] = Reported[j]
      BY <2>2 DEF Held, Reported, Live
    <3> QED
      BY <3>1, <1>2
  <2> QED
    BY <2>1, <2>2
<1>4. Total(Held') <= Total(Held) /\ Total(Reported') <= Total(Reported)
  BY <1>2, <1>3, TotalGrows
<1>5. /\ Total(Held) \in Nat /\ Total(Held') \in Nat
      /\ Total(Reported) \in Nat /\ Total(Reported') \in Nat
  BY <1>2, TotalIsNumber
<1>6. \A j \in Live' : j \in Live /\ instances'[j] = instances[j]
  BY DEF Live
<1>7. /\ burnt \in Nat /\ created \in Nat
      /\ created * Config.fuel_budget \in Nat
  BY <1>1, Limits DEF TypeOK
<1>8. burnt' + Total(Held') <= created' * Config.fuel_budget
  BY <1>4, <1>5, <1>7 DEF FuelInv, FuelBounded
<1>9. Total(Reported') <= burnt'
  BY <1>4, <1>5, <1>7 DEF FuelInv, FuelReported
<1>10. \A j \in Live' :
         instances'[j].left + instances'[j].consumed <= Config.fuel_budget
  BY <1>6 DEF FuelInv, FuelBounded
<1>11. FuelBounded'
  BY <1>8, <1>10 DEF FuelBounded
<1>12. FuelReported'
  BY <1>9 DEF FuelReported
<1> QED
  BY <1>11, <1>12 DEF FuelInv

(* A new instance brings at most one budget, and has reported nothing.     *)
LEMMA CreateFuel ==
  ASSUME FuelInv, RuntimeInv',
         NEW m \in ModuleIds, NEW i \in Ids, create_instance(m, i)
  PROVE  FuelInv'
<1>1. TypeOK /\ TypeOK'
  BY DEF FuelInv, RuntimeInv
<1>2. /\ Held \in [Ids -> Nat] /\ Held' \in [Ids -> Nat]
      /\ Reported \in [Ids -> Nat] /\ Reported' \in [Ids -> Nat]
  BY <1>1, FuelTypes
<1> DEFINE left == IF Config.fuel_budget = 0 THEN 0
                   ELSE Config.fuel_budget - modules[m].start
<1>3. left \in Nat /\ left <= Config.fuel_budget
  <2>1. modules[m] \in BinaryType
    BY <1>1, BinariesAssumption DEF create_instance, TypeOK
  <2>2. modules[m].start \in Nat
    BY <2>1 DEF BinaryType
  <2> QED
    BY <2>2, Limits DEF create_instance
<1>4. instances' = [instances EXCEPT ![i] = Instance(m, left, 0)]
  BY DEF create_instance
<1> HIDE DEF left
<1>5. Instance(m, left, 0) # None
  BY <1>3, RuntimeAssumption DEF Instance, InstanceType
<1>6. /\ instances'[i] = Instance(m, left, 0)
      /\ \A j \in Ids \ {i} : instances'[j] = instances[j]
  BY <1>1, <1>4 DEF TypeOK
<1>7. /\ Held'[i] = left /\ Reported'[i] = 0
      /\ \A j \in Ids \ {i} : Held[j] = Held'[j] /\ Reported[j] = Reported'[j]
  BY <1>5, <1>6 DEF Held, Reported, Live, Instance
<1>8. /\ Total(Held) + left = Total(Held') + Held[i]
      /\ Total(Reported) + 0 = Total(Reported') + Reported[i]
  <2>1. Total(Held) + Held'[i] = Total(Held') + Held[i]
    BY <1>2, <1>7, TotalChanges
  <2>2. Total(Reported) + Reported'[i] = Total(Reported') + Reported[i]
    BY <1>2, <1>7, TotalChanges
  <2> QED
    BY <1>7, <2>1, <2>2
<1>9. /\ Total(Held) \in Nat /\ Total(Held') \in Nat
      /\ Total(Reported) \in Nat /\ Total(Reported') \in Nat
      /\ Held[i] \in Nat /\ Reported[i] \in Nat
  BY <1>2, TotalIsNumber
<1>10. /\ burnt' = burnt /\ burnt \in Nat /\ created \in Nat
       /\ created' = created + 1
  BY <1>1 DEF create_instance, TypeOK
<1>11. /\ created * Config.fuel_budget \in Nat
       /\ created' * Config.fuel_budget
            = created * Config.fuel_budget + Config.fuel_budget
  BY <1>10, Limits
<1>12. burnt' + Total(Held') <= created' * Config.fuel_budget
  <2>1. burnt + Total(Held) <= created * Config.fuel_budget
    BY DEF FuelInv, FuelBounded
  <2>2. Total(Held') <= Total(Held) + Config.fuel_budget
    BY <1>3, <1>8, <1>9, Limits
  <2> DEFINE c == created * Config.fuel_budget
             d == created' * Config.fuel_budget
  <2>3. c \in Nat /\ d = c + Config.fuel_budget /\ burnt + Total(Held) <= c
    BY <1>11, <2>1
  <2> HIDE DEF c, d
  <2>4. burnt' + Total(Held') <= d
    BY <1>9, <1>10, <2>2, <2>3, Limits
  <2> QED
    BY <2>4 DEF d
<1>13. Total(Reported') <= burnt'
  BY <1>8, <1>9, <1>10 DEF FuelInv, FuelReported
<1>14. ASSUME NEW j \in Live'
       PROVE  instances'[j].left + instances'[j].consumed <= Config.fuel_budget
  <2>1. CASE j = i
    BY <1>3, <1>6, <2>1, Limits DEF Instance
  <2>2. CASE j # i
    BY <1>6, <2>2 DEF Live, FuelInv, FuelBounded
  <2> QED
    BY <2>1, <2>2
<1>15. FuelBounded'
  BY <1>12, <1>14 DEF FuelBounded
<1>16. FuelReported'
  BY <1>13 DEF FuelReported
<1> QED
  BY <1>15, <1>16 DEF FuelInv

(* A call moves fuel from what its instance holds to what it reports and   *)
(* to the statistics.                                                      *)
LEMMA CallFuel ==
  ASSUME FuelInv, RuntimeInv', NEW i \in Ids, CallFails(i) \/ CallReturns(i)
  PROVE  FuelInv'
<1>1. TypeOK /\ TypeOK'
  BY DEF FuelInv, RuntimeInv
<1>2. /\ Held \in [Ids -> Nat] /\ Held' \in [Ids -> Nat]
      /\ Reported \in [Ids -> Nat] /\ Reported' \in [Ids -> Nat]
  BY <1>1, FuelTypes
<1>3. i \in Live /\ created' = created
  BY DEF CallFails, CallReturns
<1>4. PICK fuel \in 0 .. Grant(i) : Spend(i, fuel)
  BY DEF CallFails, CallReturns
<1>5. /\ instances[i] \in InstanceType
      /\ instances[i].left \in Nat /\ instances[i].consumed \in Nat
  BY <1>1, <1>3 DEF Live, TypeOK, InstanceType
<1>6. fuel \in Nat /\ fuel <= instances[i].left
  BY <1>4, <1>5 DEF Grant
<1>7. \A j \in Ids \ {i} : instances'[j] = instances[j]
  BY <1>1, <1>4 DEF Spend, TypeOK
<1>8. /\ instances'[i].left = instances[i].left - fuel
      /\ instances'[i].consumed = instances[i].consumed + fuel
      /\ burnt' = burnt + fuel
  BY <1>1, <1>4, <1>5 DEF Spend, Grant, TypeOK, InstanceType
<1>9. i \in Live'
  <2> DEFINE left == Grant(i) - fuel
             total == instances[i].consumed + fuel
  <2>1. left \in Nat /\ total \in Nat
    BY <1>5, <1>6 DEF Grant
  <2>2. instances'[i] = [instances[i] EXCEPT !.left = left, !.consumed = total]
    BY <1>1, <1>4, <1>5 DEF Spend, TypeOK, InstanceType
  <2> HIDE DEF left, total
  <2>3. instances'[i] \in InstanceType
    BY <1>5, <2>1, <2>2 DEF InstanceType
  <2> QED
    BY <2>3, RuntimeAssumption DEF Live
<1>10. /\ Held[i] = instances[i].left /\ Reported[i] = instances[i].consumed
       /\ Held'[i] = instances[i].left - fuel
       /\ Reported'[i] = instances[i].consumed + fuel
       /\ \A j \in Ids \ {i} : Held[j] = Held'[j] /\ Reported[j] = Reported'[j]
  BY <1>3, <1>7, <1>8, <1>9 DEF Held, Reported, Live
<1>11. /\ Total(Held) + Held'[i] = Total(Held') + Held[i]
       /\ Total(Reported) + Reported'[i] = Total(Reported') + Reported[i]
  <2>1. Total(Held) + Held'[i] = Total(Held') + Held[i]
    BY <1>2, <1>10, TotalChanges
  <2>2. Total(Reported) + Reported'[i] = Total(Reported') + Reported[i]
    BY <1>2, <1>10, TotalChanges
  <2> QED
    BY <2>1, <2>2
<1>12. /\ Total(Held) \in Nat /\ Total(Held') \in Nat
       /\ Total(Reported) \in Nat /\ Total(Reported') \in Nat
  BY <1>2, TotalIsNumber
<1>13. /\ Total(Held') = Total(Held) - fuel
       /\ Total(Reported') = Total(Reported) + fuel
  BY <1>5, <1>6, <1>10, <1>11, <1>12
<1>14. burnt \in Nat /\ created \in Nat /\ created * Config.fuel_budget \in Nat
  BY <1>1, Limits DEF TypeOK
<1>15. burnt' + Total(Held') <= created' * Config.fuel_budget
  <2>1. burnt' + Total(Held') = burnt + Total(Held)
    BY <1>6, <1>8, <1>12, <1>13, <1>14
  <2> QED
    BY <1>3, <2>1 DEF FuelInv, FuelBounded
<1>16. Total(Reported') <= burnt'
  BY <1>6, <1>8, <1>12, <1>13, <1>14 DEF FuelInv, FuelReported
<1>17. ASSUME NEW j \in Live'
       PROVE  instances'[j].left + instances'[j].consumed <= Config.fuel_budget
  <2>1. CASE j = i
    <3>1. instances[i].left + instances[i].consumed <= Config.fuel_budget
      BY <1>3 DEF FuelInv, FuelBounded
    <3> QED
      BY <1>5, <1>6, <1>8, <2>1, <3>1, Limits
  <2>2. CASE j # i
    BY <1>7, <2>2 DEF Live, FuelInv, FuelBounded
  <2> QED
    BY <2>1, <2>2
<1>18. FuelBounded'
  BY <1>15, <1>17 DEF FuelBounded
<1>19. FuelReported'
  BY <1>16 DEF FuelReported
<1> QED
  BY <1>18, <1>19 DEF FuelInv

(* The invariant with the fuel is inductive.                               *)
LEMMA NextFuel ==
  ASSUME FuelInv, [Next]_vars
  PROVE  FuelInv'
<1>1. RuntimeInv'
  BY NextInv DEF FuelInv
<1>2. instances \in [Ids -> InstanceType \cup {None}]
  BY DEF FuelInv, RuntimeInv, TypeOK
<1>3. CASE UNCHANGED vars
  BY <1>1, <1>3, FewerInstances DEF vars
<1>4. ASSUME NEW m \in ModuleIds,
             \/ \E b \in Binaries : load_module(m, b)
             \/ remove_module(m)
             \/ unload_application(m)
      PROVE  FuelInv'
  BY <1>1, <1>4, FewerInstances DEF load_module, remove_module, unload_application
<1>5. ASSUME NEW m \in ModuleIds, NEW i \in Ids, create_instance(m, i)
      PROVE  FuelInv'
  BY <1>1, <1>5, CreateFuel
<1>6. ASSUME NEW i \in Ids, CallFails(i) \/ CallReturns(i)
      PROVE  FuelInv'
  BY <1>1, <1>6, CallFuel
<1>7. ASSUME NEW i \in Ids, remove_instance(i) \/ shutdown_instance(i)
      PROVE  FuelInv'
  BY <1>1, <1>2, <1>7, FewerInstances DEF remove_instance, shutdown_instance
<1>8. CASE reset_session
  BY <1>1, <1>8, FewerInstances DEF reset_session
<1>9. CASE shutdown
  BY <1>1, <1>9, FewerInstances DEF shutdown
<1> QED
  BY <1>3, <1>4, <1>5, <1>6, <1>7, <1>8, <1>9 DEF Next

(* Every behaviour keeps the invariant with the fuel.                      *)
LEMMA AlwaysFuelInv == Spec => []FuelInv
<1>1. Init => FuelInv
  BY InitFuel
<1>2. FuelInv /\ [Next]_vars => FuelInv'
  BY NextFuel
<1> QED
  BY <1>1, <1>2, PTL DEF Spec

(* Over all of its calls, failing ones included, an instance gets no more  *)
(* fuel than it was created with; and whatever is created, taken over,     *)
(* called and removed, what was burnt and what is still held stays within  *)
(* one budget for every creation.                                          *)
THEOREM FuelStaysWithinBudgets == Spec => []FuelBounded
<1>1. FuelInv => FuelBounded
  BY DEF FuelInv
<1> QED
  BY <1>1, AlwaysFuelInv, PTL

(* total_fuel_consumed covers what all live instances report, the fuel of  *)
(* calls that failed included.                                             *)
THEOREM StatisticsCoverFuel == Spec => []FuelReported
<1>1. FuelInv => FuelReported
  BY DEF FuelInv
<1> QED
  BY <1>1, AlwaysFuelInv, PTL
=============================================================================
