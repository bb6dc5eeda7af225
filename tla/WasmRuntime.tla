---------------------------- MODULE WasmRuntime ----------------------------
(***************************************************************************)
(* The Wasmtime runtime of the edge devices: modules, instances, and the   *)
(* limits of the device's architecture on instances, CPU time and fuel.    *)
(*                                                                         *)
(* The runtime is used by one caller at a time; what is hard is what a     *)
(* long sequence of calls, some of them failing half-way, leaves in its    *)
(* counters.  A module is abstracted to what validation and instantiation  *)
(* look at; call counts and wall-clock statistics are left out.            *)
(***************************************************************************)
EXTENDS Naturals, FiniteSets, FiniteSetsExt

CONSTANTS
  ModuleIds,     \* names under which modules are loaded
  Ids,           \* instance ids, chosen by the caller or generated
  Binaries,      \* WebAssembly binaries
  Config,        \* the runtime's configuration
  MaxSeconds,    \* bound on the whole seconds one call takes
  MaxCreated,    \* bound on the instances ever created
  None

(* The limits of a configuration, with memory in KiB, time in milliseconds *)
(* and 0 for a fuel budget of None, and the three profiles.  Which optional *)
(* features of WebAssembly a profile enables is left to the binaries.      *)
WasmRuntimeConfig ==
  [max_memory : Nat, max_stack_size : Nat, max_execution_time : Nat,
   max_instances : Nat, max_functions_per_instance : Nat, fuel_budget : Nat]

for_mpu ==
  [max_memory |-> 8 * 1024 * 1024, max_stack_size |-> 8 * 1024,
   max_execution_time |-> 60000, max_instances |-> 100,
   max_functions_per_instance |-> 1000, fuel_budget |-> 0]

for_mcu ==
  [max_memory |-> 64, max_stack_size |-> 8, max_execution_time |-> 100,
   max_instances |-> 5, max_functions_per_instance |-> 50,
   fuel_budget |-> 5000000]

for_riscv ==
  [max_memory |-> 512, max_stack_size |-> 32, max_execution_time |-> 500,
   max_instances |-> 20, max_functions_per_instance |-> 200,
   fuel_budget |-> 20000000]

(* WasmRuntimeConfig::validate, without which no runtime is created.       *)
validate(config) ==
  /\ config.max_memory > 0
  /\ config.max_stack_size > 0
  /\ config.max_stack_size <= config.max_memory
  /\ config.max_execution_time > 0
  /\ config.max_instances > 0
  /\ config.max_functions_per_instance > 0

(* A binary: its size in KiB, whether it is WebAssembly at all, the largest *)
(* declared maximum of its memories in pages, its functions and imports,   *)
(* whether all imports come from known modules and match what the host     *)
(* functions provide, and the fuel its start function takes.               *)
BinaryType ==
  [size : Nat, wasm : BOOLEAN, pages : Nat, functions : Nat, imports : Nat,
   known : BOOLEAN, links : BOOLEAN, start : Nat]

InstanceType == [module : ModuleIds, left : Nat, consumed : Nat]

ASSUME RuntimeAssumption ==
  /\ IsFiniteSet(Ids)
  /\ None \notin Binaries
  /\ None \notin InstanceType
  /\ Config \in WasmRuntimeConfig
  /\ validate(Config)
  /\ MaxSeconds \in Nat
  /\ MaxCreated \in Nat

ASSUME BinariesAssumption == Binaries \subseteq BinaryType

(* The profiles of the three architectures are configurations that the     *)
(* runtime accepts.                                                        *)
ASSUME ProfilesAssumption ==
  \A config \in {for_mpu, for_mcu, for_riscv} :
    config \in WasmRuntimeConfig /\ validate(config)

VARIABLES
  modules,    \* loaded module of each name, or None
  instances,  \* instance under each id, or None
  active,     \* context.active_instances
  cpu,        \* context.cpu_time_used
  created,    \* stats.instances_created
  burnt,      \* stats.total_fuel_consumed
  leaked      \* instances that went without being taken off active, since
              \* the last shutdown (history)

vars == <<modules, instances, active, cpu, created, burnt, leaked>>

Live == {i \in Ids : instances[i] # None}

Instance(m, left, consumed) ==
  [module |-> m, left |-> left, consumed |-> consumed]

(* WasmContext::new                                                        *)
NewContext == active = 0 /\ cpu = 0

Init ==
  /\ modules = [m \in ModuleIds |-> None]
  /\ instances = [i \in Ids |-> None]
  /\ NewContext
  /\ created = 0
  /\ burnt = 0
  /\ leaked = 0

----------------------------------------------------------------------------
(* What validate_module looks at.  A memory without a declared maximum has *)
(* no pages here: it is not looked at.                                     *)
validate_wasm_format(b) == b.wasm

validate_size_constraints(b) == b.size <= Config.max_memory \div 4

validate_memory_constraints(b) == b.pages * 64 <= Config.max_memory

validate_function_constraints(b) ==
  b.functions <= Config.max_functions_per_instance

is_allowed_import_module(b) == b.known

max_imports ==
  CASE Config.max_memory < 128  -> 10
    [] Config.max_memory < 1024 /\ Config.max_memory >= 128 -> 50
    [] OTHER -> 100

validate_import_constraints(b) ==
  is_allowed_import_module(b) /\ b.imports <= max_imports

validate_module(b) ==
  /\ validate_wasm_format(b)
  /\ validate_size_constraints(b)
  /\ validate_memory_constraints(b)
  /\ validate_function_constraints(b)
  /\ validate_import_constraints(b)

(* A module may take the place of one whose instances go on.               *)
load_module(m, b) ==
  /\ validate_module(b)
  /\ modules' = [modules EXCEPT ![m] = b]
  /\ UNCHANGED <<instances, active, cpu, created, burnt, leaked>>

remove_module(m) ==
  /\ modules[m] # None
  /\ modules' = [modules EXCEPT ![m] = None]
  /\ UNCHANGED <<instances, active, cpu, created, burnt, leaked>>

(* Mutant: the limit itself may be passed by one.                          *)
check_instance_limit_late == active <= Config.max_instances

check_instance_limit == active < Config.max_instances

(* print_message and get_timestamp, all that a module can import: only one *)
(* that imports exactly these two, or nothing, can be instantiated.        *)
create_imports == 2

Links(b) == b.imports = 0 \/ (b.imports = create_imports /\ b.links)

(* Instantiation fails when the imports do not match, or when the start    *)
(* function needs more than the budget; nothing has changed by then.  An   *)
(* id in use is taken over.  The fuel of the start function is not counted *)
(* as consumed.                                                            *)
create_instance(m, i) ==
  /\ created < MaxCreated
  /\ check_instance_limit
  /\ modules[m] # None
  /\ Links(modules[m])
  /\ Config.fuel_budget = 0 \/ modules[m].start <= Config.fuel_budget
  /\ instances' = [instances EXCEPT ![i] =
                     Instance(m, IF Config.fuel_budget = 0 THEN 0
                                 ELSE Config.fuel_budget - modules[m].start, 0)]
  /\ active' = active + 1
  /\ created' = created + 1
  /\ leaked' = IF i \in Live THEN leaked + 1 ELSE leaked
  /\ UNCHANGED <<modules, cpu, burnt>>

----------------------------------------------------------------------------
(* call_function.                                                          *)

check_cpu_time_limit(t) == cpu + t <= Config.max_execution_time

(* Every call is estimated to take 10 ms.                                  *)
Estimate == 10

Second == 1000

(* The fuel a call finds in the store: nothing is added after creation.    *)
Grant(i) == instances[i].left

(* Mutant: the fuel of a failing call is not added to the statistics.      *)
SpendUnreported(i, fuel) ==
  /\ instances' = [instances EXCEPT
                     ![i].left = Grant(i) - fuel,
                     ![i].consumed = @ + fuel]
  /\ burnt' = burnt

Spend(i, fuel) ==
  /\ instances' = [instances EXCEPT
                     ![i].left = Grant(i) - fuel,
                     ![i].consumed = @ + fuel]
  /\ burnt' = burnt + fuel

(* The function is missing, traps, or runs out of fuel, which takes all    *)
(* there is; or it returns after a number of whole seconds that no longer  *)
(* fits into the limit, which is found out too late to undo the call.      *)
CallFails(i) ==
  /\ i \in Live
  /\ check_cpu_time_limit(Estimate)
  /\ \E fuel \in 0 .. Grant(i) : Spend(i, fuel)
  /\ UNCHANGED <<modules, active, cpu, created, leaked>>

(* Mutant: the time of the call is added without looking at the limit.     *)
CallReturnsLate(i) ==
  /\ i \in Live
  /\ check_cpu_time_limit(Estimate)
  /\ \E fuel \in 0 .. Grant(i) : Spend(i, fuel)
  /\ \E seconds \in 0 .. MaxSeconds : cpu' = cpu + seconds * Second
  /\ UNCHANGED <<modules, active, created, leaked>>

CallReturns(i) ==
  /\ i \in Live
  /\ check_cpu_time_limit(Estimate)
  /\ \E fuel \in 0 .. Grant(i) : Spend(i, fuel)
  /\ \E seconds \in 0 .. MaxSeconds :
       /\ check_cpu_time_limit(seconds * Second)
       /\ cpu' = cpu + seconds * Second
  /\ UNCHANGED <<modules, active, created, leaked>>

(* The caller may start a new session through the context.                 *)
reset_session ==
  /\ cpu' = 0
  /\ UNCHANGED <<modules, instances, active, created, burnt, leaked>>

----------------------------------------------------------------------------
(* The four ways in which instances go.                                    *)

(* Mutant: the counter keeps the removed instance, as it once did.         *)
remove_instance_uncounted(i) ==
  /\ i \in Live
  /\ instances' = [instances EXCEPT ![i] = None]
  /\ UNCHANGED <<modules, active, cpu, created, burnt, leaked>>

remove_instance(i) ==
  /\ i \in Live
  /\ instances' = [instances EXCEPT ![i] = None]
  /\ active' = IF active = 0 THEN 0 ELSE active - 1
  /\ UNCHANGED <<modules, cpu, created, burnt, leaked>>

shutdown_instance(i) ==
  /\ i \in Live
  /\ instances' = [instances EXCEPT ![i] = None]
  /\ leaked' = leaked + 1
  /\ UNCHANGED <<modules, active, cpu, created, burnt>>

(* The instances go even when the module itself is not found.              *)
Of(m) == {i \in Live : instances[i].module = m}

unload_application(m) ==
  /\ instances' = [i \in Ids |-> IF i \in Of(m) THEN None ELSE instances[i]]
  /\ modules' = [modules EXCEPT ![m] = None]
  /\ leaked' = leaked + Cardinality(Of(m))
  /\ UNCHANGED <<active, cpu, created, burnt>>

shutdown ==
  /\ instances' = [i \in Ids |-> None]
  /\ modules' = [m \in ModuleIds |-> None]
  /\ active' = 0
  /\ leaked' = 0
  /\ UNCHANGED <<cpu, created, burnt>>

Next ==
  \/ \E m \in ModuleIds :
       \/ \E b \in Binaries : load_module(m, b)
       \/ \E i \in Ids : create_instance(m, i)
       \/ remove_module(m)
       \/ unload_application(m)
  \/ \E i \in Ids :
       \/ CallFails(i)
       \/ CallReturns(i)
       \/ remove_instance(i)
       \/ shutdown_instance(i)
  \/ reset_session
  \/ shutdown

Spec == Init /\ [][Next]_vars

----------------------------------------------------------------------------
(* Type correctness, with the limit on CPU time that a call which overruns *)
(* never moves.                                                            *)
TypeOK ==
  /\ modules \in [ModuleIds -> Binaries \cup {None}]
  /\ instances \in [Ids -> InstanceType \cup {None}]
  /\ active \in Nat
  /\ cpu \in 0 .. Config.max_execution_time
  /\ created \in Nat
  /\ burnt \in Nat
  /\ leaked \in Nat

(* The counter of active instances is the number of live ones plus those   *)
(* that shutdown_instance, unload_application or a second create_instance  *)
(* under the same id took away behind its back; it never exceeds the       *)
(* limit.                                                                  *)
InstancesCounted ==
  /\ active = Cardinality(Live) + leaked
  /\ active <= Config.max_instances

(* A device never holds more instances than its architecture allows,       *)
(* whatever the order of creations, removals, unloads and take-overs.      *)
InstanceBound == Cardinality(Live) <= Config.max_instances

(* The fuel under each id, none where there is no instance.                *)
Held == [i \in Ids |-> IF i \in Live THEN instances[i].left ELSE 0]

Reported == [i \in Ids |-> IF i \in Live THEN instances[i].consumed ELSE 0]

Total(v) == MapThenSumSet(LAMBDA i : v[i], Ids)

(* The budget is one of the instance: none ever gets more fuel than the    *)
(* budget it was created with, over all of its calls, and the runtime as a *)
(* whole no more than a budget for every creation: what was burnt and what *)
(* live instances still hold stays within it.                              *)
FuelBounded ==
  /\ \A i \in Live : instances[i].left + instances[i].consumed <= Config.fuel_budget
  /\ burnt + Total(Held) <= created * Config.fuel_budget

(* config.rs, fuel_budget: "Wasmtime fuel budget per function call": each  *)
(* call on an instance starts with the whole budget.                       *)
BudgetPerCall == \A i \in Live : Grant(i) = Config.fuel_budget

(* The statistics never lose fuel that an instance reports.                *)
FuelReported == Total(Reported) <= burnt

=============================================================================
