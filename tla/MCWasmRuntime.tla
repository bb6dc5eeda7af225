--------------------------- MODULE MCWasmRuntime ---------------------------
EXTENDS WasmRuntime

(* The microcontroller's limits on modules, with few instances, a small    *)
(* budget and time for more than one call that takes a second.             *)
MCConfig ==
  [for_mcu EXCEPT !.max_instances = 2, !.fuel_budget = 2,
                  !.max_execution_time = 2500]

Plain ==
  [size |-> 16, wasm |-> TRUE, pages |-> 1, functions |-> 50, imports |-> 0,
   known |-> TRUE, links |-> FALSE, start |-> 0]

(* A module without a start function.                                      *)
MCPlain == {Plain}

(* Binaries at the limits of the microcontroller profile, each of the ways *)
(* over them, and one whose start function takes fuel.                     *)
MCBinaries ==
  {Plain,
   [Plain EXCEPT !.imports = 2, !.links = TRUE, !.start = 1],
   [Plain EXCEPT !.imports = 2],
   [Plain EXCEPT !.start = 9],
   [Plain EXCEPT !.size = 17],
   [Plain EXCEPT !.pages = 2],
   [Plain EXCEPT !.functions = 51],
   [Plain EXCEPT !.imports = 3, !.links = TRUE],
   [Plain EXCEPT !.imports = 11, !.links = TRUE],
   [Plain EXCEPT !.imports = 2, !.known = FALSE],
   [Plain EXCEPT !.wasm = FALSE]}
=============================================================================
