---------------------------- MODULE MCExtension ----------------------------
(* ExtensionSystem for TLC, and the symmetry used where no liveness is       *)
(* checked: processors, payloads and handlers are interchangeable.           *)
EXTENDS ExtensionSystem, TLC

SystemSymmetry ==
  Permutations(Processors) \cup Permutations(Data) \cup Permutations(Handlers)
=============================================================================
