---------------------------- MODULE MCUnitsOfWork ----------------------------
(***************************************************************************)
(* UnitsOfWork on a small instance.  Sessions, proposal ids, owners and    *)
(* bindings are interchangeable: no definition names a particular one.     *)
(***************************************************************************)
EXTENDS UnitsOfWork, TLC

Symmetry == Permutations(Sessions) \cup Permutations(Owners) \cup Permutations(Proposals)

=============================================================================
