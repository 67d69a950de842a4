----------------------------- MODULE MCModuleMap ----------------------------
(* Instances of ModuleMap for TLC. *)
EXTENDS ModuleMap, TLC

CONSTANTS a, b, s, t

\* t imports a and s, and a imports b.
Tree == (a :> {b}) @@ (b :> {}) @@ (s :> {}) @@ (t :> {a, s})

\* a and b import each other, t imports both, and nobody imports s.
Ring == (a :> {b}) @@ (b :> {s}) @@ (s :> {a}) @@ (t :> {a})
=============================================================================
