---- MODULE MCPackagePublication ----
(* Bounded instance of PackagePublication for TLC. *)
EXTENDS PackagePublication
=====================================
