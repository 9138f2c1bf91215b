------------------------------ MODULE Optional ------------------------------
(* The absence of a value, shared by the modules: Rust's None and SQL's NULL. *)
CONSTANT Nil
=============================================================================
