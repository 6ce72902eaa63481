--------------------------- MODULE MCDomainEvents ---------------------------
(* Small instances of DomainEvents. *)
EXTENDS DomainEvents
=============================================================================
