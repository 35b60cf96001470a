---------------------------- MODULE MCStoreEvents ----------------------------
(* The instances of MemoryStore, observed. *)
EXTENDS MCMemoryStore, StoreEvents
=============================================================================
