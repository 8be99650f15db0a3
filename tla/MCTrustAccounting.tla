------------------------- MODULE MCTrustAccounting -------------------------
(* Instances of TrustAccounting for TLC. *)
EXTENDS TrustAccounting, TLC

\* Ledgers, documents, people and handlers are interchangeable.
AllSymmetry == Permutations(Ledgers) \union Permutations(Movements)
                   \union Permutations(Staff) \union Permutations(Handlers)
=============================================================================
