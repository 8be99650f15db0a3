--------------------------- MODULE MCReceivables ---------------------------
(* Instances of Receivables for TLC. *)
EXTENDS Receivables, TLC

\* With tax withheld the client owes 2 of the 3 on the invoice.
OneTerm == {[net |-> 2, vat |-> 1, wht |-> 1]}
\* The last asks for less than that.
AskedFor == {<<2>>, <<1, 1>>, <<1>>}
\* An entry by itself, twice, or beside another.
OneOrTwo == UNION {[1..n -> Entries] : n \in {1, 2}}
InAndOut == {-1, 1}
Interchangeable == Permutations(Invoices) \union Permutations(Handlers)
                   \union Permutations(Txs)
=============================================================================
