--------------------------- MODULE MCInvoiceStart ---------------------------
(* Interchangeable requests for one link. *)
EXTENDS InvoiceStart, TLC

RequestSymmetry == Permutations(Requests)

=============================================================================
