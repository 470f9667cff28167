--------------------------- MODULE MCNumberOrders ---------------------------
(***************************************************************************)
(* A card order of two numbers and a bank order for one of them, of two    *)
(* tenants, and the requests to either.  The card is paid by Razorpay;     *)
(* Stripe is left to the proofs, and so are a cancellation and the upload  *)
(* of a new proof: of the two a rejection has the effects, it closes an    *)
(* order by id and takes approval back.                                    *)
(***************************************************************************)
EXTENDS NumberOrders, TLC

CONSTANTS card, bank, shared, single, t1, t2, r1, r2

Methods == (card :> "RAZORPAY") @@ (bank :> "MANUAL_BANK")
Numbers == (card :> {shared, single}) @@ (bank :> {shared})
Tenants == (card :> t1) @@ (bank :> t2)

SomeRequests ==
  [op : {"webhook", "return", "payment failed"}, order : {card}]
    \cup [op : {"approve", "confirm", "reject"}, order : {bank}]

Symmetry == Permutations({r1, r2})
=============================================================================
