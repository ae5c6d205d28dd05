------------------------------ MODULE MCFrontEnd ------------------------------
(***************************************************************************)
(* What the front end does across calls that are answered late, side by    *)
(* side for TLC: it changes the configuration (ConfigSaves), buys a key    *)
(* (Purchase) and has games reviewed (Reviews).  As modelled they share no *)
(* state: side says which one a behaviour is about, the others keep an     *)
(* initial state.                                                          *)
(***************************************************************************)
EXTENDS ConfigSaves, Purchase, Reviews, TLC

VARIABLE side

FrontEndInit ==
  /\ Init /\ PurchaseInit /\ ReviewsInit /\ side \in {"config", "purchase", "reviews"}
  /\ side # "reviews" => apiKey = NoKey

FrontEndNext ==
  /\ UNCHANGED side
  /\ \/ side = "config" /\ Next /\ UNCHANGED <<purchaseVars, reviewsVars>>
     \/ side = "purchase" /\ PurchaseNext /\ UNCHANGED <<vars, reviewsVars>>
     \/ side = "reviews" /\ ReviewsNext /\ UNCHANGED <<vars, purchaseVars>>

FrontEndSpec == FrontEndInit /\ [][FrontEndNext]_<<side, vars, purchaseVars, reviewsVars>>

Symmetry == Permutations(Calls)
=============================================================================
