------------------------------- MODULE Pricing -------------------------------
(***************************************************************************)
(* Prices of models over time: services/pricing and the two endpoints of   *)
(* api/v1/metrics that write them.  A price holds in a half-open window;   *)
(* rows of the organisation come before the global ones.  The handlers     *)
(* read the other windows first and write later, without a constraint.     *)
(***************************************************************************)
EXTENDS AuditLog, FiniteSets

CONSTANTS
  Model,
  StoredPricing    (* the table model_pricing at the start                  *)

VARIABLE pricing   (* the table model_pricing; a row's id is its place      *)

PricingRow ==
  [scope : {"org", "global"}, model : Model, from : Nat, to : Nat \cup {Null},
   active : BOOLEAN, price : Nat]

(* Two half-open windows have an instant in common. *)
Meets(from, to, otherFrom, otherTo) ==
  (otherTo = Null \/ otherTo > from) /\ (to = Null \/ otherFrom < to)

(* Bug variant of Overlapping: a row in the proposed window is not seen.   *)
OverlappingInside(w, except) ==
  {i \in DOMAIN pricing \ {except} :
     /\ pricing[i].scope = w.scope /\ pricing[i].model = w.model /\ pricing[i].active
     /\ pricing[i].from <= w.from /\ (pricing[i].to = Null \/ pricing[i].to > w.from)}

(* The active rows, other than except, that has_pricing_overlap finds.     *)
Overlapping(w, except) ==
  {i \in DOMAIN pricing \ {except} :
     /\ pricing[i].scope = w.scope /\ pricing[i].model = w.model /\ pricing[i].active
     /\ Meets(w.from, w.to, pricing[i].from, pricing[i].to)}

Inverted(w) == w.to # Null /\ w.to <= w.from

Covers(w, at) == w.from <= at /\ (w.to = Null \/ w.to > at)

(* The rows get_pricing may return: of the organisation if it has any, and *)
(* of these the ones that start last.                                      *)
GetPricing(model, at) ==
  LET match == {i \in DOMAIN pricing :
                  pricing[i].model = model /\ pricing[i].active /\ Covers(pricing[i], at)}
      own   == {i \in match : pricing[i].scope = "org"}
      scope == IF own # {} THEN own ELSE match
  IN {i \in scope : \A j \in scope : pricing[j].from <= pricing[i].from}

-----------------------------------------------------------------------------
(* create_pricing *)

Proposed(q) ==
  [scope |-> "org", model |-> q.model, from |-> q.from, to |-> q.to,
   active |-> q.active, price |-> q.price]

(* The columns of PricingUpdate.  Of these only the end of the window may  *)
(* be set to NULL; a request that does that to another answers an error.   *)
PricingUpdate == [price |-> Nat, from |-> Nat, to |-> Nat \cup {Null}, active |-> BOOLEAN]

(* Two prices of one model that hold at the same time. *)
Clash(v, w) ==
  /\ v.scope = w.scope /\ v.model = w.model /\ v.active /\ w.active
  /\ Meets(v.from, v.to, w.from, w.to)

(* The windows that are there at the start do not overlap. *)
ASSUME PricingAssumption ==
  /\ Null \notin PricingRow \cup Nat
  /\ StoredPricing \in Seq(PricingRow)
  /\ \A i \in DOMAIN StoredPricing : StoredPricing[i].active => ~ Inverted(StoredPricing[i])
  /\ \A i, j \in DOMAIN StoredPricing : i # j => ~ Clash(StoredPricing[i], StoredPricing[j])
  /\ \A q \in Requests :
       /\ q.op = "price" => Proposed(q) \in PricingRow
       /\ q.op = "reprice" =>
            \A f \in DOMAIN q.set : f \in DOMAIN PricingUpdate /\ q.set[f] \in PricingUpdate[f]

PriceCheck(h) ==
  LET w == Proposed(req[h]) IN
  /\ pc[h] = "load" /\ req[h].op = "price"
  /\ IF Inverted(w) THEN Respond(h, 422, Null)
     ELSE IF w.active /\ Overlapping(w, Null) # {} THEN Respond(h, 409, Null)
     ELSE Continue(h, "commit", w)
  /\ UNCHANGED <<pricing, ledger>>

PriceInsert(h) ==
  /\ pc[h] = "commit" /\ req[h].op = "price"
  /\ pricing' = Append(pricing, work[h])
  /\ Respond(h, 201, Len(pricing'))
  /\ UNCHANGED ledger

-----------------------------------------------------------------------------
(* update_pricing: fields that are not set keep what they were loaded with *)

RepriceLoad(h) ==
  LET id == req[h].row IN
  /\ pc[h] = "load" /\ req[h].op = "reprice"
  /\ IF id \in DOMAIN pricing /\ pricing[id].scope = "org"
     THEN Continue(h, "check", pricing[id]) ELSE Respond(h, 404, Null)
  /\ UNCHANGED <<pricing, ledger>>

RepriceCheck(h) ==
  LET w == Set(work[h], req[h].set) IN
  /\ pc[h] = "check" /\ req[h].op = "reprice"
  /\ IF Inverted(w) THEN Respond(h, 422, Null)
     ELSE IF w.active /\ Overlapping(w, req[h].row) # {} THEN Respond(h, 409, Null)
     ELSE Continue(h, "commit", work[h])
  /\ UNCHANGED <<pricing, ledger>>

RepriceCommit(h) ==
  /\ pc[h] = "commit" /\ req[h].op = "reprice"
  /\ pricing' = [pricing EXCEPT ![req[h].row] = Set(@, Changed(req[h].set, work[h]))]
  /\ Respond(h, 200, req[h].row)
  /\ UNCHANGED ledger

PricingServe(h) ==
  PriceCheck(h) \/ PriceInsert(h) \/ RepriceLoad(h) \/ RepriceCheck(h) \/ RepriceCommit(h)
=============================================================================
