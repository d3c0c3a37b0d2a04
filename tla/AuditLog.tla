------------------------------- MODULE AuditLog -------------------------------
(***************************************************************************)
(* What the handlers of an organisation share: the audit log, the clock    *)
(* its entries carry, and how the session writes a row.  An entry is added *)
(* to the session of its request and reaches the table with the commit of  *)
(* that request, or not at all.                                            *)
(***************************************************************************)
EXTENDS Handlers, Sequences

VARIABLES
  log,             (* the table audit_logs, in insertion order; an entry    *)
                   (* that is deleted turns Null                            *)
  now              (* the clock, in the unit of the retention periods       *)

ledger == <<log, now>>

(* services/audit.write: about is the entity, note what the data says. *)
Entry(event, about, note) == [event |-> event, about |-> about, note |-> note, at |-> now]

Entries == {n \in DOMAIN log : log[n] # Null}

(* The clock goes on, to a bound. *)
TimePasses(until) == now < until /\ now' = now + 1 /\ UNCHANGED log

Set(row, fields) == [f \in DOMAIN row |-> IF f \in DOMAIN fields THEN fields[f] ELSE row[f]]

(* An UPDATE names the columns that differ from the row as loaded. *)
Changed(fields, loaded) ==
  [f \in {f \in DOMAIN fields : fields[f] # loaded[f]} |-> fields[f]]
=============================================================================
