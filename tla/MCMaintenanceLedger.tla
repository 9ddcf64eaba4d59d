-------------------------- MODULE MCMaintenanceLedger --------------------------
(* Instances of MaintenanceLedger for TLC: documents that lose their status and *)
(* expire, there and back.                                                      *)
EXTENDS MaintenanceLedger, TLC

CONSTANTS fa, fb, da, db1

Dated(i, status, until) ==
    [id |-> i, status |-> status, reserved |-> FALSE, inbox |-> FALSE, from |-> Nil,
     until |-> until, supersedes |-> {}, superseded_by |-> {}, derived_from |-> {}]

Whole == (fa :> Dated(da, "active", 1)) @@ (fb :> Dated(db1, "active", Nil))
Unmarked == (fa :> Dated(da, "active", 1)) @@ (fb :> Dated(db1, "", Nil))
Broken == (fa :> Dated(da, "active", 1)) @@ (fb :> Dated(da, "active", Nil))

MCCorpora == {Whole, Unmarked, Broken}
=============================================================================
