---------------------------- MODULE MCMigrations ----------------------------
(***************************************************************************)
(* Migrations for the five files of migrations/.  Only 001 creates without *)
(* IF NOT EXISTS; 005 drops the index that 003 creates.                    *)
(***************************************************************************)
EXTENDS Migrations

CONSTANTS old, new, newer

MCCreates ==
    <<{"tables"}, {"wa_jid"}, {"scope_index"}, {"media"}, {}>>
MCDrops ==
    <<{}, {}, {}, {}, {"scope_index"}>>
MCStrict == {1}
Upgrade == {old, new, newer}
MCRelease == [g \in Upgrade |-> IF g = old THEN 4 ELSE 5]
=============================================================================
