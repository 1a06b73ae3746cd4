----------------------------- MODULE LegacyStores -----------------------------
(***************************************************************************)
(* The JSON files of earlier releases, which boot imports into SQLite (and *)
(* the providers into config.jsonc): stores-phase.ts. A file is imported   *)
(* in one transaction and then deleted, set aside as .bak when the table   *)
(* has rows, and set aside with an aborted boot when it cannot be read.    *)
(* The process may die between any two of these steps.                     *)
(***************************************************************************)
EXTENDS Naturals, FiniteSets

CONSTANTS
  Rows,      \* the rows of all files
  RowsOf,    \* the rows a file may hold, by file
  Tables,    \* the files imported into a table of their own
  SeedRow,   \* the task that boot adds when it is not there
  MaxLegacy  \* bound on the files an earlier release left

ASSUME LegacyAssumption == \A f \in DOMAIN RowsOf : RowsOf[f] \subseteq Rows

VARIABLES
  legacy,    \* the file
  aside,     \* the rows of its .bak
  table,     \* the table
  imported   \* the import of the file at hand has committed

legacyVars == <<legacy, aside, table, imported>>

Files == DOMAIN RowsOf
Gone  == [state |-> "absent", rows |-> {}]
Legacy(f) == [state : {"whole"}, rows : SUBSET RowsOf[f]]
             \cup {Gone, [state |-> "corrupt", rows |-> RowsOf[f]]}

LegacyInit ==
  /\ \E left \in SUBSET Files :
       /\ Cardinality(left) <= MaxLegacy
       /\ \E content \in [left -> UNION {Legacy(f) : f \in Files}] :
            /\ \A f \in left : content[f] \in Legacy(f) \ {Gone}
            /\ legacy = [f \in Files |-> IF f \in left THEN content[f] ELSE Gone]
  /\ aside = [f \in Files |-> {}]
  /\ table = [f \in Tables |-> {}]
  /\ imported = FALSE

(* Mutant: the file is deleted. *)
SetAsideDeletes(f) ==
  /\ legacy' = [legacy EXCEPT ![f] = Gone]
  /\ UNCHANGED <<aside, table, imported>>
(* renameSync to .bak.<now> *)
SetAside(f) ==
  /\ legacy' = [legacy EXCEPT ![f] = Gone]
  /\ aside' = [aside EXCEPT ![f] = @ \cup legacy[f].rows]
  /\ UNCHANGED <<table, imported>>

Nothing(f)  == legacy[f].state = "absent" /\ UNCHANGED legacyVars
Corrupt(f)  == legacy[f].state = "corrupt" /\ SetAside(f)
NoMerge(f, populated) == legacy[f].state = "whole" /\ populated /\ ~ imported /\ SetAside(f)

(* The transaction, into an empty table: every row of the file. *)
Import(f, populated) ==
  /\ legacy[f].state = "whole" /\ ~ populated /\ ~ imported
  /\ imported' = TRUE
  /\ UNCHANGED <<legacy, aside>>
ImportTable(f) == table' = [table EXCEPT ![f] = legacy[f].rows]

(* unlinkSync, once the import has committed. *)
Unlink(f) ==
  /\ imported
  /\ legacy' = [legacy EXCEPT ![f] = Gone]
  /\ imported' = FALSE
  /\ UNCHANGED <<aside, table>>

(* TaskStore.ensureSeed *)
EnsureSeed ==
  /\ table' = [f \in Tables |-> table[f] \cup (IF f = "tasks" THEN {SeedRow} ELSE {})]
  /\ UNCHANGED <<legacy, aside, imported>>

Add(f, row) ==
  /\ row \notin table[f]
  /\ table' = [table EXCEPT ![f] = @ \cup {row}]
  /\ UNCHANGED <<legacy, aside, imported>>

Remove(f, row) ==
  /\ row \in table[f]
  /\ table' = [table EXCEPT ![f] = @ \ {row}]
  /\ UNCHANGED <<legacy, aside, imported>>

LegacyDie == imported' = FALSE /\ UNCHANGED <<legacy, aside, table>>

LegacyTypeOK ==
  /\ legacy \in [Files -> [state : {"absent", "whole", "corrupt"}, rows : SUBSET Rows]]
  /\ aside \in [Files -> SUBSET Rows]
  /\ \A f \in Files : legacy[f] \in Legacy(f) /\ aside[f] \subseteq RowsOf[f]
  /\ table \in [Tables -> SUBSET (Rows \cup {SeedRow})]
  /\ imported \in BOOLEAN
=============================================================================
