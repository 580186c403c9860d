--------------------------- MODULE SchemaMigration ---------------------------
(***************************************************************************)
(* Opening the workspace database: several processes refuse one written by *)
(* a newer Habitat, keep a copy of one that needs repair, and repair it in *)
(* one transaction, while others do the same and any of them may die.      *)
(***************************************************************************)
EXTENDS Naturals, FiniteSets

CONSTANTS
  Openers,           \* processes that open the database
  MaxOpens,          \* bound: times they do
  MaxRows,           \* bound: rows an older Habitat adds
  MigrationHazards   \* what may happen, see AllMigrationHazards

(***************************************************************************)
(* "late row":   an older Habitat still writes while a newer one has        *)
(*               copied the database and not yet begun its repair          *)
(* "late build": a newer Habitat migrates the database after an opener has *)
(*               found its version acceptable                              *)
(***************************************************************************)
AllMigrationHazards == {"late row", "late build"}

(* SCHEMA_VERSION is 2 here; 0 is a file without a schema.                 *)
Versions == 0 .. 3
Current == 2

Contents == [version : Versions, sound : BOOLEAN, rows : 0 .. MaxRows]
Closed == [step |-> "closed"]
Nobody == "nobody"

VARIABLES
  database,  \* the content of habitat.sqlite3
  wal,       \* its journal mode, which is part of its bytes
  writer,    \* who holds the write lock
  backups,   \* files [name, content, wal]; the name is the version and
             \* whether the digest of the copy is appended to it
  openers,   \* [Openers -> what each is doing]
  opens,     \* how often one began to
  replaced   \* history: contents a repair has replaced

vars == <<database, wal, writer, backups, openers, opens, replaced>>

Init ==
  /\ \/ database = [version |-> 0, sound |-> FALSE, rows |-> 0]
     \/ \E version \in {1, Current}, sound \in BOOLEAN :
          database = [version |-> version, sound |-> sound, rows |-> 0]
  /\ wal \in BOOLEAN
  /\ writer = Nobody /\ backups = {} /\ replaced = {}
  /\ openers = [p \in Openers |-> Closed] /\ opens = 0

At(p, step) == openers[p].step = step
Goes(p, state) == openers' = [openers EXCEPT ![p] = state]
Opening == {p \in Openers : openers[p].step \notin {"closed", "open"}}

(* migration_backup_version: an older version, or columns missing.         *)
Legacy(content) ==
  /\ content.version # 0
  /\ content.version < Current \/ ~content.sound

(* preflight_schema_version                                                *)
Preflight(p) ==
  /\ At(p, "closed") /\ opens < MaxOpens
  /\ opens' = opens + 1
  /\ Goes(p, IF database.version > Current THEN Closed ELSE [step |-> "checked"])
  /\ UNCHANGED <<database, wal, writer, backups, replaced>>

Decide(p) ==
  /\ At(p, "checked")
  /\ Goes(p, IF Legacy(database) THEN [step |-> "copy", from |-> database.version]
             ELSE [step |-> "begin"])
  /\ UNCHANGED <<database, wal, writer, backups, opens, replaced>>

(* conn.backup: one consistent copy, into a temporary file.                *)
Copy(p) ==
  /\ At(p, "copy")
  /\ Goes(p, [step |-> "target", from |-> openers[p].from, content |-> database, wal |-> wal])
  /\ UNCHANGED <<database, wal, writer, backups, opens, replaced>>

Named(p, suffixed) ==
  [version |-> openers[p].from, suffixed |-> suffixed,
   content |-> openers[p].content, wal |-> openers[p].wal]

Kept(p) == [content |-> openers[p].content, wal |-> openers[p].wal]
Bytes(b) == [content |-> b.content, wal |-> b.wal]
Taken(p) == {b \in backups : b.version = openers[p].from /\ ~b.suffixed}

(* The plain name if it is free, this copy's own name if another copy has  *)
(* it, and no file at all if this copy is kept already.                    *)
Target(p) ==
  /\ At(p, "target")
  /\ Goes(p,
       IF \E b \in Taken(p) : Bytes(b) = Kept(p) \/ Named(p, TRUE) \in backups
       THEN [step |-> "begin"]
       ELSE [step |-> "link", file |-> Named(p, Taken(p) # {})])
  /\ UNCHANGED <<database, wal, writer, backups, opens, replaced>>

(* os.link refuses a name that was taken meanwhile; the same bytes do.     *)
Link(p) ==
  LET file == openers[p].file
      there == {b \in backups : b.version = file.version /\ b.suffixed = file.suffixed
                                  /\ (b.suffixed => Bytes(b) = Bytes(file))}
  IN
  /\ At(p, "link")
  /\ backups' = IF there = {} THEN backups \cup {file} ELSE backups
  /\ Goes(p, IF \A b \in there : Bytes(b) = Bytes(file) THEN [step |-> "begin"] ELSE Closed)
  /\ UNCHANGED <<database, wal, writer, opens, replaced>>

(* PRAGMA journal_mode=WAL is outside the transaction that follows it; an  *)
(* opener that waits for the lock in vain gives up.                        *)
Begin(p) ==
  /\ At(p, "begin")
  /\ wal' = TRUE
  /\ \/ writer = Nobody /\ writer' = p /\ Goes(p, [step |-> "repair"])
     \/ writer # Nobody /\ UNCHANGED writer /\ Goes(p, Closed)
  /\ UNCHANGED <<database, backups, opens, replaced>>

(* Tables, columns, the check of both and the version marker: committed    *)
(* together.                                                               *)
Repair(p) ==
  /\ At(p, "repair")
  /\ database' = [database EXCEPT !.version = Current, !.sound = TRUE]
  /\ replaced' = IF database' = database THEN replaced ELSE replaced \cup {database}
  /\ writer' = Nobody
  /\ Goes(p, [step |-> "open"])
  /\ UNCHANGED <<wal, backups, opens>>

(* An error or the end of the process: the transaction is rolled back and  *)
(* the copy that was not linked is not kept.                               *)
Stop(p) ==
  /\ ~At(p, "closed")
  /\ writer' = IF writer = p THEN Nobody ELSE writer
  /\ Goes(p, Closed)
  /\ UNCHANGED <<database, wal, backups, opens, replaced>>

(* An older build has the database open and adds a row.                    *)
OldRow ==
  /\ database.version = 1 /\ database.rows < MaxRows /\ writer = Nobody
  /\ (\E p \in Openers : openers[p].step \in {"target", "link", "begin"}) =>
       "late row" \in MigrationHazards
  /\ database' = [database EXCEPT !.rows = @ + 1]
  /\ UNCHANGED <<wal, writer, backups, openers, opens, replaced>>

NewBuild ==
  /\ database.version \in {1, Current} /\ database.sound /\ writer = Nobody
  /\ Opening # {} => "late build" \in MigrationHazards
  /\ database' = [database EXCEPT !.version = Current + 1]
  /\ UNCHANGED <<wal, writer, backups, openers, opens, replaced>>

Next ==
  \/ \E p \in Openers : \/ Preflight(p) \/ Decide(p) \/ Copy(p) \/ Target(p)
                        \/ Link(p) \/ Begin(p) \/ Repair(p) \/ Stop(p)
  \/ OldRow \/ NewBuild

Spec == Init /\ [][Next]_vars

-----------------------------------------------------------------------------
Steps == {"closed", "checked", "copy", "target", "link", "begin", "repair", "open"}

TypeOK ==
  /\ database \in Contents /\ wal \in BOOLEAN
  /\ writer \in Openers \cup {Nobody}
  /\ backups \subseteq [version : Versions, suffixed : BOOLEAN, content : Contents, wal : BOOLEAN]
  /\ \A p \in Openers : openers[p].step \in Steps
  /\ opens \in 0 .. MaxOpens /\ replaced \subseteq Contents

(* What a repair replaces was never of a newer version, and if it was an   *)
(* older or damaged database, a file still holds it as it was: "Refuse a   *)
(* workspace produced by a newer Habitat before mutating it", "Atomically  *)
(* retain the original SQLite database before a compatibility repair",     *)
(* whoever else opens the database at the same time.                       *)
OriginalIsKept ==
  \A content \in replaced :
    /\ content.version <= Current
    /\ Legacy(content) => \E b \in backups : b.content = content
=============================================================================
