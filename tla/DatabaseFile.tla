----------------------------- MODULE DatabaseFile ------------------------------
(***************************************************************************)
(* What the store does to files: the directory as names of files, and the  *)
(* part of a database's contents that opening, creating, migrating and     *)
(* backing up look at.  A file outlives its name while a process holds it  *)
(* open.  The names ecv8.db-wal and -shm are the directory's: they belong  *)
(* to whichever database was last opened as ecv8.db.                       *)
(***************************************************************************)
EXTENDS Naturals

CONSTANTS
  File,         \* files (inodes)
  Backup,       \* names of backups
  DatabaseName, \* "ecv8.db"
  MaxVersion,   \* bound: the newest migration any binary knows
  Null

ASSUME FileAssumption ==
  /\ MaxVersion \in Nat \ {0}
  /\ DatabaseName \notin Backup /\ Null \notin File

VARIABLES
  dir,          \* the file that a name stands for, or Null
  side,         \* the database that each sidecar belongs to, or Null
  file          \* contents

files == <<dir, side, file>>

Name == Backup \cup {DatabaseName}
Sidecar == {"wal", "shm"}

\* marker: PRAGMA application_id; version: PRAGMA user_version; wal: the journal
\* mode; admin: the seeded administrator's row; torn: a sidecar of it was taken
\* away, so what it says is no longer known; copy: how far VACUUM INTO has come.
Content == [marker: {"none", "ecv8", "foreign"}, version: 0..MaxVersion,
  wal: BOOLEAN, admin: BOOLEAN, torn: BOOLEAN, copy: {"begun", "filling", "full"}]

Blank == [marker |-> "none", version |-> 0, wal |-> FALSE, admin |-> FALSE,
  torn |-> FALSE, copy |-> "full"]

FilesTypeOK ==
  /\ dir \in [Name -> File \cup {Null}]
  /\ side \in [Sidecar -> File \cup {Null}]
  /\ file \in [File -> Content]

Exists(n) == dir[n] # Null
Named == {dir[n] : n \in Name}

\* Of a torn database a process may find anything this program can have written.
Seen(f) ==
  IF file[f].torn THEN {c \in Content : c.marker # "foreign"} ELSE {file[f]}

NewFile(n, f, content) ==
  /\ dir' = [dir EXCEPT ![n] = f]
  /\ file' = [file EXCEPT ![f] = content]
  /\ UNCHANGED side
Unlink(n) == dir' = [dir EXCEPT ![n] = Null]
Write(f, content) ==
  /\ file' = [file EXCEPT ![f] = IF @.torn THEN @ ELSE content]
  /\ UNCHANGED <<dir, side>>

\* Removing ecv8.db-wal or -shm.  If it is the one of the database that ecv8.db
\* is by now, who holds that goes on with a log that nobody else will find.
Torn == [Blank EXCEPT !.wal = TRUE, !.torn = TRUE]
UnlinkSidecar(s) ==
  /\ side' = [side EXCEPT ![s] = Null]
  /\ file' = [f \in File |->
       IF f = dir[DatabaseName] /\ f = side[s] THEN Torn ELSE file[f]]
  /\ UNCHANGED dir

\* O_EXCL: the name must be free.
CreateOrTruncateFile(f) ==                                       \* mutant
  NewFile(DatabaseName, IF Exists(DatabaseName) THEN dir[DatabaseName] ELSE f, Blank)
CreateFile(f) == ~Exists(DatabaseName) /\ NewFile(DatabaseName, f, Blank)

\* No tables yet: a new file, or one whose creator got no further.
IsEmpty(c) == c.version = 0 /\ c.marker # "foreign"
Ours(c) == c.marker = "ecv8"
Accepts(c, latest) == (IsEmpty(c) \/ Ours(c)) /\ c.version <= latest

SetWAL(f) == Write(f, [file[f] EXCEPT !.wal = TRUE])

(***************************************************************************)
(* sqlitemigration.Migrate: the marker first, then each missing migration  *)
(* in a transaction of its own, which starts by reading the version again. *)
(***************************************************************************)
Mark(f) ==
  /\ file[f].marker = "none"
  /\ Write(f, [file[f] EXCEPT !.marker = "ecv8"])

Migrate(f, latest) ==
  /\ Ours(file[f]) /\ file[f].version < latest
  /\ Write(f, [file[f] EXCEPT !.version = @ + 1])

MarkedIsEnough(f, latest) == \E c \in Seen(f) : Ours(c)           \* mutant
Migrated(f, latest) == \E c \in Seen(f) : Ours(c) /\ c.version >= latest

InsertAdmin(f) == Write(f, [file[f] EXCEPT !.admin = TRUE])

(***************************************************************************)
(* VACUUM INTO creates its target, or takes one that has no contents yet,  *)
(* and fills it from one snapshot; who comes second to the filling fails.  *)
(* Of the copy only how far it has come is kept, not what it is a copy of. *)
(***************************************************************************)
BeginCopy(n, new) == ~Exists(n) /\ NewFile(n, new, [Blank EXCEPT !.copy = "begun"])
JoinCopy(n, f) == f = dir[n] /\ file[f].copy = "begun" /\ UNCHANGED files
FillCopy(new) ==
  /\ file[new].copy = "begun"
  /\ file' = [file EXCEPT ![new].copy = "filling"] /\ UNCHANGED <<dir, side>>
EndCopy(new) == file' = [file EXCEPT ![new].copy = "full"] /\ UNCHANGED <<dir, side>>
================================================================================
