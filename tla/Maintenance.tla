------------------------------ MODULE Maintenance ------------------------------
(***************************************************************************)
(* The processes that open one database directory: ecdb's create, upgrade, *)
(* verify, backup and compact, and ecapi serving.  Each is the steps its   *)
(* call of the store takes on files; any may fail or be killed at each.    *)
(***************************************************************************)
EXTENDS DatabaseFile

CONSTANTS
  Proc,         \* slots for processes
  Latest,       \* per process, the newest migration its binary knows
  MaxSecond     \* bound of the clock that names backups

ASSUME MaintenanceAssumption ==
  /\ Latest \in [Proc -> 1..MaxVersion]
  /\ MaxSecond \in Nat \ {0} /\ Backup = 1..MaxSecond

VARIABLES
  proc,         \* what each process is at
  second,       \* the time of day
  abandoned     \* history: part-written files whose writer was killed

vars == <<files, proc, second, abandoned>>

\* ecdb upgrade takes the steps of serve: it opens for writing, which migrates.
Command == {"create", "serve", "inspect", "backup", "compact"}
PC == {"idle", "create", "open", "check", "wal", "migrate", "seed", "stat",
       "vacuum", "copy", "fill", "chmod", "compact", "done",
       "unlink", "unlinkWal", "unlinkShm"}

ProcRow == [pc: PC, cmd: Command \cup {Null}, conn: File \cup {Null},
  made: File \cup {Null}, admin: BOOLEAN, out: Backup \cup {Null}]

Idle == [pc |-> "idle", cmd |-> Null, conn |-> Null, made |-> Null,
  admin |-> FALSE, out |-> Null]

TypeOK ==
  /\ FilesTypeOK
  /\ proc \in [Proc -> ProcRow]
  /\ second \in 1..MaxSecond
  /\ abandoned \subseteq File

\* What an operator may have put there: nothing, a file of another program, or
\* a backup of any version copied into place, which is not in WAL mode.
Found ==
  {[Blank EXCEPT !.marker = "foreign"]} \cup
  {[Blank EXCEPT !.marker = "ecv8", !.version = v, !.admin = TRUE] :
     v \in 1..MaxVersion}

Init ==
  /\ \/ /\ dir = [n \in Name |-> Null]
        /\ file = [f \in File |-> Blank]
     \/ \E f \in File, c \in Found :
          /\ dir = [n \in Name |-> IF n = DatabaseName THEN f ELSE Null]
          /\ file = [g \in File |-> IF g = f THEN c ELSE Blank]
  /\ side = [s \in Sidecar |-> Null]
  /\ proc = [p \in Proc |-> Idle]
  /\ second = 1 /\ abandoned = {}

At(p, pc) == proc[p].pc = pc
Is(p, cmds) == proc[p].cmd \in cmds
Conn(p) == proc[p].conn
Copying(p) == proc[p].pc \in {"copy", "fill"}
Become(p, row) == proc' = [proc EXCEPT ![p] = row]
Go(p, pc) == Become(p, [proc[p] EXCEPT !.pc = pc])
Fresh == File \ (Named \cup abandoned \cup {side[s] : s \in Sidecar} \cup
  {proc[p].conn : p \in Proc} \cup {proc[p].made : p \in Proc})

ReadOnly == {"inspect", "backup"}
Migrating == {"create", "serve"}

(***************************************************************************)
(* Starting a command.                                                     *)
(***************************************************************************)
\* The environment names an administrator, or none; half a pair stops here.
StartCreate(p, admin) ==
  /\ At(p, "idle")
  /\ Become(p, [Idle EXCEPT !.pc = "create", !.cmd = "create", !.admin = admin])
  /\ UNCHANGED <<files, second, abandoned>>

\* persistentPath: the database must exist.
Start(p, cmd) ==
  /\ At(p, "idle") /\ Exists(DatabaseName)
  /\ Become(p, [Idle EXCEPT !.pc = "open", !.cmd = cmd])
  /\ UNCHANGED <<files, second, abandoned>>

(***************************************************************************)
(* CreatePersistentStore and openPersistent.                               *)
(***************************************************************************)
Create(p) ==
  /\ At(p, "create")
  /\ \E f \in Fresh :
       /\ CreateFile(f)
       /\ Become(p, [proc[p] EXCEPT !.pc = "open", !.made = f])
  /\ UNCHANGED <<second, abandoned>>

\* The first connection.  With OpenWAL, opening it sets the journal mode; in WAL
\* mode the database takes the sidecars, recovering its own and replacing others.
Open(p) ==
  /\ At(p, "open") /\ Exists(DatabaseName)
  /\ LET f == dir[DatabaseName]
         wal == Is(p, Migrating) \/ file[f].wal IN
       /\ Become(p, [proc[p] EXCEPT !.pc = "check", !.conn = f])
       /\ file' = [file EXCEPT ![f].wal = wal]
       /\ side' = IF wal THEN [s \in Sidecar |-> f] ELSE side
  /\ UNCHANGED <<dir, second, abandoned>>

\* initializePersistent, up to its first write.
CheckReadOnly(p) ==
  /\ At(p, "check") /\ Is(p, ReadOnly)
  /\ \E c \in Seen(Conn(p)) :
       Ours(c) /\ (Is(p, {"backup"}) => c.version = Latest[p])
  /\ Go(p, IF Is(p, {"backup"}) THEN "stat" ELSE "done")
  /\ UNCHANGED <<files, second, abandoned>>

CheckWritable(p) ==
  /\ At(p, "check") /\ ~Is(p, ReadOnly)
  /\ \E c \in Seen(Conn(p)) :
       Accepts(c, Latest[p]) /\ (Is(p, {"compact"}) => c.version = Latest[p])
  /\ Go(p, IF Is(p, {"compact"}) THEN "compact" ELSE "wal")
  /\ UNCHANGED <<files, second, abandoned>>

EnsureWAL(p) ==
  /\ At(p, "wal")
  /\ SetWAL(Conn(p))
  /\ Go(p, "migrate")
  /\ UNCHANGED <<second, abandoned>>

MigrateStep(p) ==
  /\ At(p, "migrate")
  /\ Mark(Conn(p)) \/ Migrate(Conn(p), Latest[p])
  /\ UNCHANGED <<proc, second, abandoned>>

MigrateEnds(p) ==
  /\ At(p, "migrate") /\ Migrated(Conn(p), Latest[p])
  /\ Go(p, IF Is(p, {"create"}) THEN "seed" ELSE "done")
  /\ UNCHANGED <<files, second, abandoned>>

SeedNobody(p) ==                                                \* mutant
  /\ At(p, "seed")
  /\ UNCHANGED files
  /\ Go(p, "done")
  /\ UNCHANGED <<second, abandoned>>
SeedInitialAdmin(p) ==
  /\ At(p, "seed")
  /\ IF proc[p].admin THEN InsertAdmin(Conn(p)) ELSE UNCHANGED files
  /\ Go(p, "done")
  /\ UNCHANGED <<second, abandoned>>

(***************************************************************************)
(* BackupPersistent and CompactPersistent.                                 *)
(***************************************************************************)
\* The name is the second; the suffix of --version is left out.
Stat(p) ==
  /\ At(p, "stat") /\ ~Exists(second)
  /\ Become(p, [proc[p] EXCEPT !.pc = "vacuum", !.out = second])
  /\ UNCHANGED <<files, second, abandoned>>

VacuumInto(p) ==
  /\ At(p, "vacuum")
  /\ \E f \in File :
       /\ \/ f \in Fresh /\ BeginCopy(proc[p].out, f)
          \/ JoinCopy(proc[p].out, f)
       /\ Become(p, [proc[p] EXCEPT !.pc = "copy", !.made = f])
  /\ UNCHANGED <<second, abandoned>>

VacuumIntoFills(p) ==
  /\ At(p, "copy")
  /\ FillCopy(proc[p].made)
  /\ Go(p, "fill")
  /\ UNCHANGED <<second, abandoned>>

VacuumIntoEnds(p) ==
  /\ At(p, "fill")
  /\ EndCopy(proc[p].made)
  /\ Go(p, "chmod")
  /\ UNCHANGED <<second, abandoned>>

\* Chmod goes by name; the mode is left out.
SetMode(p) ==
  /\ At(p, "chmod") /\ Exists(proc[p].out)
  /\ Go(p, "done")
  /\ UNCHANGED <<files, second, abandoned>>

\* VACUUM rewrites the file with the same contents.
Vacuum(p) ==
  /\ At(p, "compact")
  /\ Go(p, "done")
  /\ UNCHANGED <<files, second, abandoned>>

(***************************************************************************)
(* Endings.  A call fails when a file is refused, another process has the  *)
(* lock, the context is done or the disk gives up; what it undoes depends  *)
(* on how far it came.                                                     *)
(***************************************************************************)
\* Closing the pool: the last writer of the database under its name checkpoints
\* and removes the sidecars; they stay behind a reader, and a process killed.
Release(p) ==
  side' = IF /\ Conn(p) # Null /\ Conn(p) = dir[DatabaseName]
             /\ ~Is(p, ReadOnly) /\ \A q \in Proc \ {p} : Conn(q) # Conn(p)
          THEN [s \in Sidecar |-> Null] ELSE side

End(p) ==
  /\ At(p, "done")
  /\ Become(p, Idle)
  /\ Release(p)
  /\ UNCHANGED <<dir, file, second, abandoned>>

RemovesAnyDatabase(p) ==                                         \* mutant
  /\ Is(p, {"create"}) /\ proc[p].pc \in {"create", "open", "check", "wal", "migrate", "seed"}
RemovesDatabase(p) ==
  Is(p, {"create"}) /\ proc[p].pc \in {"open", "check", "wal", "migrate", "seed"}
LeavesBackup(p) == Is(p, {"backup"}) /\ proc[p].pc = "chmod"     \* mutant
RemovesBackup(p) == Is(p, {"backup"}) /\ proc[p].pc \in {"vacuum", "copy", "fill", "chmod"}

Fail(p) ==
  /\ proc[p].pc \notin {"idle", "done", "unlink", "unlinkWal", "unlinkShm"}
  /\ \/ /\ RemovesDatabase(p) /\ UNCHANGED dir
        /\ Become(p, [proc[p] EXCEPT !.pc = "unlink", !.conn = Null])
     \/ RemovesBackup(p) /\ Unlink(proc[p].out) /\ Become(p, Idle)
     \/ /\ ~RemovesDatabase(p) /\ ~RemovesBackup(p) /\ UNCHANGED dir
        /\ Become(p, Idle)
  /\ Release(p)
  /\ UNCHANGED <<file, second, abandoned>>

\* removeNewDatabase, one name after the other.
UnlinkDatabase(p) ==
  /\ At(p, "unlink")
  /\ Unlink(DatabaseName)
  /\ Go(p, "unlinkWal")
  /\ UNCHANGED <<side, file, second, abandoned>>
UnlinkWal(p) ==
  /\ At(p, "unlinkWal")
  /\ UnlinkSidecar("wal")
  /\ Go(p, "unlinkShm")
  /\ UNCHANGED <<second, abandoned>>
UnlinkShm(p) ==
  /\ At(p, "unlinkShm")
  /\ UnlinkSidecar("shm")
  /\ Become(p, Idle)
  /\ UNCHANGED <<second, abandoned>>

Kill(p) ==
  /\ ~At(p, "idle")
  /\ abandoned' = IF Copying(p) THEN abandoned \cup {proc[p].made} ELSE abandoned
  /\ Become(p, Idle)
  /\ UNCHANGED <<files, second>>

Tick ==
  /\ second < MaxSecond /\ second' = second + 1
  /\ UNCHANGED <<files, proc, abandoned>>

Next ==
  \/ \E p \in Proc :
       \/ \E admin \in BOOLEAN : StartCreate(p, admin)
       \/ \E cmd \in Command \ {"create"} : Start(p, cmd)
       \/ Create(p) \/ Open(p) \/ CheckReadOnly(p) \/ CheckWritable(p)
       \/ EnsureWAL(p) \/ MigrateStep(p) \/ MigrateEnds(p) \/ SeedInitialAdmin(p)
       \/ Stat(p) \/ VacuumInto(p) \/ VacuumIntoFills(p) \/ VacuumIntoEnds(p)
       \/ SetMode(p) \/ Vacuum(p) \/ End(p) \/ Fail(p)
       \/ UnlinkDatabase(p) \/ UnlinkWal(p) \/ UnlinkShm(p) \/ Kill(p)
  \/ Tick

Spec == Init /\ [][Next]_vars

(***************************************************************************)
(* Properties.                                                             *)
(***************************************************************************)
\* A create that succeeds has made the file that is now the database, put it in
\* WAL mode, marked it, brought it to its binary's schema and put the
\* administrator in it, whoever else opened or tried to create the database
\* meanwhile; of its contents nothing is said once its log was taken away.
CreatedIsWhole ==
  \A p \in Proc : At(p, "done") /\ Is(p, {"create"}) =>
    /\ dir[DatabaseName] = proc[p].made /\ file[proc[p].made].wal
    /\ \/ file[proc[p].made].torn
       \/ /\ Ours(file[proc[p].made]) /\ file[proc[p].made].version >= Latest[p]
          /\ proc[p].admin => file[proc[p].made].admin

\* Whoever opened for writing works on a marked file that has at least the
\* schema of its binary, however many processes migrated it at once, unless a
\* failed create has taken the file's log away.
UsesItsSchema ==
  \A p \in Proc : At(p, "done") /\ ~Is(p, ReadOnly) =>
    \/ file[Conn(p)].torn
    \/ Ours(file[Conn(p)]) /\ file[Conn(p)].version >= Latest[p]

\* A part-written backup is being written, or its writer was killed (ecdb's
\* README, "the part-written file is removed rather than left looking like a
\* backup").
PartialBackupsAreRemoved ==
  \A n \in Backup : Exists(n) /\ file[dir[n]].copy # "full" =>
    dir[n] \in abandoned \/ \E p \in Proc : Copying(p) /\ proc[p].made = dir[n]

\* A database loses its name only to the create that made it, while that create
\* is cleaning up after its own failure (README, "A pre-existing file is never
\* removed").
CreatorsRemoveTheirOwn ==
  [][\A f \in File : dir[DatabaseName] = f /\ dir'[DatabaseName] # f =>
       \E p \in Proc : /\ Is(p, {"create"}) /\ proc[p].made = f
                      /\ At(p, "unlink") /\ proc'[p].pc = "unlinkWal"]_vars

\* The file under the name never goes back: migrations only advance, the
\* administrator stays, and the file of another program is never made ours,
\* unless a failed create takes the file's log away.
GoesForward ==
  [][\A f \in File : dir[DatabaseName] = f /\ dir'[DatabaseName] = f =>
       file'[f].torn \/
       /\ file'[f].version >= file[f].version
       /\ file[f].admin => file'[f].admin
       /\ file[f].marker # "none" => file'[f].marker = file[f].marker]_vars

\* maintenance.go: "anything at outputPath was created by this call and can be
\* removed. It also means a backup can never overwrite an earlier one."
RemovesItsOwnBackup ==
  [][\A n \in Backup : Exists(n) /\ dir'[n] = Null =>
       \E p \in Proc : proc[p].made = dir[n] /\ proc'[p] = Idle]_vars

\* store.go: removeNewDatabase "can never delete a pre-existing database", which
\* is true of the database's name and false of its log.
OnlyItsOwnLog == \A f \in File : ~file[f].torn

\* README: "A database newer than the binary is rejected without being modified."
RefusedIsUntouched ==
  [][\A f \in File : dir[DatabaseName] = f
       /\ (\A p \in Proc : file[f].version > Latest[p]) => file'[f] = file[f]]_vars
================================================================================
