--------------------------- MODULE MaintenanceProofs ---------------------------
(***************************************************************************)
(* Theorems about Maintenance, for any number of processes, files and      *)
(* migrations, and any version of each binary.                             *)
(***************************************************************************)
EXTENDS Maintenance, TLAPS

(***************************************************************************)
(* Files.                                                                  *)
(***************************************************************************)
\* What every step does to a file: nothing is taken back, except that a torn
\* database says nothing.
Onward(c, d) ==
  /\ c.torn => d.torn
  /\ c.wal => d.wal
  /\ c.copy = "full" => d.copy = "full"
  /\ d.torn \/ /\ d.version >= c.version
               /\ c.admin => d.admin
               /\ c.marker # "none" => d.marker = c.marker
Forward(f) == Onward(file[f], file'[f])

LEMMA BlankIsContent == Blank \in Content
  BY FileAssumption DEF Blank, Content

LEMMA OnwardReflexive ==
  ASSUME NEW c \in Content
  PROVE  Onward(c, c)
  BY FileAssumption DEF Onward, Content

\* Onward, for a content that differs in nothing that Onward forbids.
LEMMA FieldsOnward ==
  ASSUME NEW c \in Content, NEW d \in Content, d.version = c.version,
         d.marker = c.marker, d.torn = c.torn, d.wal = c.wal \/ d.wal = TRUE,
         d.admin = c.admin \/ d.admin = TRUE, d.copy = c.copy \/ c.copy # "full" \/ d.copy = "full"
  PROVE  Onward(c, d)
<1>1. c.version \in Nat /\ d.version >= c.version
  BY FileAssumption DEF Content
<1> QED
  BY <1>1 DEF Onward

LEMMA AssignOnward ==
  ASSUME FilesTypeOK, NEW f \in File, NEW c \in Content, Onward(file[f], c),
         file' = [file EXCEPT ![f] = c], dir' = dir,
         side' \in [Sidecar -> File \cup {Null}]
  PROVE  /\ FilesTypeOK' /\ dir' = dir /\ \A g \in File : Forward(g)
         /\ file'[f] = c
<1>1. /\ FilesTypeOK' /\ \A g \in File : file'[g] = IF g = f THEN c ELSE file[g]
  BY DEF FilesTypeOK
<1>2. \A g \in File : file[g] \in Content
  BY DEF FilesTypeOK
<1> QED
  BY <1>1, <1>2, OnwardReflexive DEF Forward

LEMMA WriteOnward ==
  ASSUME FilesTypeOK, NEW f \in File, NEW c \in Content, Onward(file[f], c),
         Write(f, c)
  PROVE  /\ FilesTypeOK' /\ dir' = dir /\ \A g \in File : Forward(g)
         /\ file'[f] = IF file[f].torn THEN file[f] ELSE c
<1> DEFINE d == IF file[f].torn THEN file[f] ELSE c
<1>1. file[f] \in Content /\ d \in Content /\ Onward(file[f], d)
  BY OnwardReflexive DEF FilesTypeOK
<1>2. /\ file' = [file EXCEPT ![f] = d] /\ dir' = dir
      /\ side' \in [Sidecar -> File \cup {Null}]
  BY DEF Write, FilesTypeOK
<1> HIDE DEF d
<1>3. FilesTypeOK' /\ (\A g \in File : Forward(g)) /\ file'[f] = d
  BY <1>1, <1>2, AssignOnward
<1> QED
  BY <1>2, <1>3 DEF d

LEMMA SetFieldOnward ==
  ASSUME NEW c \in Content
  PROVE  /\ [c EXCEPT !.wal = TRUE] \in Content /\ [c EXCEPT !.wal = TRUE].wal = TRUE
         /\ [c EXCEPT !.admin = TRUE] \in Content /\ [c EXCEPT !.admin = TRUE].admin = TRUE
         /\ [c EXCEPT !.copy = "full"] \in Content /\ [c EXCEPT !.copy = "full"].copy = "full"
         /\ Onward(c, [c EXCEPT !.wal = TRUE]) /\ Onward(c, [c EXCEPT !.admin = TRUE])
         /\ Onward(c, [c EXCEPT !.copy = "full"])
<1>1. ASSUME NEW d \in Content, d = [c EXCEPT !.wal = TRUE]
      PROVE  d.wal = TRUE /\ Onward(c, d)
  <2>1. /\ d.version = c.version /\ d.marker = c.marker /\ d.torn = c.torn
        /\ d.admin = c.admin /\ d.copy = c.copy /\ d.wal = TRUE
    BY <1>1 DEF Content
  <2> QED
    BY <2>1, FieldsOnward
<1>2. ASSUME NEW d \in Content, d = [c EXCEPT !.admin = TRUE]
      PROVE  d.admin = TRUE /\ Onward(c, d)
  <2>1. /\ d.version = c.version /\ d.marker = c.marker /\ d.torn = c.torn
        /\ d.wal = c.wal /\ d.copy = c.copy /\ d.admin = TRUE
    BY <1>2 DEF Content
  <2> QED
    BY <2>1, FieldsOnward
<1>3. ASSUME NEW d \in Content, d = [c EXCEPT !.copy = "full"]
      PROVE  d.copy = "full" /\ Onward(c, d)
  <2>1. /\ d.version = c.version /\ d.marker = c.marker /\ d.torn = c.torn
        /\ d.wal = c.wal /\ d.admin = c.admin /\ d.copy = "full"
    BY <1>3 DEF Content
  <2> QED
    BY <2>1, FieldsOnward
<1>4. /\ [c EXCEPT !.wal = TRUE] \in Content /\ [c EXCEPT !.admin = TRUE] \in Content
      /\ [c EXCEPT !.copy = "full"] \in Content
  BY DEF Content
<1> QED
  BY <1>1, <1>2, <1>3, <1>4

LEMMA SetWALOnward ==
  ASSUME FilesTypeOK, NEW f \in File, SetWAL(f)
  PROVE  FilesTypeOK' /\ dir' = dir /\ \A g \in File : Forward(g)
<1> DEFINE c == [file[f] EXCEPT !.wal = TRUE]
<1>1. file[f] \in Content
  BY DEF FilesTypeOK
<1>2. c \in Content /\ Onward(file[f], c)
  BY <1>1, SetFieldOnward
<1>3. Write(f, c)
  BY DEF SetWAL
<1> HIDE DEF c
<1> QED
  BY <1>2, <1>3, WriteOnward

LEMMA MarkOnward ==
  ASSUME FilesTypeOK, NEW f \in File, Mark(f)
  PROVE  FilesTypeOK' /\ dir' = dir /\ \A g \in File : Forward(g)
<1> DEFINE c == [file[f] EXCEPT !.marker = "ecv8"]
<1>1. file[f] \in Content /\ file[f].marker = "none"
  BY DEF FilesTypeOK, Mark
<1>2. c \in Content /\ Onward(file[f], c)
  BY <1>1, FileAssumption DEF Content, Onward
<1>3. Write(f, c)
  BY DEF Mark
<1> HIDE DEF c
<1> QED
  BY <1>2, <1>3, WriteOnward

LEMMA MigrateOnward ==
  ASSUME FilesTypeOK, NEW f \in File, NEW latest \in 1..MaxVersion, Migrate(f, latest)
  PROVE  FilesTypeOK' /\ dir' = dir /\ \A g \in File : Forward(g)
<1> DEFINE c == [file[f] EXCEPT !.version = @ + 1]
<1>1. file[f] \in Content
  BY DEF FilesTypeOK
<1>2. file[f].version \in 0..MaxVersion /\ file[f].version < latest
  BY <1>1 DEF Content, Migrate
<1>3. c \in Content /\ Onward(file[f], c)
  BY <1>1, <1>2, FileAssumption DEF Content, Onward
<1>4. Write(f, c)
  BY DEF Migrate
<1> HIDE DEF c
<1> QED
  BY <1>3, <1>4, WriteOnward

LEMMA InsertAdminOnward ==
  ASSUME FilesTypeOK, NEW f \in File, InsertAdmin(f)
  PROVE  /\ FilesTypeOK' /\ dir' = dir /\ \A g \in File : Forward(g)
         /\ file'[f].torn \/ file'[f].admin
<1> DEFINE c == [file[f] EXCEPT !.admin = TRUE]
<1>1. file[f] \in Content
  BY DEF FilesTypeOK
<1>2. c \in Content /\ Onward(file[f], c) /\ c.admin = TRUE
  BY <1>1, SetFieldOnward
<1>3. Write(f, c)
  BY DEF InsertAdmin
<1> HIDE DEF c
<1> QED
  BY <1>2, <1>3, WriteOnward

LEMMA FillCopyOnward ==
  ASSUME FilesTypeOK, NEW f \in File, FillCopy(f)
  PROVE  FilesTypeOK' /\ dir' = dir /\ \A g \in File : Forward(g)
<1> DEFINE c == [file[f] EXCEPT !.copy = "filling"]
<1>1. file[f] \in Content /\ file[f].copy = "begun"
  BY DEF FilesTypeOK, FillCopy
<1>2. c \in Content
  BY <1>1 DEF Content
<1>3. /\ c.version = file[f].version /\ c.marker = file[f].marker /\ c.torn = file[f].torn
      /\ c.wal = file[f].wal /\ c.admin = file[f].admin
  BY <1>1 DEF Content
<1>4. /\ file' = [file EXCEPT ![f] = c] /\ dir' = dir
      /\ side' \in [Sidecar -> File \cup {Null}]
  BY DEF FillCopy, FilesTypeOK
<1> HIDE DEF c
<1>5. Onward(file[f], c)
  BY <1>1, <1>2, <1>3, FieldsOnward
<1> QED
  BY <1>2, <1>4, <1>5, AssignOnward

LEMMA EndCopyOnward ==
  ASSUME FilesTypeOK, NEW f \in File, EndCopy(f)
  PROVE  /\ FilesTypeOK' /\ dir' = dir /\ \A g \in File : Forward(g)
         /\ file'[f].copy = "full"
<1> DEFINE c == [file[f] EXCEPT !.copy = "full"]
<1>1. file[f] \in Content
  BY DEF FilesTypeOK
<1>2. c \in Content /\ Onward(file[f], c) /\ c.copy = "full"
  BY <1>1, SetFieldOnward
<1>3. /\ file' = [file EXCEPT ![f] = c] /\ dir' = dir
      /\ side' \in [Sidecar -> File \cup {Null}]
  BY DEF EndCopy, FilesTypeOK
<1> HIDE DEF c
<1> QED
  BY <1>2, <1>3, AssignOnward

LEMMA UnchangedOnward ==
  ASSUME FilesTypeOK, UNCHANGED <<dir, file>>, side' \in [Sidecar -> File \cup {Null}]
  PROVE  FilesTypeOK' /\ dir' = dir /\ file' = file /\ \A g \in File : Forward(g)
  BY OnwardReflexive DEF FilesTypeOK, Forward

LEMMA NewFileOnward ==
  ASSUME FilesTypeOK, NEW n \in Name, NEW f \in File, NEW c \in Content, NewFile(n, f, c)
  PROVE  /\ FilesTypeOK'
         /\ dir'[n] = f /\ \A m \in Name \ {n} : dir'[m] = dir[m]
         /\ \A g \in File \ {f} : Forward(g)
<1>1. \A g \in File : file[g] \in Content
  BY DEF FilesTypeOK
<1>2. /\ FilesTypeOK' /\ \A g \in File \ {f} : file'[g] = file[g]
      /\ dir'[n] = f /\ \A m \in Name \ {n} : dir'[m] = dir[m]
  BY DEF FilesTypeOK, NewFile
<1> QED
  BY <1>1, <1>2, OnwardReflexive DEF Forward

LEMMA UnlinkOnward ==
  ASSUME FilesTypeOK, NEW n \in Name, Unlink(n), UNCHANGED file,
         side' \in [Sidecar -> File \cup {Null}]
  PROVE  /\ FilesTypeOK'
         /\ dir'[n] = Null /\ \A m \in Name \ {n} : dir'[m] = dir[m]
         /\ \A g \in File : Forward(g)
<1>1. \A g \in File : file[g] \in Content
  BY DEF FilesTypeOK
<1>2. /\ FilesTypeOK' /\ file' = file
      /\ dir'[n] = Null /\ \A m \in Name \ {n} : dir'[m] = dir[m]
  BY DEF FilesTypeOK, Unlink
<1> QED
  BY <1>1, <1>2, OnwardReflexive DEF Forward

\* To take a sidecar away is to tear, at the worst.
LEMMA UnlinkSidecarOnward ==
  ASSUME FilesTypeOK, NEW s \in Sidecar, UnlinkSidecar(s)
  PROVE  FilesTypeOK' /\ dir' = dir /\ \A g \in File : Forward(g)
<1>1. Torn \in Content /\ Torn.torn = TRUE /\ Torn.wal = TRUE /\ Torn.copy = "full"
  <2>1. Blank \in Content /\ Blank.copy = "full"
    BY BlankIsContent DEF Blank
  <2> QED
    BY <2>1 DEF Torn, Content
<1>2. \A g \in File : file[g] \in Content
  BY DEF FilesTypeOK
<1>3. /\ dir' = dir /\ side' \in [Sidecar -> File \cup {Null}]
      /\ file' = [g \in File |-> IF g = dir[DatabaseName] /\ g = side[s] THEN Torn ELSE file[g]]
  BY DEF FilesTypeOK, UnlinkSidecar
<1> HIDE DEF Torn
<1>4. FilesTypeOK'
  BY <1>1, <1>2, <1>3 DEF FilesTypeOK
<1>5. \A g \in File : Onward(file[g], Torn)
  BY <1>1 DEF Onward
<1>6. ASSUME NEW g \in File PROVE Forward(g)
  <2>1. file'[g] = Torn \/ file'[g] = file[g]
    BY <1>3
  <2>2. Onward(file[g], file[g])
    BY <1>2, OnwardReflexive
  <2> QED
    BY <1>5, <2>1, <2>2 DEF Forward
<1> QED
  BY <1>3, <1>4, <1>6

(***************************************************************************)
(* The invariant.                                                          *)
(***************************************************************************)
Opened == {"check", "wal", "migrate", "seed", "stat", "vacuum", "copy", "fill", "chmod",
           "compact", "done"}
Creating == {"open", "check", "wal", "migrate", "seed", "done", "unlink"}
Removing == {"unlink", "unlinkWal", "unlinkShm"}
Targeting == {"vacuum", "copy", "fill", "chmod"}
BackingUp == {"stat"} \cup Targeting

\* What a process knows of the files it works on, by how far it has come.
ConnOK(p) == proc[p].pc \in Opened => Conn(p) \in File
CommandOK(p) ==
  /\ ~At(p, "idle") => proc[p].cmd \in Command
  /\ proc[p].pc \in {"wal", "migrate"} => Is(p, Migrating)
  /\ proc[p].pc \in {"seed"} \cup Removing => Is(p, {"create"})
  /\ At(p, "compact") => Is(p, {"compact"})
  /\ proc[p].pc \in BackingUp => Is(p, {"backup"})
TargetOK(p) ==
  /\ proc[p].pc \in Targeting => proc[p].out \in Backup
  /\ Copying(p) =>
       /\ proc[p].made \in File
       /\ \A n \in Name : dir[n] = proc[p].made => n = proc[p].out

\* While a create runs, the name stands for the file that it has made.
Holds(p) == Is(p, {"create"}) /\ proc[p].pc \in Creating
Owns(p) ==
  Holds(p) =>
    /\ proc[p].made \in File /\ dir[DatabaseName] = proc[p].made
    /\ proc[p].pc \notin {"open", "unlink"} => Conn(p) = proc[p].made /\ file[Conn(p)].wal
    /\ At(p, "done") => file[Conn(p)].torn \/ (proc[p].admin => file[Conn(p)].admin)
Fits(c, latest) == c.torn \/ (Ours(c) /\ c.version >= latest)
SchemaOK(p) ==
  proc[p].pc \in {"seed", "compact", "done"} /\ ~Is(p, ReadOnly) =>
    Fits(file[Conn(p)], Latest[p])

Knows(p) == ConnOK(p) /\ CommandOK(p) /\ TargetOK(p) /\ Owns(p) /\ SchemaOK(p)

\* O_EXCL lets in one create at a time, and no file has two names.
OneCreate == \A p, q \in Proc : Holds(p) /\ Holds(q) => p = q
NamesApart == \A m, n \in Name : dir[m] = dir[n] /\ dir[m] # Null => m = n

Inv ==
  /\ TypeOK /\ OneCreate /\ NamesApart /\ PartialBackupsAreRemoved
  /\ \A p \in Proc : Knows(p)

LEMMA IdleKnows ==
  ASSUME NEW p \in Proc, proc[p] = Idle
  PROVE  Knows(p) /\ ~Holds(p)
<1>1. proc[p].pc = "idle" /\ proc[p].cmd = Null
  BY DEF Idle
<1>2. ~Holds(p) /\ Owns(p)
  BY <1>1 DEF Owns, Holds, Creating
<1>3. ConnOK(p) /\ CommandOK(p) /\ TargetOK(p) /\ SchemaOK(p)
  BY <1>1 DEF ConnOK, CommandOK, TargetOK, SchemaOK, Opened, BackingUp, Targeting,
     Removing, At, Copying
<1> QED
  BY <1>2, <1>3 DEF Knows

LEMMA IdleKnowsNext ==
  ASSUME NEW p \in Proc, proc'[p] = Idle
  PROVE  Knows(p)'
<1>1. proc'[p].pc = "idle" /\ proc'[p].cmd = Null
  BY DEF Idle
<1>2. Owns(p)'
  BY <1>1 DEF Owns, Holds, Creating
<1>3. ConnOK(p)' /\ CommandOK(p)' /\ TargetOK(p)' /\ SchemaOK(p)'
  BY <1>1 DEF ConnOK, CommandOK, TargetOK, SchemaOK, Opened, BackingUp, Targeting,
     Removing, At, Copying
<1> QED
  BY <1>2, <1>3 DEF Knows

LEMMA InitInv == Init => Inv
<1> SUFFICES ASSUME Init PROVE Inv
  OBVIOUS
<1>1. ASSUME NEW c \in Found PROVE c \in Content
  <2>1. CASE c = [Blank EXCEPT !.marker = "foreign"]
    BY <2>1, BlankIsContent DEF Content
  <2>2. ASSUME NEW v \in 1..MaxVersion,
               c = [Blank EXCEPT !.marker = "ecv8", !.version = v, !.admin = TRUE]
        PROVE  c \in Content
    <3>1. v \in 0..MaxVersion
      BY FileAssumption
    <3> QED
      BY <2>2, <3>1, BlankIsContent DEF Content
  <2> QED
    BY <2>1, <2>2 DEF Found
<1>2. FilesTypeOK
  BY <1>1, BlankIsContent DEF Init, FilesTypeOK, Name
<1>3. TypeOK
  BY <1>2, MaintenanceAssumption DEF Init, TypeOK, Idle, ProcRow, PC
<1>4. OneCreate
  BY IdleKnows DEF Init, OneCreate
<1>5. NamesApart
  BY FileAssumption DEF Init, NamesApart, Name
<1>6. PartialBackupsAreRemoved
  BY FileAssumption DEF Init, PartialBackupsAreRemoved, Exists, Name
<1>7. \A p \in Proc : Knows(p)
  BY IdleKnows DEF Init
<1> QED
  BY <1>3, <1>4, <1>5, <1>6, <1>7 DEF Inv

(***************************************************************************)
(* What a step of one process may do to the others.                        *)
(***************************************************************************)
\* p steps; the files that others know go forward, at most one name changes hands,
\* the database's only when it was free or p removes what it has made, and a new
\* file is p's.
RemovesName(p) == At(p, "unlink") /\ proc'[p].pc = "unlinkWal"
Steps(p) ==
  /\ TypeOK'
  /\ \A q \in Proc \ {p} : proc'[q] = proc[q]
  /\ \A f \in File \ Fresh : Forward(f)
  /\ \E m \in Name : \A n \in Name \ {m} : dir'[n] = dir[n]
  /\ \A n \in Name : dir'[n] = dir[n] \/ dir'[n] = Null \/ dir'[n] \in Fresh
  /\ dir'[DatabaseName] = dir[DatabaseName] \/ dir[DatabaseName] = Null \/ RemovesName(p)
  /\ Holds(p)' => Holds(p) \/ dir[DatabaseName] = Null
  /\ abandoned \subseteq abandoned'
  /\ \A n \in Backup : dir'[n] = dir[n] \/ dir'[n] = Null
       \/ (proc'[p].pc = "copy" /\ proc'[p].made = dir'[n])
  /\ Copying(p) =>
       \/ file'[proc[p].made].copy = "full"
       \/ dir'[proc[p].out] = Null
       \/ proc[p].made \in abandoned'
       \/ Copying(p)' /\ proc'[p].made = proc[p].made

LEMMA NotFresh ==
  ASSUME TypeOK
  PROVE  /\ \A n \in Name : dir[n] \in File => dir[n] \in File \ Fresh
         /\ \A p \in Proc : /\ Conn(p) \in File => Conn(p) \in File \ Fresh
                            /\ proc[p].made \in File => proc[p].made \in File \ Fresh
  BY DEF Fresh, Named, Conn

LEMMA FitsOnward ==
  ASSUME NEW c \in Content, NEW d \in Content, Onward(c, d), NEW q \in Proc,
         Fits(c, Latest[q])
  PROVE  Fits(d, Latest[q])
<1>1. c.version \in Nat /\ d.version \in Nat /\ Latest[q] \in Nat
  BY MaintenanceAssumption, FileAssumption DEF Content
<1> QED
  BY <1>1 DEF Fits, Onward, Ours

LEMMA OthersKnow ==
  ASSUME Inv, NEW p \in Proc, Steps(p), NEW q \in Proc \ {p}
  PROVE  Knows(q)'
<1>1. proc'[q] = proc[q] /\ Knows(q)
  BY DEF Inv, Steps
<1>2. ConnOK(q)' /\ CommandOK(q)'
  BY <1>1 DEF Knows, ConnOK, CommandOK, At, Is, Conn
<1>3. TargetOK(q)'
  <2>1. ASSUME Copying(q), NEW n \in Name, dir'[n] = proc[q].made
        PROVE  n = proc[q].out
    <3>1. proc[q].made \in File \ Fresh
      BY <1>1, <2>1, NotFresh DEF Inv, Knows, TargetOK
    <3>2. dir'[n] = dir[n]
      BY <2>1, <3>1, FileAssumption DEF Steps
    <3> QED
      BY <1>1, <2>1, <3>2 DEF Knows, TargetOK
  <2> QED
    BY <1>1, <2>1 DEF Knows, TargetOK, Copying
<1>4. ASSUME proc[q].pc \in Opened
      PROVE  Onward(file[Conn(q)], file'[Conn(q)])
  BY <1>1, <1>4, NotFresh DEF Knows, ConnOK, Inv, Steps, Forward
<1>5. Owns(q)'
  <2> SUFFICES ASSUME Holds(q)
               PROVE  Owns(q)'
    BY <1>1 DEF Owns, Holds, Is
  <2>1. proc[q].made \in File /\ dir[DatabaseName] = proc[q].made
    BY <1>1 DEF Knows, Owns
  <2>2. ~RemovesName(p)
    <3>1. ASSUME RemovesName(p)
          PROVE  Holds(p)
      BY <3>1 DEF RemovesName, At, Holds, Creating, Removing, Inv, Knows, CommandOK
    <3> QED
      BY <3>1 DEF Inv, OneCreate
  <2>3. dir'[DatabaseName] = dir[DatabaseName]
    BY <2>1, <2>2, FileAssumption DEF Steps
  <2>4. ASSUME proc[q].pc \notin {"open", "unlink"}
        PROVE  /\ Conn(q) = proc[q].made /\ Onward(file[Conn(q)], file'[Conn(q)])
               /\ file[Conn(q)].wal
               /\ At(q, "done") => file[Conn(q)].torn \/ (proc[q].admin => file[Conn(q)].admin)
    BY <1>1, <1>4, <2>4 DEF Knows, Owns, Holds, Creating, Opened
  <2> QED
    BY <1>1, <2>1, <2>3, <2>4 DEF Owns, At, Is, Conn, Onward
<1>6. SchemaOK(q)'
  <2> SUFFICES ASSUME proc[q].pc \in {"seed", "compact", "done"}, ~Is(q, ReadOnly)
               PROVE  Fits(file'[Conn(q)], Latest[q])
    BY <1>1 DEF SchemaOK, Is, Conn
  <2>1. Conn(q) \in File /\ Onward(file[Conn(q)], file'[Conn(q)])
    BY <1>1, <1>4 DEF Knows, ConnOK, Opened
  <2>2. Fits(file[Conn(q)], Latest[q])
    BY <1>1 DEF Knows, SchemaOK
  <2> QED
    BY <2>1, <2>2, FitsOnward DEF Inv, Steps, TypeOK, FilesTypeOK
<1> QED
  BY <1>2, <1>3, <1>5, <1>6 DEF Knows

LEMMA StaysOne ==
  ASSUME Inv, NEW p \in Proc, Steps(p)
  PROVE  OneCreate'
<1>1. ASSUME NEW q \in Proc \ {p} PROVE Holds(q)' <=> Holds(q)
  BY <1>1 DEF Steps, Holds, Is
<1>2. ASSUME NEW q \in Proc, Holds(q)
      PROVE  dir[DatabaseName] # Null
  BY <1>2, FileAssumption DEF Inv, Knows, Owns
<1>3. Holds(p)' => Holds(p) \/ dir[DatabaseName] = Null
  BY DEF Steps
<1> QED
  BY <1>1, <1>2, <1>3 DEF Inv, OneCreate

LEMMA StaysApart ==
  ASSUME Inv, NEW p \in Proc, Steps(p)
  PROVE  NamesApart'
<1> SUFFICES ASSUME NEW m \in Name, NEW n \in Name, dir'[m] = dir'[n], dir'[m] # Null,
                    dir'[n] = dir[n]
             PROVE  m = n
  <2>1. PICK k \in Name : \A i \in Name \ {k} : dir'[i] = dir[i]
    BY DEF Steps
  <2> QED
    BY <2>1 DEF NamesApart
<1>1. dir[n] \in File \ Fresh
  BY NotFresh DEF Inv, TypeOK, FilesTypeOK
<1>2. dir'[m] = dir[m]
  BY <1>1 DEF Steps
<1> QED
  BY <1>2 DEF Inv, NamesApart

LEMMA PartialStaysRemoved ==
  ASSUME Inv, NEW p \in Proc, Steps(p)
  PROVE  PartialBackupsAreRemoved'
<1> SUFFICES ASSUME NEW n \in Backup, dir'[n] # Null, file'[dir'[n]].copy # "full"
             PROVE  \/ dir'[n] \in abandoned'
                    \/ \E q \in Proc : Copying(q)' /\ proc'[q].made = dir'[n]
  BY DEF PartialBackupsAreRemoved, Exists
<1>1. CASE proc'[p].pc = "copy" /\ proc'[p].made = dir'[n]
  BY <1>1 DEF Copying
<1>2. CASE dir'[n] = dir[n]
  <2>1. dir[n] \in File \ Fresh
    BY <1>2, NotFresh DEF Inv, TypeOK, FilesTypeOK, Name
  <2>2. Forward(dir[n])
    BY <2>1 DEF Steps
  <2>3. file[dir[n]].copy # "full"
    BY <1>2, <2>2 DEF Forward, Onward
  <2>4. dir[n] \in abandoned \/ \E q \in Proc : Copying(q) /\ proc[q].made = dir[n]
    BY <1>2, <2>3 DEF Inv, PartialBackupsAreRemoved, Exists
  <2>5. CASE dir[n] \in abandoned
    BY <1>2, <2>5 DEF Steps
  <2>6. ASSUME NEW q \in Proc \ {p}, Copying(q), proc[q].made = dir[n]
        PROVE  Copying(q)' /\ proc'[q].made = dir'[n]
    BY <1>2, <2>6 DEF Steps, Copying
  <2>7. ASSUME Copying(p), proc[p].made = dir[n]
        PROVE  dir'[n] \in abandoned' \/ (Copying(p)' /\ proc'[p].made = dir'[n])
    <3>1. n = proc[p].out
      BY <2>7 DEF Inv, Knows, TargetOK, Name
    <3> QED
      BY <1>2, <2>7, <3>1 DEF Steps
  <2> QED
    BY <2>4, <2>5, <2>6, <2>7
<1> QED
  BY <1>1, <1>2 DEF Steps

\* It is left to show, for each action, that it is such a step and that the process
\* itself knows afterwards what it should.
LEMMA StepInv ==
  ASSUME Inv, NEW p \in Proc, Steps(p), Knows(p)'
  PROVE  Inv'
<1>1. \A q \in Proc : Knows(q)'
  BY OthersKnow
<1> QED
  BY <1>1, StaysOne, StaysApart, PartialStaysRemoved DEF Inv, Steps

LEMMA BecomeRow ==
  ASSUME TypeOK, NEW p \in Proc, NEW row \in ProcRow, Become(p, row)
  PROVE  /\ proc' \in [Proc -> ProcRow] /\ proc'[p] = row
         /\ \A q \in Proc \ {p} : proc'[q] = proc[q]
  BY DEF TypeOK, Become

LEMMA QuietStep ==
  ASSUME Inv, NEW p \in Proc, NEW row \in ProcRow, Become(p, row),
         FilesTypeOK', dir' = dir, \A g \in File : Forward(g),
         second' = second, abandoned' \subseteq File, abandoned \subseteq abandoned',
         row.cmd = "create" /\ row.pc \in Creating => Holds(p),
         Copying(p) => \/ file'[proc[p].made].copy = "full"
                       \/ proc[p].made \in abandoned'
                       \/ row.pc = "fill" /\ row.made = proc[p].made
  PROVE  Steps(p)
<1>1. /\ proc' \in [Proc -> ProcRow] /\ proc'[p] = row
      /\ \A q \in Proc \ {p} : proc'[q] = proc[q]
  BY BecomeRow DEF Inv
<1>2. TypeOK'
  BY <1>1 DEF Inv, TypeOK
<1>3. \A f \in File \ Fresh : Forward(f)
  OBVIOUS
<1>4. \E m \in Name : \A n \in Name \ {m} : dir'[n] = dir[n]
  BY DEF Name
<1>5. Holds(p)' => Holds(p)
  BY <1>1 DEF Holds, Is
<1>6. row.pc = "fill" /\ row.made = proc[p].made => Copying(p)' /\ proc'[p].made = proc[p].made
  BY <1>1 DEF Copying
<1> QED
  BY <1>1, <1>2, <1>3, <1>4, <1>5, <1>6 DEF Steps

\* A step that changes no more of its own row than where it is.
LEMMA Proceeds ==
  ASSUME Inv, NEW p \in Proc, NEW row \in ProcRow, Become(p, row),
         row.cmd = proc[p].cmd, row.conn = proc[p].conn, row.made = proc[p].made,
         row.admin = proc[p].admin, row.out = proc[p].out,
         FilesTypeOK', dir' = dir, \A g \in File : Forward(g),
         UNCHANGED <<second, abandoned>>,
         proc[p].pc \in Opened \ {"done"}, row.pc \in Opened \ {"copy"},
         row.pc \in {"wal", "migrate"} => Is(p, Migrating),
         row.pc = "seed" => Is(p, {"create"}),
         row.pc = "compact" => Is(p, {"compact"}),
         row.pc \in BackingUp => Is(p, {"backup"}),
         row.pc \in Targeting => proc[p].pc \in Targeting,
         row.pc = "fill" => Copying(p),
         Copying(p) => row.pc = "fill" \/ file'[proc[p].made].copy = "full",
         Is(p, {"create"}) => proc[p].pc \in Creating,
         Is(p, {"create"}) /\ row.pc = "done" =>
           file'[Conn(p)].torn \/ (proc[p].admin => file'[Conn(p)].admin),
         row.pc \in {"seed", "compact", "done"} /\ ~Is(p, ReadOnly) =>
           Fits(file'[Conn(p)], Latest[p])
  PROVE  Steps(p) /\ Knows(p)'
<1>1. proc'[p] = row
  BY BecomeRow DEF Inv
<1>2. abandoned' \subseteq File
  BY DEF Inv, TypeOK
<1>3. Steps(p)
  <2>1. row.cmd = "create" /\ row.pc \in Creating => Holds(p)
    BY DEF Holds, Is
  <2> QED
    BY <1>2, <2>1, QuietStep
<1>4. Knows(p)
  BY DEF Inv
<1>5. ConnOK(p)' /\ CommandOK(p)' /\ SchemaOK(p)'
  <2>1. ConnOK(p)'
    BY <1>1, <1>4 DEF Knows, ConnOK, Conn, Opened
  <2>2. SchemaOK(p)'
    BY <1>1 DEF SchemaOK, Is, Conn
  <2>3. CommandOK(p)'
    BY <1>1, <1>4 DEF Knows, CommandOK, At, Is, Opened, Removing
  <2> QED
    BY <2>1, <2>2, <2>3
<1>6. TargetOK(p)'
  BY <1>1, <1>4 DEF Knows, TargetOK, Copying
<1>7. Owns(p)'
  <2> SUFFICES ASSUME Is(p, {"create"}) PROVE Owns(p)'
    BY <1>1 DEF Owns, Holds, Is
  <2>1. /\ proc[p].made \in File /\ dir[DatabaseName] = proc[p].made
        /\ Conn(p) = proc[p].made /\ file[Conn(p)].wal
    BY <1>4 DEF Knows, Owns, Holds, Opened
  <2>2. file'[Conn(p)].wal
    BY <2>1 DEF Forward, Onward
  <2> QED
    BY <1>1, <2>1, <2>2 DEF Owns, At, Conn
<1> QED
  BY <1>3, <1>5, <1>6, <1>7 DEF Knows

\* A step that ends the process's command.
LEMMA Ends ==
  ASSUME Inv, NEW p \in Proc, Become(p, Idle), FilesTypeOK', dir' = dir,
         \A g \in File : Forward(g), second' = second,
         abandoned' \subseteq File, abandoned \subseteq abandoned',
         Copying(p) => proc[p].made \in abandoned'
  PROVE  Steps(p) /\ Knows(p)'
<1>1. Idle \in ProcRow /\ Idle.pc = "idle"
  BY DEF Idle, ProcRow, PC
<1>2. Steps(p)
  BY <1>1, QuietStep DEF Creating
<1>3. proc'[p] = Idle
  BY <1>1, BecomeRow DEF Inv
<1> QED
  BY <1>2, <1>3, IdleKnowsNext

(***************************************************************************)
(* The actions.                                                            *)
(***************************************************************************)
\* The rows that a step makes from its own.
LEMMA RowEdits ==
  ASSUME NEW r \in ProcRow, NEW pc \in PC
  PROVE  /\ \A f \in File : /\ [r EXCEPT !.pc = pc, !.made = f] \in ProcRow
                            /\ [r EXCEPT !.pc = pc, !.conn = f] \in ProcRow
         /\ \A n \in Backup : [r EXCEPT !.pc = pc, !.out = n] \in ProcRow
<1>1. ASSUME NEW f \in File PROVE [r EXCEPT !.pc = pc, !.made = f] \in ProcRow
  BY DEF ProcRow
<1>2. ASSUME NEW f \in File PROVE [r EXCEPT !.pc = pc, !.conn = f] \in ProcRow
  BY DEF ProcRow
<1>3. ASSUME NEW n \in Backup PROVE [r EXCEPT !.pc = pc, !.out = n] \in ProcRow
  BY DEF ProcRow
<1> QED
  BY <1>1, <1>2, <1>3

LEMMA RowFields ==
  ASSUME NEW r \in ProcRow, NEW x, NEW y
  PROVE  LET m == [r EXCEPT !.pc = x, !.made = y]
             c == [r EXCEPT !.pc = x, !.conn = y]
             o == [r EXCEPT !.pc = x, !.out = y] IN
         /\ m.pc = x /\ m.made = y /\ m.cmd = r.cmd /\ m.conn = r.conn /\ m.out = r.out
         /\ c.pc = x /\ c.conn = y /\ c.cmd = r.cmd /\ c.made = r.made /\ c.out = r.out
         /\ o.pc = x /\ o.out = y /\ o.cmd = r.cmd /\ o.made = r.made /\ o.conn = r.conn
  BY DEF ProcRow

LEMMA RowGo ==
  ASSUME TypeOK, NEW p \in Proc, NEW pc \in PC
  PROVE  LET row == [proc[p] EXCEPT !.pc = pc] IN
           /\ row \in ProcRow /\ row.pc = pc /\ row.cmd = proc[p].cmd
           /\ row.conn = proc[p].conn /\ row.made = proc[p].made
           /\ row.admin = proc[p].admin /\ row.out = proc[p].out
  BY DEF TypeOK, ProcRow

\* Proceeds, for the steps that are a Go.
LEMMA GoesOn ==
  ASSUME Inv, NEW p \in Proc, NEW pc \in Opened \ {"copy"}, Go(p, pc),
         FilesTypeOK', dir' = dir, \A g \in File : Forward(g),
         UNCHANGED <<second, abandoned>>,
         proc[p].pc \in Opened \ {"done"},
         pc \in {"wal", "migrate"} => Is(p, Migrating),
         pc = "seed" => Is(p, {"create"}),
         pc = "compact" => Is(p, {"compact"}),
         pc \in BackingUp => Is(p, {"backup"}),
         pc \in Targeting => proc[p].pc \in Targeting,
         pc = "fill" => Copying(p),
         Copying(p) => pc = "fill" \/ file'[proc[p].made].copy = "full",
         Is(p, {"create"}) => proc[p].pc \in Creating,
         Is(p, {"create"}) /\ pc = "done" =>
           file'[Conn(p)].torn \/ (proc[p].admin => file'[Conn(p)].admin),
         pc \in {"seed", "compact", "done"} /\ ~Is(p, ReadOnly) =>
           Fits(file'[Conn(p)], Latest[p])
  PROVE  Steps(p) /\ Knows(p)'
<1> DEFINE row == [proc[p] EXCEPT !.pc = pc]
<1>1. /\ row \in ProcRow /\ row.pc = pc /\ row.cmd = proc[p].cmd
      /\ row.conn = proc[p].conn /\ row.made = proc[p].made
      /\ row.admin = proc[p].admin /\ row.out = proc[p].out
  <2>1. pc \in PC
    BY DEF Opened, PC
  <2> QED
    BY <2>1, RowGo DEF Inv
<1>2. Become(p, row)
  BY DEF Go
<1> HIDE DEF row
<1> QED
  BY <1>1, <1>2, Proceeds

LEMMA CheckReadOnlyStep ==
  ASSUME Inv, NEW p \in Proc, CheckReadOnly(p)
  PROVE  Steps(p) /\ Knows(p)'
<1>1. FilesTypeOK' /\ dir' = dir /\ \A g \in File : Forward(g)
  BY UnchangedOnward DEF Inv, TypeOK, FilesTypeOK, CheckReadOnly, files
<1>2. /\ UNCHANGED <<second, abandoned>> /\ At(p, "check") /\ Is(p, ReadOnly)
      /\ Go(p, IF Is(p, {"backup"}) THEN "stat" ELSE "done")
  BY DEF CheckReadOnly
<1>3. ~Is(p, {"create"})
  BY <1>2 DEF Is, ReadOnly
<1>4. CASE Is(p, {"backup"})
  <2>1. Go(p, "stat")
    BY <1>2, <1>4
  <2> QED
    BY <1>1, <1>2, <1>3, <1>4, <2>1, GoesOn DEF At, Opened, BackingUp, Targeting, Copying
<1>5. CASE ~Is(p, {"backup"})
  <2>1. Go(p, "done")
    BY <1>2, <1>5
  <2> QED
    BY <1>1, <1>2, <1>3, <2>1, GoesOn DEF At, Opened, BackingUp, Targeting, Copying
<1> QED
  BY <1>4, <1>5

LEMMA CheckWritableStep ==
  ASSUME Inv, NEW p \in Proc, CheckWritable(p)
  PROVE  Steps(p) /\ Knows(p)'
<1>1. FilesTypeOK' /\ dir' = dir /\ file' = file /\ \A g \in File : Forward(g)
  BY UnchangedOnward DEF Inv, TypeOK, FilesTypeOK, CheckWritable, files
<1>2. /\ UNCHANGED <<second, abandoned>> /\ At(p, "check") /\ ~Is(p, ReadOnly)
      /\ \E c \in Seen(Conn(p)) :
           Accepts(c, Latest[p]) /\ (Is(p, {"compact"}) => c.version = Latest[p])
      /\ Go(p, IF Is(p, {"compact"}) THEN "compact" ELSE "wal")
  BY DEF CheckWritable
<1>3. Conn(p) \in File /\ file[Conn(p)].version \in Nat /\ Latest[p] \in Nat \ {0}
  BY <1>2, FileAssumption, MaintenanceAssumption
     DEF Inv, TypeOK, FilesTypeOK, Content, Knows, ConnOK, At, Opened
<1>4. CASE Is(p, {"compact"})
  <2>1. Go(p, "compact") /\ ~Is(p, {"create"})
    BY <1>2, <1>4 DEF Is
  <2>2. file[Conn(p)].torn \/ (Accepts(file[Conn(p)], Latest[p]) /\ file[Conn(p)].version = Latest[p])
    BY <1>2, <1>4 DEF Seen
  <2>3. Fits(file'[Conn(p)], Latest[p])
    BY <1>1, <1>3, <2>2 DEF Fits, Accepts, IsEmpty
  <2> QED
    BY <1>1, <1>2, <1>4, <2>1, <2>3, GoesOn DEF At, Opened, BackingUp, Targeting, Copying
<1>5. CASE ~Is(p, {"compact"})
  <2>1. Go(p, "wal")
    BY <1>2, <1>5
  <2>2. Is(p, Migrating)
    BY <1>2, <1>5 DEF Inv, Knows, CommandOK, Is, ReadOnly, Migrating, Command, At
  <2> QED
    BY <1>1, <1>2, <2>1, <2>2, GoesOn DEF At, Opened, BackingUp, Targeting, Copying, Creating
<1> QED
  BY <1>4, <1>5

LEMMA EnsureWALStep ==
  ASSUME Inv, NEW p \in Proc, EnsureWAL(p)
  PROVE  Steps(p) /\ Knows(p)'
<1>1. At(p, "wal") /\ Go(p, "migrate") /\ UNCHANGED <<second, abandoned>>
  BY DEF EnsureWAL
<1>2. Conn(p) \in File /\ Is(p, Migrating)
  BY <1>1 DEF Inv, Knows, ConnOK, CommandOK, At, Opened
<1>3. FilesTypeOK' /\ dir' = dir /\ \A g \in File : Forward(g)
  BY <1>2, SetWALOnward DEF Inv, TypeOK, EnsureWAL
<1> QED
  BY <1>1, <1>2, <1>3, GoesOn DEF At, Opened, BackingUp, Targeting, Copying, Creating

LEMMA MigrateStepStep ==
  ASSUME Inv, NEW p \in Proc, MigrateStep(p)
  PROVE  Steps(p) /\ Knows(p)'
<1>1. /\ At(p, "migrate") /\ UNCHANGED <<proc, second, abandoned>>
      /\ Mark(Conn(p)) \/ Migrate(Conn(p), Latest[p])
  BY DEF MigrateStep
<1>2. Conn(p) \in File /\ Is(p, Migrating) /\ Latest[p] \in 1..MaxVersion
  BY <1>1, MaintenanceAssumption DEF Inv, Knows, ConnOK, CommandOK, At, Opened
<1>3. FilesTypeOK' /\ dir' = dir /\ \A g \in File : Forward(g)
  BY <1>1, <1>2, MarkOnward, MigrateOnward DEF Inv, TypeOK
<1>4. proc[p] \in ProcRow /\ Become(p, proc[p])
  BY <1>1 DEF Inv, TypeOK, Become
<1> QED
  BY <1>1, <1>2, <1>3, <1>4, Proceeds DEF At, Opened, BackingUp, Targeting, Copying, Creating

LEMMA MigrateEndsStep ==
  ASSUME Inv, NEW p \in Proc, MigrateEnds(p)
  PROVE  Steps(p) /\ Knows(p)'
<1>1. FilesTypeOK' /\ dir' = dir /\ file' = file /\ \A g \in File : Forward(g)
  BY UnchangedOnward DEF Inv, TypeOK, FilesTypeOK, MigrateEnds, files
<1>2. /\ UNCHANGED <<second, abandoned>> /\ At(p, "migrate")
      /\ \E c \in Seen(Conn(p)) : Ours(c) /\ c.version >= Latest[p]
      /\ Go(p, IF Is(p, {"create"}) THEN "seed" ELSE "done")
  BY DEF MigrateEnds, Migrated
<1>3. Fits(file'[Conn(p)], Latest[p])
  BY <1>1, <1>2 DEF Seen, Fits
<1>4. CASE Is(p, {"create"})
  <2>1. Go(p, "seed")
    BY <1>2, <1>4
  <2> QED
    BY <1>1, <1>2, <1>3, <1>4, <2>1, GoesOn DEF At, Opened, BackingUp, Targeting, Copying, Creating
<1>5. CASE ~Is(p, {"create"})
  <2>1. Go(p, "done")
    BY <1>2, <1>5
  <2> QED
    BY <1>1, <1>2, <1>3, <1>5, <2>1, GoesOn DEF At, Opened, BackingUp, Targeting, Copying, Creating
<1> QED
  BY <1>4, <1>5

LEMMA SeedInitialAdminStep ==
  ASSUME Inv, NEW p \in Proc, SeedInitialAdmin(p)
  PROVE  Steps(p) /\ Knows(p)'
<1>1. /\ At(p, "seed") /\ Go(p, "done") /\ UNCHANGED <<second, abandoned>>
      /\ IF proc[p].admin THEN InsertAdmin(Conn(p)) ELSE UNCHANGED files
  BY DEF SeedInitialAdmin
<1>2. /\ Conn(p) \in File /\ Is(p, {"create"}) /\ ~Is(p, ReadOnly)
      /\ Fits(file[Conn(p)], Latest[p])
  BY <1>1 DEF Inv, Knows, ConnOK, CommandOK, SchemaOK, At, Is, Opened, ReadOnly
<1>3. /\ FilesTypeOK' /\ dir' = dir /\ \A g \in File : Forward(g)
      /\ file'[Conn(p)].torn \/ (proc[p].admin => file'[Conn(p)].admin)
  BY <1>1, <1>2, UnchangedOnward, InsertAdminOnward DEF Inv, TypeOK, FilesTypeOK, files
<1>4. Fits(file'[Conn(p)], Latest[p])
  BY <1>2, <1>3, FitsOnward DEF Forward, Inv, TypeOK, FilesTypeOK
<1> QED
  BY <1>1, <1>2, <1>3, <1>4, GoesOn DEF At, Opened, BackingUp, Targeting, Copying, Creating

LEMMA VacuumIntoFillsStep ==
  ASSUME Inv, NEW p \in Proc, VacuumIntoFills(p)
  PROVE  Steps(p) /\ Knows(p)'
<1>1. At(p, "copy") /\ Go(p, "fill") /\ UNCHANGED <<second, abandoned>>
  BY DEF VacuumIntoFills
<1>2. proc[p].made \in File /\ Is(p, {"backup"}) /\ ~Is(p, {"create"}) /\ Copying(p)
  BY <1>1 DEF Inv, Knows, TargetOK, CommandOK, At, Is, BackingUp, Targeting, Copying
<1>3. FilesTypeOK' /\ dir' = dir /\ \A g \in File : Forward(g)
  BY <1>2, FillCopyOnward DEF Inv, TypeOK, VacuumIntoFills
<1> QED
  BY <1>1, <1>2, <1>3, GoesOn DEF At, Opened, BackingUp, Targeting, Copying

LEMMA VacuumIntoEndsStep ==
  ASSUME Inv, NEW p \in Proc, VacuumIntoEnds(p)
  PROVE  Steps(p) /\ Knows(p)'
<1>1. At(p, "fill") /\ Go(p, "chmod") /\ UNCHANGED <<second, abandoned>>
  BY DEF VacuumIntoEnds
<1>2. proc[p].made \in File /\ Is(p, {"backup"}) /\ ~Is(p, {"create"})
  BY <1>1 DEF Inv, Knows, TargetOK, CommandOK, At, Is, BackingUp, Targeting, Copying
<1>3. FilesTypeOK' /\ dir' = dir /\ file'[proc[p].made].copy = "full" /\ \A g \in File : Forward(g)
  BY <1>2, EndCopyOnward DEF Inv, TypeOK, VacuumIntoEnds
<1> QED
  BY <1>1, <1>2, <1>3, GoesOn DEF At, Opened, BackingUp, Targeting, Copying

LEMMA SetModeStep ==
  ASSUME Inv, NEW p \in Proc, SetMode(p)
  PROVE  Steps(p) /\ Knows(p)'
<1>1. At(p, "chmod") /\ Go(p, "done") /\ UNCHANGED <<files, second, abandoned>>
  BY DEF SetMode
<1>2. Is(p, {"backup"}) /\ ~Is(p, {"create"}) /\ Is(p, ReadOnly)
  BY <1>1 DEF Inv, Knows, CommandOK, At, Is, BackingUp, Targeting, ReadOnly
<1>3. FilesTypeOK' /\ dir' = dir /\ \A g \in File : Forward(g)
  BY <1>1, UnchangedOnward DEF Inv, TypeOK, FilesTypeOK, files
<1> QED
  BY <1>1, <1>2, <1>3, GoesOn DEF At, Opened, BackingUp, Targeting, Copying

LEMMA VacuumStep ==
  ASSUME Inv, NEW p \in Proc, Vacuum(p)
  PROVE  Steps(p) /\ Knows(p)'
<1>1. /\ At(p, "compact") /\ Go(p, "done") /\ UNCHANGED <<second, abandoned>>
      /\ file' = file
  BY DEF Vacuum, files
<1>2. /\ Is(p, {"compact"}) /\ ~Is(p, {"create"}) /\ ~Is(p, ReadOnly)
      /\ Fits(file[Conn(p)], Latest[p])
  BY <1>1 DEF Inv, Knows, CommandOK, SchemaOK, At, Is, ReadOnly
<1>3. FilesTypeOK' /\ dir' = dir /\ \A g \in File : Forward(g)
  BY UnchangedOnward DEF Inv, TypeOK, FilesTypeOK, Vacuum, files
<1> QED
  BY <1>1, <1>2, <1>3, GoesOn DEF At, Opened, BackingUp, Targeting, Copying

LEMMA StartStep ==
  ASSUME Inv, NEW p \in Proc,
         \/ \E admin \in BOOLEAN : StartCreate(p, admin)
         \/ \E cmd \in Command \ {"create"} : Start(p, cmd)
  PROVE  Steps(p) /\ Knows(p)'
<1>1. PICK row \in ProcRow :
        /\ Become(p, row) /\ row.cmd \in Command /\ row.made = Null
        /\ row.pc = "create" \/ (row.pc = "open" /\ row.cmd # "create")
  <2>1. ASSUME NEW admin \in BOOLEAN, StartCreate(p, admin)
        PROVE  \E row \in ProcRow :
                 /\ Become(p, row) /\ row.cmd \in Command /\ row.made = Null
                 /\ row.pc = "create" \/ (row.pc = "open" /\ row.cmd # "create")
    <3> DEFINE row == [Idle EXCEPT !.pc = "create", !.cmd = "create", !.admin = admin]
    <3>1. /\ row \in ProcRow /\ row.cmd \in Command /\ row.made = Null
          /\ row.pc = "create"
      BY DEF Idle, ProcRow, PC, Command
    <3>2. Become(p, row)
      BY <2>1 DEF StartCreate
    <3> QED
      BY <3>1, <3>2
  <2>2. ASSUME NEW cmd \in Command \ {"create"}, Start(p, cmd)
        PROVE  \E row \in ProcRow :
                 /\ Become(p, row) /\ row.cmd \in Command /\ row.made = Null
                 /\ row.pc = "create" \/ (row.pc = "open" /\ row.cmd # "create")
    <3> DEFINE row == [Idle EXCEPT !.pc = "open", !.cmd = cmd]
    <3>1. /\ row \in ProcRow /\ row.cmd \in Command /\ row.made = Null
          /\ row.pc = "open" /\ row.cmd # "create"
      BY DEF Idle, ProcRow, PC, Command
    <3>2. Become(p, row)
      BY <2>2 DEF Start
    <3> QED
      BY <3>1, <3>2
  <2> QED
    BY <2>1, <2>2
<1>2. /\ At(p, "idle") /\ FilesTypeOK' /\ dir' = dir /\ \A g \in File : Forward(g)
      /\ UNCHANGED <<second, abandoned>>
  BY UnchangedOnward DEF Inv, TypeOK, FilesTypeOK, StartCreate, Start, files
<1>3. Steps(p)
  BY <1>1, <1>2, QuietStep DEF At, Inv, TypeOK, Creating, Copying
<1>4. proc'[p] = row
  BY <1>1, BecomeRow DEF Inv
<1>5. ConnOK(p)' /\ CommandOK(p)' /\ SchemaOK(p)' /\ TargetOK(p)' /\ Owns(p)'
  BY <1>1, <1>4 DEF ConnOK, CommandOK, SchemaOK, TargetOK, Owns, Holds, Opened, BackingUp,
     Targeting, Removing, Copying, Creating, At, Is, Conn
<1> QED
  BY <1>3, <1>5 DEF Knows

LEMMA OpenStep ==
  ASSUME Inv, NEW p \in Proc, Open(p)
  PROVE  Steps(p) /\ Knows(p)'
<1> DEFINE row == [proc[p] EXCEPT !.pc = "check", !.conn = dir[DatabaseName]]
<1>1. /\ At(p, "open") /\ dir[DatabaseName] # Null /\ Become(p, row)
      /\ UNCHANGED <<dir, second, abandoned>>
  BY DEF Open, Exists
<1>2. dir[DatabaseName] \in File
  BY <1>1 DEF Inv, TypeOK, FilesTypeOK, Name
<1>3. /\ row \in ProcRow /\ row.pc = "check" /\ row.conn = dir[DatabaseName]
      /\ row.cmd = proc[p].cmd /\ row.made = proc[p].made
  <2>1. proc[p] \in ProcRow /\ "check" \in PC
    BY DEF Inv, TypeOK, PC
  <2>2. row \in ProcRow
    BY <1>2, <2>1, RowEdits
  <2> QED
    BY <2>1, <2>2, RowFields
<1> HIDE DEF row
<1>4. /\ FilesTypeOK' /\ dir' = dir /\ \A g \in File : Forward(g)
      /\ Is(p, Migrating) => file'[dir[DatabaseName]].wal
  <2> DEFINE f == dir[DatabaseName]
             wal == Is(p, Migrating) \/ file[f].wal
             c == [file[f] EXCEPT !.wal = wal]
  <2>1. f \in File /\ file[f] \in Content
    BY <1>2 DEF Inv, TypeOK, FilesTypeOK
  <2>2. c \in Content /\ c.wal = wal
    BY <2>1 DEF Content, Is
  <2>3. /\ c.version = file[f].version /\ c.marker = file[f].marker /\ c.torn = file[f].torn
        /\ c.admin = file[f].admin /\ c.copy = file[f].copy
    BY <2>1 DEF Content
  <2>4. file' = [file EXCEPT ![f] = c] /\ side' \in [Sidecar -> File \cup {Null}]
    BY <2>1 DEF Open, Inv, TypeOK, FilesTypeOK
  <2>5. Onward(file[f], c)
    <3>1. c.version \in Nat /\ c.version >= file[f].version
      BY <2>2, <2>3, FileAssumption DEF Content
    <3> QED
      BY <2>2, <2>3, <3>1 DEF Onward
  <2> HIDE DEF c, f, wal
  <2>6. FilesTypeOK' /\ file'[f] = c /\ \A g \in File : Forward(g)
    BY <1>1, <2>1, <2>2, <2>4, <2>5, AssignOnward DEF Inv, TypeOK
  <2> QED
    BY <1>1, <2>2, <2>6 DEF f, wal
<1>5. Steps(p)
  BY <1>1, <1>3, <1>4, QuietStep DEF At, Is, Holds, Creating, Copying, Inv, TypeOK
<1>6. proc'[p] = row
  BY <1>1, <1>3, BecomeRow DEF Inv
<1>7. Knows(p)
  BY DEF Inv
<1>8. ConnOK(p)' /\ CommandOK(p)' /\ SchemaOK(p)' /\ TargetOK(p)'
  BY <1>1, <1>2, <1>3, <1>6, <1>7 DEF Knows, ConnOK, CommandOK, SchemaOK, TargetOK, Opened,
     BackingUp, Targeting, Removing, Copying, At, Is, Conn
<1>9. Owns(p)'
  BY <1>1, <1>3, <1>4, <1>6, <1>7 DEF Knows, Owns, Holds, Creating, At, Is, Conn, Migrating
<1> QED
  BY <1>5, <1>8, <1>9 DEF Knows

LEMMA StatStep ==
  ASSUME Inv, NEW p \in Proc, Stat(p)
  PROVE  Steps(p) /\ Knows(p)'
<1> DEFINE row == [proc[p] EXCEPT !.pc = "vacuum", !.out = second]
<1>1. At(p, "stat") /\ Become(p, row) /\ UNCHANGED <<files, second, abandoned>>
  BY DEF Stat
<1>2. second \in Backup
  BY MaintenanceAssumption DEF Inv, TypeOK
<1>3. /\ row \in ProcRow /\ row.pc = "vacuum" /\ row.out = second
      /\ row.cmd = proc[p].cmd /\ row.made = proc[p].made /\ row.conn = proc[p].conn
  <2>1. proc[p] \in ProcRow /\ "vacuum" \in PC
    BY DEF Inv, TypeOK, PC
  <2>2. row \in ProcRow
    BY <1>2, <2>1, RowEdits
  <2> QED
    BY <2>1, <2>2, RowFields
<1> HIDE DEF row
<1>4. FilesTypeOK' /\ dir' = dir /\ \A g \in File : Forward(g)
  BY <1>1, UnchangedOnward DEF Inv, TypeOK, FilesTypeOK, files
<1>5. Steps(p)
  BY <1>1, <1>3, <1>4, QuietStep DEF At, Copying, Creating, files, Inv, TypeOK
<1>6. proc'[p] = row
  BY <1>1, <1>3, BecomeRow DEF Inv
<1>7. Knows(p)
  BY DEF Inv
<1>8. ConnOK(p)' /\ CommandOK(p)' /\ SchemaOK(p)' /\ TargetOK(p)'
  BY <1>1, <1>2, <1>3, <1>6, <1>7 DEF Knows, ConnOK, CommandOK, SchemaOK, TargetOK, Opened,
     BackingUp, Targeting, Removing, Copying, At, Is, Conn
<1>9. Owns(p)'
  BY <1>3, <1>6 DEF Owns, Holds, Creating
<1> QED
  BY <1>5, <1>8, <1>9 DEF Knows

LEMMA CreateStep ==
  ASSUME Inv, NEW p \in Proc, Create(p)
  PROVE  Steps(p) /\ Knows(p)'
<1>1. PICK f \in Fresh :
        CreateFile(f) /\ Become(p, [proc[p] EXCEPT !.pc = "open", !.made = f])
  BY DEF Create
<1> DEFINE row == [proc[p] EXCEPT !.pc = "open", !.made = f]
<1>2. /\ f \in File \ Named /\ Become(p, row) /\ UNCHANGED <<second, abandoned>>
      /\ At(p, "create") /\ dir[DatabaseName] = Null
  BY <1>1 DEF Create, CreateFile, Exists, Fresh
<1>3. /\ row \in ProcRow /\ row.pc = "open" /\ row.made = f
      /\ row.cmd = proc[p].cmd /\ row.conn = proc[p].conn
  <2>1. proc[p] \in ProcRow /\ "open" \in PC
    BY DEF Inv, TypeOK, PC
  <2>2. row \in ProcRow
    BY <1>2, <2>1, RowEdits
  <2> QED
    BY <2>1, <2>2, RowFields
<1> HIDE DEF row
<1>4. /\ FilesTypeOK' /\ dir'[DatabaseName] = f
      /\ \A m \in Name \ {DatabaseName} : dir'[m] = dir[m]
      /\ \A g \in File \ {f} : Forward(g)
  BY <1>1, <1>2, NewFileOnward, BlankIsContent DEF Inv, TypeOK, CreateFile, Name
<1>5. /\ proc' \in [Proc -> ProcRow] /\ proc'[p] = row
      /\ \A q \in Proc \ {p} : proc'[q] = proc[q]
  BY <1>2, <1>3, BecomeRow DEF Inv
<1>6. TypeOK'
  BY <1>2, <1>4, <1>5 DEF Inv, TypeOK
<1>7. Steps(p)
  <2>1. \A g \in File \ Fresh : Forward(g)
    BY <1>1, <1>4
  <2>2. \A n \in Backup : dir'[n] = dir[n]
    BY <1>4, FileAssumption DEF Name
  <2>3. \A n \in Name : dir'[n] = dir[n] \/ dir'[n] \in Fresh
    BY <1>1, <1>4
  <2> QED
    BY <1>1, <1>2, <1>3, <1>4, <1>5, <1>6, <2>1, <2>2, <2>3 DEF Steps, At, Copying, Name
<1>8. Knows(p)
  BY DEF Inv
<1>9. ConnOK(p)' /\ CommandOK(p)' /\ SchemaOK(p)' /\ TargetOK(p)' /\ Owns(p)'
  BY <1>2, <1>3, <1>4, <1>5, <1>8 DEF Knows, ConnOK, CommandOK, SchemaOK, TargetOK, Owns,
     Holds, Opened, BackingUp, Targeting, Removing, Copying, Creating, At, Is, Conn
<1> QED
  BY <1>7, <1>9 DEF Knows

LEMMA VacuumIntoStep ==
  ASSUME Inv, NEW p \in Proc, VacuumInto(p)
  PROVE  Steps(p) /\ Knows(p)'
<1>1. PICK f \in File :
        /\ (f \in Fresh /\ BeginCopy(proc[p].out, f)) \/ JoinCopy(proc[p].out, f)
        /\ Become(p, [proc[p] EXCEPT !.pc = "copy", !.made = f])
  BY DEF VacuumInto
<1> DEFINE row == [proc[p] EXCEPT !.pc = "copy", !.made = f]
<1>2. At(p, "vacuum") /\ Become(p, row) /\ UNCHANGED <<second, abandoned>>
  BY <1>1 DEF VacuumInto
<1>3. /\ row \in ProcRow /\ row.pc = "copy" /\ row.made = f /\ row.out = proc[p].out
      /\ row.cmd = proc[p].cmd /\ row.conn = proc[p].conn
  <2>1. proc[p] \in ProcRow /\ "copy" \in PC
    BY DEF Inv, TypeOK, PC
  <2>2. row \in ProcRow
    BY <2>1, RowEdits
  <2> QED
    BY <2>1, <2>2, RowFields
<1> HIDE DEF row
<1>4. /\ Conn(p) \in File /\ Is(p, {"backup"}) /\ proc[p].out \in Backup
  BY <1>2 DEF Inv, Knows, ConnOK, CommandOK, TargetOK, At, Opened, BackingUp, Targeting
<1>5. /\ FilesTypeOK' /\ dir'[proc[p].out] = f
      /\ \A m \in Name \ {proc[p].out} : dir'[m] = dir[m]
      /\ \A g \in File \ Fresh : Forward(g)
      /\ f \in Fresh \/ dir' = dir
  <2>1. CASE f \in Fresh /\ BeginCopy(proc[p].out, f)
    <3>1. [Blank EXCEPT !.copy = "begun"] \in Content
      BY BlankIsContent DEF Content
    <3> QED
      BY <1>4, <2>1, <3>1, NewFileOnward DEF BeginCopy, Inv, TypeOK, Name
  <2>2. CASE JoinCopy(proc[p].out, f)
    BY <1>4, <2>2, UnchangedOnward DEF JoinCopy, files, Inv, TypeOK, FilesTypeOK
  <2> QED
    BY <1>1, <2>1, <2>2
<1>6. /\ proc' \in [Proc -> ProcRow] /\ proc'[p] = row
      /\ \A q \in Proc \ {p} : proc'[q] = proc[q]
  BY <1>2, <1>3, BecomeRow DEF Inv
<1>7. TypeOK'
  BY <1>2, <1>5, <1>6 DEF Inv, TypeOK
<1>8. dir'[DatabaseName] = dir[DatabaseName]
  BY <1>4, <1>5, FileAssumption DEF Name
<1>9. Steps(p)
  <2>1. \A n \in Backup : dir'[n] = dir[n] \/ (proc'[p].pc = "copy" /\ proc'[p].made = dir'[n])
    BY <1>3, <1>5, <1>6 DEF Name
  <2>2. \A n \in Name : dir'[n] = dir[n] \/ dir'[n] \in Fresh
    BY <1>5
  <2>3. \E m \in Name : \A n \in Name \ {m} : dir'[n] = dir[n]
    BY <1>4, <1>5 DEF Name
  <2>4. ~Holds(p)' /\ ~Copying(p)
    BY <1>2, <1>3, <1>6 DEF Holds, Creating, Copying, At
  <2> QED
    BY <1>2, <1>5, <1>6, <1>7, <1>8, <2>1, <2>2, <2>3, <2>4 DEF Steps
<1>10. TargetOK(p)'
  <2>1. ASSUME NEW n \in Name, dir'[n] = f
        PROVE  n = proc[p].out
    <3>1. CASE f \in Fresh
      BY <1>5, <2>1, <3>1 DEF Fresh, Named
    <3>2. CASE dir' = dir
      BY <1>4, <1>5, <2>1, <3>2, FileAssumption DEF Inv, NamesApart, Name
    <3> QED
      BY <1>5, <3>1, <3>2
  <2> QED
    BY <1>3, <1>4, <1>6, <2>1 DEF TargetOK
<1>11. ConnOK(p)' /\ CommandOK(p)' /\ SchemaOK(p)' /\ Owns(p)'
  BY <1>3, <1>4, <1>6 DEF ConnOK, CommandOK, SchemaOK, Owns, Holds, Opened, BackingUp,
     Targeting, Removing, Creating, At, Is, Conn, Command
<1> QED
  BY <1>9, <1>10, <1>11 DEF Knows

\* Closing the pool may take the sidecars away and leaves the rest alone.
LEMMA ReleaseOnward ==
  ASSUME Inv, NEW p \in Proc, Release(p), UNCHANGED <<dir, file>>
  PROVE  FilesTypeOK' /\ dir' = dir /\ \A g \in File : Forward(g)
<1>1. side' \in [Sidecar -> File \cup {Null}]
  BY DEF Release, Inv, TypeOK, FilesTypeOK
<1> QED
  BY <1>1, UnchangedOnward DEF Inv, TypeOK

\* A backup that fails ends after it has removed its target.
LEMMA BackupRemoved ==
  ASSUME Inv, NEW p \in Proc, RemovesBackup(p), Become(p, Idle), Unlink(proc[p].out),
         Release(p), UNCHANGED <<file, second, abandoned>>
  PROVE  Steps(p) /\ Knows(p)'
<1>1. Idle \in ProcRow /\ Idle.pc = "idle"
  BY DEF Idle, ProcRow, PC
<1>2. proc[p].out \in Backup /\ proc[p].out \in Name /\ proc[p].out # DatabaseName
  BY FileAssumption DEF RemovesBackup, Inv, Knows, TargetOK, Targeting, Name
<1>3. side' \in [Sidecar -> File \cup {Null}]
  BY DEF Release, Inv, TypeOK, FilesTypeOK
<1>4. /\ FilesTypeOK' /\ dir'[proc[p].out] = Null
      /\ \A m \in Name \ {proc[p].out} : dir'[m] = dir[m]
      /\ \A g \in File : Forward(g)
  BY <1>2, <1>3, UnlinkOnward DEF Inv, TypeOK
<1>5. /\ proc' \in [Proc -> ProcRow] /\ proc'[p] = Idle
      /\ \A q \in Proc \ {p} : proc'[q] = proc[q]
  BY <1>1, BecomeRow DEF Inv
<1>6. TypeOK'
  BY <1>4, <1>5 DEF Inv, TypeOK
<1>7. Steps(p)
  <2>1. \A m \in Name : dir'[m] = dir[m] \/ dir'[m] = Null
    BY <1>4
  <2>2. dir'[DatabaseName] = dir[DatabaseName]
    BY <1>2, <1>4 DEF Name
  <2>3. \E m \in Name : \A n \in Name \ {m} : dir'[n] = dir[n]
    BY <1>2, <1>4
  <2>4. ~Holds(p)'
    BY <1>1, <1>5 DEF Holds, Creating
  <2> QED
    BY <1>4, <1>5, <1>6, <2>1, <2>2, <2>3, <2>4 DEF Steps, Name
<1>8. Knows(p)'
  BY <1>5, IdleKnowsNext
<1> QED
  BY <1>7, <1>8

\* A create that fails after it has made its file goes on to remove it.
LEMMA CreateFails ==
  ASSUME Inv, NEW p \in Proc, RemovesDatabase(p), Release(p),
         Become(p, [proc[p] EXCEPT !.pc = "unlink", !.conn = Null]),
         UNCHANGED <<dir, file, second, abandoned>>
  PROVE  Steps(p) /\ Knows(p)'
<1> DEFINE row == [proc[p] EXCEPT !.pc = "unlink", !.conn = Null]
<1>1. /\ row \in ProcRow /\ row.pc = "unlink" /\ row.made = proc[p].made
      /\ row.cmd = proc[p].cmd
  <2>1. proc[p] \in ProcRow
    BY DEF Inv, TypeOK
  <2> QED
    BY <2>1 DEF ProcRow, PC
<1>2. Become(p, row)
  OBVIOUS
<1> HIDE DEF row
<1>3. Holds(p) /\ Is(p, {"create"}) /\ ~Copying(p)
  BY DEF RemovesDatabase, Holds, Creating, Copying
<1>4. FilesTypeOK' /\ dir' = dir /\ \A g \in File : Forward(g)
  BY ReleaseOnward
<1>5. Steps(p)
  BY <1>1, <1>2, <1>3, <1>4, QuietStep DEF Inv, TypeOK
<1>6. proc'[p] = row
  BY <1>1, <1>2, BecomeRow DEF Inv
<1>7. proc[p].made \in File /\ dir[DatabaseName] = proc[p].made
  BY <1>3 DEF Inv, Knows, Owns
<1>8. ConnOK(p)' /\ CommandOK(p)' /\ TargetOK(p)' /\ SchemaOK(p)'
  BY <1>1, <1>3, <1>6 DEF ConnOK, CommandOK, TargetOK, SchemaOK, Opened, BackingUp,
     Targeting, Removing, Copying, At, Is, Command
<1>9. Owns(p)'
  BY <1>1, <1>4, <1>6, <1>7 DEF Owns, At
<1> QED
  BY <1>5, <1>8, <1>9 DEF Knows

LEMMA FailStep ==
  ASSUME Inv, NEW p \in Proc, Fail(p)
  PROVE  Steps(p) /\ Knows(p)'
<1>1. Release(p) /\ UNCHANGED <<file, second, abandoned>>
  BY DEF Fail
<1>2. CASE /\ RemovesDatabase(p) /\ UNCHANGED dir
           /\ Become(p, [proc[p] EXCEPT !.pc = "unlink", !.conn = Null])
  BY <1>1, <1>2, CreateFails
<1>3. CASE RemovesBackup(p) /\ Unlink(proc[p].out) /\ Become(p, Idle)
  BY <1>1, <1>3, BackupRemoved
<1>4. CASE ~RemovesBackup(p) /\ UNCHANGED dir /\ Become(p, Idle)
  <2>1. ~Copying(p)
    BY <1>4 DEF Inv, Knows, CommandOK, RemovesBackup, Copying, BackingUp, Targeting
  <2>2. FilesTypeOK' /\ dir' = dir /\ \A g \in File : Forward(g)
    BY <1>1, <1>4, ReleaseOnward
  <2> QED
    BY <1>1, <1>4, <2>1, <2>2, Ends DEF Inv, TypeOK
<1> QED
  BY <1>2, <1>3, <1>4 DEF Fail

LEMMA EndStep ==
  ASSUME Inv, NEW p \in Proc, End(p)
  PROVE  Steps(p) /\ Knows(p)'
<1>1. /\ At(p, "done") /\ Become(p, Idle) /\ Release(p)
      /\ UNCHANGED <<dir, file, second, abandoned>>
  BY DEF End
<1>2. FilesTypeOK' /\ dir' = dir /\ \A g \in File : Forward(g)
  BY <1>1, ReleaseOnward
<1> QED
  BY <1>1, <1>2, Ends DEF At, Copying, Inv, TypeOK

LEMMA KillStep ==
  ASSUME Inv, NEW p \in Proc, Kill(p)
  PROVE  Steps(p) /\ Knows(p)'
<1>1. /\ Become(p, Idle) /\ UNCHANGED <<files, second>>
      /\ abandoned' = IF Copying(p) THEN abandoned \cup {proc[p].made} ELSE abandoned
  BY DEF Kill
<1>2. Copying(p) => proc[p].made \in File
  BY DEF Inv, Knows, TargetOK
<1>3. /\ abandoned' \subseteq File /\ abandoned \subseteq abandoned'
      /\ Copying(p) => proc[p].made \in abandoned'
  BY <1>1, <1>2 DEF Inv, TypeOK
<1>4. FilesTypeOK' /\ dir' = dir /\ \A g \in File : Forward(g)
  BY <1>1, UnchangedOnward DEF Inv, TypeOK, FilesTypeOK, files
<1> QED
  BY <1>1, <1>3, <1>4, Ends

\* The cleanup's first name is the one that the create's own file stands under.
LEMMA UnlinkDatabaseStep ==
  ASSUME Inv, NEW p \in Proc, UnlinkDatabase(p)
  PROVE  Steps(p) /\ Knows(p)'
<1> DEFINE row == [proc[p] EXCEPT !.pc = "unlinkWal"]
<1>1. /\ At(p, "unlink") /\ Become(p, row) /\ Unlink(DatabaseName)
      /\ UNCHANGED <<side, file, second, abandoned>>
  BY DEF UnlinkDatabase, Go
<1>2. row \in ProcRow /\ row.pc = "unlinkWal" /\ row.cmd = proc[p].cmd
  BY RowGo DEF Inv, PC
<1> HIDE DEF row
<1>3. Is(p, {"create"}) /\ ~Copying(p)
  BY <1>1 DEF Inv, Knows, CommandOK, At, Removing, Copying
<1>4. /\ FilesTypeOK' /\ dir'[DatabaseName] = Null
      /\ \A m \in Name \ {DatabaseName} : dir'[m] = dir[m]
      /\ \A g \in File : Forward(g)
  BY <1>1, UnlinkOnward DEF Inv, TypeOK, FilesTypeOK, Name
<1>5. /\ proc' \in [Proc -> ProcRow] /\ proc'[p] = row
      /\ \A q \in Proc \ {p} : proc'[q] = proc[q]
  BY <1>1, <1>2, BecomeRow DEF Inv
<1>6. TypeOK'
  BY <1>1, <1>4, <1>5 DEF Inv, TypeOK
<1>7. Steps(p)
  <2>1. \A m \in Name : dir'[m] = dir[m] \/ dir'[m] = Null
    BY <1>4
  <2>2. \A m \in Backup : dir'[m] = dir[m]
    BY <1>4, FileAssumption DEF Name
  <2>3. \E m \in Name : \A n \in Name \ {m} : dir'[n] = dir[n]
    BY <1>4 DEF Name
  <2>4. ~Holds(p)' /\ RemovesName(p)
    BY <1>1, <1>2, <1>5 DEF Holds, Creating, RemovesName
  <2> QED
    BY <1>1, <1>3, <1>4, <1>5, <1>6, <2>1, <2>2, <2>3, <2>4 DEF Steps
<1>8. Knows(p)'
  BY <1>2, <1>3, <1>5 DEF Knows, Owns, Holds, Creating, ConnOK, CommandOK, TargetOK, SchemaOK,
     Opened, BackingUp, Targeting, Removing, Copying, At, Is, Command
<1> QED
  BY <1>7, <1>8

LEMMA UnlinkWalStep ==
  ASSUME Inv, NEW p \in Proc, UnlinkWal(p)
  PROVE  Steps(p) /\ Knows(p)'
<1> DEFINE row == [proc[p] EXCEPT !.pc = "unlinkShm"]
<1>1. /\ At(p, "unlinkWal") /\ Become(p, row) /\ UnlinkSidecar("wal")
      /\ UNCHANGED <<second, abandoned>>
  BY DEF UnlinkWal, Go
<1>2. row \in ProcRow /\ row.pc = "unlinkShm" /\ row.cmd = proc[p].cmd
  BY RowGo DEF Inv, PC
<1> HIDE DEF row
<1>3. Is(p, {"create"}) /\ ~Copying(p)
  BY <1>1 DEF Inv, Knows, CommandOK, At, Removing, Copying
<1>4. FilesTypeOK' /\ dir' = dir /\ \A g \in File : Forward(g)
  BY <1>1, UnlinkSidecarOnward DEF Inv, TypeOK, Sidecar
<1>5. Steps(p)
  BY <1>1, <1>2, <1>3, <1>4, QuietStep DEF Inv, TypeOK, Creating
<1>6. proc'[p] = row
  BY <1>1, <1>2, BecomeRow DEF Inv
<1>7. Knows(p)'
  BY <1>2, <1>3, <1>6 DEF Knows, Owns, Holds, Creating, ConnOK, CommandOK, TargetOK, SchemaOK,
     Opened, BackingUp, Targeting, Removing, Copying, At, Is, Command
<1> QED
  BY <1>5, <1>7

LEMMA UnlinkShmStep ==
  ASSUME Inv, NEW p \in Proc, UnlinkShm(p)
  PROVE  Steps(p) /\ Knows(p)'
<1>1. /\ At(p, "unlinkShm") /\ Become(p, Idle) /\ UnlinkSidecar("shm")
      /\ UNCHANGED <<second, abandoned>>
  BY DEF UnlinkShm
<1>2. FilesTypeOK' /\ dir' = dir /\ \A g \in File : Forward(g)
  BY <1>1, UnlinkSidecarOnward DEF Inv, TypeOK, Sidecar
<1> QED
  BY <1>1, <1>2, Ends DEF At, Copying, Inv, TypeOK

LEMMA NextSteps ==
  ASSUME Inv, Next
  PROVE  Tick \/ \E p \in Proc : Steps(p) /\ Knows(p)'
<1>1. ASSUME NEW p \in Proc,
             \/ \E admin \in BOOLEAN : StartCreate(p, admin)
             \/ \E cmd \in Command \ {"create"} : Start(p, cmd)
             \/ Create(p) \/ Open(p) \/ CheckReadOnly(p) \/ CheckWritable(p)
             \/ EnsureWAL(p) \/ MigrateStep(p) \/ MigrateEnds(p) \/ SeedInitialAdmin(p)
             \/ Stat(p) \/ VacuumInto(p) \/ VacuumIntoFills(p) \/ VacuumIntoEnds(p)
             \/ SetMode(p) \/ Vacuum(p) \/ End(p) \/ Fail(p)
             \/ UnlinkDatabase(p) \/ UnlinkWal(p) \/ UnlinkShm(p) \/ Kill(p)
      PROVE  Steps(p) /\ Knows(p)'
  <2>1. CASE \/ \E admin \in BOOLEAN : StartCreate(p, admin)
             \/ \E cmd \in Command \ {"create"} : Start(p, cmd)
    BY <2>1, StartStep
  <2>2. CASE Create(p) \/ Open(p) \/ CheckReadOnly(p) \/ CheckWritable(p)
    BY <2>2, CreateStep, OpenStep, CheckReadOnlyStep, CheckWritableStep
  <2>3. CASE EnsureWAL(p) \/ MigrateStep(p) \/ MigrateEnds(p) \/ SeedInitialAdmin(p)
    BY <2>3, EnsureWALStep, MigrateStepStep, MigrateEndsStep, SeedInitialAdminStep
  <2>4. CASE Stat(p) \/ VacuumInto(p) \/ VacuumIntoFills(p) \/ VacuumIntoEnds(p)
    BY <2>4, StatStep, VacuumIntoStep, VacuumIntoFillsStep, VacuumIntoEndsStep
  <2>5. CASE SetMode(p) \/ Vacuum(p) \/ End(p) \/ Fail(p)
    BY <2>5, SetModeStep, VacuumStep, EndStep, FailStep
  <2>6. CASE UnlinkDatabase(p) \/ UnlinkWal(p) \/ UnlinkShm(p) \/ Kill(p)
    BY <2>6, UnlinkDatabaseStep, UnlinkWalStep, UnlinkShmStep, KillStep
  <2> QED
    BY <1>1, <2>1, <2>2, <2>3, <2>4, <2>5, <2>6
<1>2. CASE Tick
  BY <1>2
<1> QED
  BY <1>1, <1>2 DEF Next

LEMMA TickInv ==
  ASSUME Inv, UNCHANGED <<files, proc, abandoned>>, second' \in 1..MaxSecond
  PROVE  Inv'
<1>1. /\ dir' = dir /\ side' = side /\ file' = file /\ proc' = proc /\ abandoned' = abandoned
  BY DEF files
<1>2. TypeOK'
  BY <1>1 DEF Inv, TypeOK, FilesTypeOK
<1>3. OneCreate' /\ NamesApart' /\ PartialBackupsAreRemoved'
  BY <1>1 DEF Inv, OneCreate, Holds, Is, NamesApart, PartialBackupsAreRemoved, Exists, Copying
<1>4. ASSUME NEW p \in Proc PROVE Knows(p)'
  <2>1. Knows(p)
    BY DEF Inv
  <2>2. ConnOK(p)' /\ CommandOK(p)' /\ TargetOK(p)'
    BY <1>1, <2>1 DEF Knows, ConnOK, CommandOK, TargetOK, At, Is, Conn, Copying
  <2>3. Owns(p)' /\ SchemaOK(p)'
    BY <1>1, <2>1 DEF Knows, Owns, Holds, SchemaOK, At, Is, Conn
  <2> QED
    BY <2>2, <2>3 DEF Knows
<1> QED
  BY <1>2, <1>3, <1>4 DEF Inv

LEMMA NextInv == Inv /\ [Next]_vars => Inv'
<1> SUFFICES ASSUME Inv, [Next]_vars PROVE Inv'
  OBVIOUS
<1>1. CASE UNCHANGED vars
  BY <1>1, TickInv DEF vars, Inv, TypeOK
<1>2. CASE Tick
  <2>1. second' \in 1..MaxSecond /\ UNCHANGED <<files, proc, abandoned>>
    BY <1>2, MaintenanceAssumption DEF Tick, Inv, TypeOK
  <2> QED
    BY <2>1, TickInv
<1>3. ASSUME NEW p \in Proc, Steps(p), Knows(p)'
      PROVE  Inv'
  BY <1>3, StepInv
<1> QED
  BY <1>1, <1>2, <1>3, NextSteps

(***************************************************************************)
(* The theorems.                                                           *)
(***************************************************************************)
\* What each process knows of its files holds throughout.
THEOREM InvHolds == Spec => []Inv
<1> QED
  BY InitInv, NextInv, PTL DEF Spec

\* The files and the processes keep their types.
THEOREM TypeCorrect == Spec => []TypeOK
<1>1. Inv => TypeOK
  BY DEF Inv
<1> QED
  BY <1>1, InvHolds, PTL

\* CreatePersistentStore's success means that the file it made is the database, in
\* WAL mode, marked, with the schema of its binary and the administrator that was
\* asked for (unless a failed create has taken the log away under it).
THEOREM CreateDelivers == Spec => []CreatedIsWhole
<1>1. Inv => CreatedIsWhole
  <2> SUFFICES ASSUME Inv, NEW p \in Proc, At(p, "done"), Is(p, {"create"})
               PROVE  /\ dir[DatabaseName] = proc[p].made /\ file[proc[p].made].wal
                      /\ \/ file[proc[p].made].torn
                         \/ /\ Ours(file[proc[p].made]) /\ file[proc[p].made].version >= Latest[p]
                            /\ proc[p].admin => file[proc[p].made].admin
    BY DEF CreatedIsWhole
  <2>1. Holds(p) /\ ~Is(p, ReadOnly)
    BY DEF Holds, Creating, At, Is, ReadOnly
  <2>2. /\ dir[DatabaseName] = proc[p].made /\ Conn(p) = proc[p].made /\ file[Conn(p)].wal
        /\ file[Conn(p)].torn \/ (proc[p].admin => file[Conn(p)].admin)
    BY <2>1 DEF Inv, Knows, Owns, At
  <2>3. Fits(file[Conn(p)], Latest[p])
    BY <2>1 DEF Inv, Knows, SchemaOK, At
  <2> QED
    BY <2>2, <2>3 DEF Fits
<1> QED
  BY <1>1, InvHolds, PTL

\* Whoever has opened the database for writing finds at least its own schema.
THEOREM SchemaIsThere == Spec => []UsesItsSchema
<1>1. Inv => UsesItsSchema
  BY DEF Inv, UsesItsSchema, Knows, SchemaOK, Fits, At
<1> QED
  BY <1>1, InvHolds, PTL

\* A part-written backup is in the hands of its writer, unless that was killed.
THEOREM NoPartialBackups == Spec => []PartialBackupsAreRemoved
<1>1. Inv => PartialBackupsAreRemoved
  BY DEF Inv
<1> QED
  BY <1>1, InvHolds, PTL

\* Only the create that made the database takes its name away, as a step of its
\* own cleanup.
THEOREM OnlyTheMakerRemoves == Spec => CreatorsRemoveTheirOwn
<1>1. ASSUME Inv, [Next]_vars, NEW f \in File, dir[DatabaseName] = f, dir'[DatabaseName] # f
      PROVE  \E p \in Proc : /\ Is(p, {"create"}) /\ proc[p].made = f
                             /\ At(p, "unlink") /\ proc'[p].pc = "unlinkWal"
  <2>1. ~(UNCHANGED vars) /\ ~Tick
    BY <1>1 DEF vars, files, Tick
  <2>2. PICK p \in Proc : Steps(p)
    BY <1>1, <2>1, NextSteps
  <2>3. At(p, "unlink") /\ proc'[p].pc = "unlinkWal"
    BY <1>1, <2>2, FileAssumption DEF Steps, RemovesName
  <2>4. Is(p, {"create"})
    BY <1>1, <2>3 DEF Inv, Knows, CommandOK, Removing, At
  <2>5. dir[DatabaseName] = proc[p].made
    BY <1>1, <2>3, <2>4 DEF Inv, Knows, Owns, Holds, Creating, At
  <2> QED
    BY <1>1, <2>3, <2>4, <2>5
<1>2. Inv /\ [Next]_vars =>
        [\A f \in File : dir[DatabaseName] = f /\ dir'[DatabaseName] # f =>
           \E p \in Proc : /\ Is(p, {"create"}) /\ proc[p].made = f
                          /\ At(p, "unlink") /\ proc'[p].pc = "unlinkWal"]_vars
  BY <1>1
<1> QED
  BY <1>2, InvHolds, PTL DEF Spec, CreatorsRemoveTheirOwn

\* The database under its name never loses a migration, its administrator or its
\* marker, unless a failed create takes its log away.
THEOREM DatabaseGoesForward == Spec => GoesForward
<1>1. ASSUME Inv, Next, NEW f \in File, dir[DatabaseName] = f
      PROVE  file'[f].torn \/
             /\ file'[f].version >= file[f].version
             /\ file[f].admin => file'[f].admin
             /\ file[f].marker # "none" => file'[f].marker = file[f].marker
  <2>1. file[f] \in Content
    BY <1>1 DEF Inv, TypeOK, FilesTypeOK
  <2>2. CASE Tick
    BY <2>1, <2>2, OnwardReflexive DEF Tick, files, Onward
  <2>3. ASSUME NEW p \in Proc, Steps(p)
        PROVE  Forward(f)
    <3>1. f \in File \ Fresh
      BY <1>1, NotFresh DEF Inv, Name
    <3> QED
      BY <2>3, <3>1 DEF Steps
  <2> QED
    BY <1>1, <2>2, <2>3, NextSteps DEF Forward, Onward
<1>2. Inv /\ [Next]_vars =>
        [\A f \in File : dir[DatabaseName] = f /\ dir'[DatabaseName] = f =>
           file'[f].torn \/
           /\ file'[f].version >= file[f].version
           /\ file[f].admin => file'[f].admin
           /\ file[f].marker # "none" => file'[f].marker = file[f].marker]_vars
  BY <1>1
<1> QED
  BY <1>2, InvHolds, PTL DEF Spec, GoesForward
================================================================================
