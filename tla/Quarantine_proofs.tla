--------------------------- MODULE Quarantine_proofs ---------------------------
(***************************************************************************)
(* Theorems about the quarantine, for any number of callers, paths, files  *)
(* and ids: what list() shows can be restored, and no file is lost.        *)
(***************************************************************************)
EXTENDS Quarantine, FiniteSetTheorems, SequenceTheorems, TLAPS

Keeping == {"move", "copy", "remove", "record"}

(* An id that was not drawn twice belongs to one caller or one record.     *)
Owned ==
  /\ \A t \in Callers : /\ job[t].id \in 0 .. drawn /\ job[t].raced \subseteq 1 .. drawn
                        /\ pc[t] \in Keeping => job[t].id # 0
  /\ \A n \in 1 .. Len(entries) : entries[n].id \in 1 .. drawn
  /\ \A t, u \in Callers :
       t # u /\ pc[t] \in Keeping /\ pc[u] \in Keeping /\ job[t].id = job[u].id
         => job[t].id \in shared
  /\ \A t \in Callers, n \in 1 .. Len(entries) :
       pc[t] \in Keeping /\ entries[n].id = job[t].id => job[t].id \in shared
  /\ \A m, n \in 1 .. Len(entries) :
       m # n /\ entries[m].id = entries[n].id => entries[n].id \in shared

(* Such an id has its file from the copy on, until restore takes it away.  *)
Held ==
  /\ \A t \in Callers :
       pc[t] \in {"remove", "record"} /\ job[t].id \notin shared => bin[job[t].id] # NoFile
  /\ \A n \in 1 .. Len(entries) :
       entries[n].id \notin shared /\ bin[entries[n].id] = NoFile
         => \E t \in Callers : pc[t] \in {"unremove", "forget"} /\ job[t].id = entries[n].id

IInv == QuarantineTypeOK /\ Owned /\ Held

Jobs == [path : Paths, id : Ids \cup {0}, raced : SUBSET Ids, file : Files]
Places == {"idle", "id", "move", "copy", "remove", "record"} \cup Restoring
Taken == {"unremove", "forget"}

(* A step of caller t that draws no id and touches no record.              *)
Turn(t) ==
  /\ job' \in [Callers -> Jobs] /\ pc' \in [Callers -> Places]
  /\ \A u \in Callers \ {t} : job'[u] = job[u] /\ pc'[u] = pc[u]
  /\ entries' = entries /\ drawn' = drawn /\ shared' = shared /\ files' = files
  /\ disk' \in [Paths -> Files] /\ bin' \in [Ids -> Files] /\ collateral' \subseteq Files

(* NoJob is a job (the path it names is any of them).                      *)
LEMMA NoJobIsAJob ==
  NoJob \in Jobs /\ NoJob.id = 0 /\ NoJob.raced = {} /\ NoJob.file = NoFile
<1>1. \E p \in Paths : TRUE
  BY PathsAreFinite
<1>2. (CHOOSE p \in Paths : TRUE) \in Paths
  BY <1>1
<1>3. 0 \in Files
  BY FileBounds DEF Files
<1>4. QED
  BY <1>2, <1>3 DEF NoJob, NoFile, Jobs

(* A list without its n-th record (the erase of restore).                  *)
LEMMA Removed ==
  ASSUME NEW S, NEW s \in Seq(S), NEW n \in 1 .. Len(s)
  PROVE  /\ RemoveAt(s, n) \in Seq(S)
         /\ Len(RemoveAt(s, n)) = Len(s) - 1
         /\ \A k \in 1 .. Len(s) - 1 : RemoveAt(s, n)[k] = s[IF k < n THEN k ELSE k + 1]
<1> DEFINE a == SubSeq(s, 1, n-1)
           b == SubSeq(s, n+1, Len(s))
<1>1. a \in Seq(S) /\ Len(a) = n - 1 /\ \A k \in 1 .. n-1 : a[k] = s[k]
  OBVIOUS
<1>2. b \in Seq(S) /\ Len(b) = Len(s) - n /\ \A k \in 1 .. Len(s)-n : b[k] = s[n + k]
  OBVIOUS
<1>3. RemoveAt(s, n) = a \o b
  BY DEF RemoveAt
<1> HIDE DEF a, b
<1>4. a \o b \in Seq(S) /\ Len(a \o b) = Len(s) - 1
  <2>1. Len(s) \in Nat /\ n \in Int
    OBVIOUS
  <2>2. a \o b \in Seq(S)
    BY <1>1, <1>2
  <2>3. Len(a \o b) = Len(a) + Len(b)
    BY <1>1, <1>2, ConcatProperties
  <2>4. Len(a) + Len(b) = Len(s) - 1
    BY <1>1, <1>2, <2>1
  <2>5. QED
    BY <2>2, <2>3, <2>4
<1>5. ASSUME NEW k \in 1 .. Len(s) - 1
      PROVE  (a \o b)[k] = s[IF k < n THEN k ELSE k + 1]
  <2>1. CASE k < n
    BY <1>1, <1>2, <2>1
  <2>2. CASE ~(k < n)
    <3>1. (a \o b)[k] = b[k - (n - 1)]
      BY <1>1, <1>2, <2>2
    <3>2. k - (n - 1) \in 1 .. Len(s) - n
      BY <2>2
    <3>3. b[k - (n - 1)] = s[n + (k - (n - 1))]
      BY <1>2, <3>2
    <3>4. QED
      BY <2>2, <3>1, <3>3
  <2>3. QED
    BY <2>1, <2>2
<1>6. QED
  BY <1>3, <1>4, <1>5

(* The invariant holds of a new process with an empty directory.           *)
LEMMA InitIsSafe == QuarantineInit => IInv
<1> SUFFICES ASSUME QuarantineInit PROVE IInv
  OBVIOUS
<1>1. QuarantineTypeOK
  BY NoJobIsAJob, FreeIsNobody, FileBounds
     DEF QuarantineInit, QuarantineTypeOK, Files, NoFile, Restoring, Ids, Jobs
<1>2. Owned
  BY NoJobIsAJob DEF QuarantineInit, Owned, Keeping
<1>3. Held
  BY DEF QuarantineInit, Held
<1>4. QED
  BY <1>1, <1>2, <1>3 DEF IInv

(* The values of the variables, one by one.                                *)
LEMMA Typed ==
  ASSUME IInv
  PROVE  /\ disk \in [Paths -> Files] /\ bin \in [Ids -> Files]
         /\ entries \in Seq([id : Ids, path : Paths]) /\ DOMAIN entries = 1 .. Len(entries)
         /\ \A n \in DOMAIN entries : entries[n].id \in Ids /\ entries[n].path \in Paths
         /\ pc \in [Callers -> Places] /\ job \in [Callers -> Jobs]
         /\ \A u \in Callers : job[u] \in Jobs
         /\ drawn \in Nat /\ NoFile \in Files /\ collateral \subseteq Files
<1>1. entries \in Seq([id : Ids, path : Paths])
  BY DEF IInv, QuarantineTypeOK
<1>2. /\ DOMAIN entries = 1 .. Len(entries)
      /\ \A n \in 1 .. Len(entries) : entries[n] \in [id : Ids, path : Paths]
  <2> DEFINE S == [id : Ids, path : Paths]
  <2>1. entries \in Seq(S)
    BY <1>1
  <2> HIDE DEF S
  <2>2. DOMAIN entries = 1 .. Len(entries) /\ \A n \in 1 .. Len(entries) : entries[n] \in S
    BY <2>1
  <2>3. QED
    BY <2>2 DEF S
<1>3. job \in [Callers -> Jobs] /\ pc \in [Callers -> Places]
  BY DEF IInv, QuarantineTypeOK, Jobs, Places
<1>4. NoFile \in Files /\ drawn \in Nat
  <2>1. drawn \in Ids \cup {0} /\ NoFile \in Files
    BY FileBounds DEF IInv, QuarantineTypeOK, NoFile, Files
  <2>2. QED
    BY <2>1 DEF Ids
<1>5. disk \in [Paths -> Files] /\ bin \in [Ids -> Files] /\ collateral \subseteq Files
  BY DEF IInv, QuarantineTypeOK
<1>6. QED
  BY <1>1, <1>2, <1>3, <1>4, <1>5

(* The assignments of an action to the caller's place and work.            *)
LEMMA JobSet ==
  ASSUME job \in [Callers -> Jobs], NEW t \in Callers, NEW j \in Jobs, job' = [job EXCEPT ![t] = j]
  PROVE  job' \in [Callers -> Jobs] /\ job'[t] = j /\ \A u \in Callers \ {t} : job'[u] = job[u]
OBVIOUS

LEMMA FileSet ==
  ASSUME job \in [Callers -> Jobs], NEW t \in Callers, NEW f \in Files, job' = [job EXCEPT ![t].file = f]
  PROVE  /\ job' \in [Callers -> Jobs] /\ \A u \in Callers \ {t} : job'[u] = job[u]
         /\ job'[t].id = job[t].id /\ job'[t].raced = job[t].raced
         /\ job'[t].path = job[t].path /\ job'[t].file = f
<1>1. job[t] \in Jobs
  OBVIOUS
<1>2. [job[t] EXCEPT !.file = f] \in Jobs
  BY <1>1 DEF Jobs
<1>3. job' = [job EXCEPT ![t] = [job[t] EXCEPT !.file = f]]
  OBVIOUS
<1>4. job'[t] = [job[t] EXCEPT !.file = f]
  BY <1>3
<1>5. QED
  BY <1>1, <1>2, <1>3, <1>4 DEF Jobs

LEMMA PlaceSet ==
  ASSUME pc \in [Callers -> Places], NEW t \in Callers, NEW w \in Places, Goto(t, w)
  PROVE  pc' \in [Callers -> Places] /\ pc'[t] = w /\ \A u \in Callers \ {t} : pc'[u] = pc[u]
BY DEF Goto

(* What such a step must respect for the types, the ownership of the ids    *)
(* and the files of the records to be kept.                                *)
LEMMA TypesKept ==
  ASSUME IInv, NEW t \in Callers, Turn(t),
         \/ mutex' = mutex /\ (pc[t] \in Restoring <=> pc'[t] \in Restoring)
         \/ mutex = Free /\ mutex' = t /\ pc'[t] \in Restoring
         \/ mutex = t /\ mutex' = Free /\ pc'[t] \notin Restoring,
         pc'[t] \in Restoring => \E n \in DOMAIN entries : entries[n].id = job'[t].id
  PROVE  QuarantineTypeOK'
<1>1. \A u \in Callers : mutex' = u <=> pc'[u] \in Restoring
  BY FreeIsNobody DEF IInv, QuarantineTypeOK, Turn
<1>2. \A u \in Callers : pc'[u] \in Restoring => \E n \in DOMAIN entries' : entries'[n].id = job'[u].id
  BY DEF IInv, QuarantineTypeOK, Turn
<1>3. mutex' \in Callers \cup {Free}
  BY DEF IInv, QuarantineTypeOK
<1>4. QED
  BY <1>1, <1>2, <1>3 DEF IInv, QuarantineTypeOK, Turn, Jobs, Places

LEMMA OwnedKept ==
  ASSUME IInv, NEW t \in Callers, Turn(t),
         job'[t].id \in 0 .. drawn, job'[t].raced \subseteq job[t].raced,
         pc'[t] \in Keeping => pc[t] \in Keeping /\ job'[t].id = job[t].id
  PROVE  Owned'
BY DEF IInv, Owned, Turn

LEMMA HeldKept ==
  ASSUME IInv, NEW t \in Callers, Turn(t),
         pc'[t] \in {"remove", "record"} /\ job'[t].id \notin shared => bin'[job'[t].id] # NoFile,
         \A i \in Ids : bin[i] # NoFile /\ bin'[i] = NoFile
                      => /\ pc[t] \in Restoring /\ pc'[t] \in Taken
                         /\ job[t].id = i /\ job'[t].id = i,
         pc[t] \in Taken => pc'[t] \in Taken /\ job'[t].id = job[t].id
  PROVE  Held'
<1>1. ASSUME NEW u \in Callers, u # t, pc'[u] \in {"remove", "record"}, job'[u].id \notin shared
      PROVE  bin'[job'[u].id] # NoFile
  <2>1. /\ pc[u] \in {"remove", "record"} /\ pc[u] \in Keeping
        /\ job[u].id = job'[u].id /\ job[u].id \notin shared
    BY <1>1 DEF Turn, Keeping
  <2>2. bin[job[u].id] # NoFile /\ job[u].id \in Ids
    BY <2>1 DEF IInv, Held, Owned, QuarantineTypeOK
  <2>3. ~ (pc[t] \in Restoring /\ job[t].id = job[u].id)
    <3>1. SUFFICES ASSUME pc[t] \in Restoring, job[t].id = job[u].id PROVE FALSE
      OBVIOUS
    <3>2. PICK n \in DOMAIN entries : entries[n].id = job[u].id
      BY <3>1 DEF IInv, QuarantineTypeOK
    <3>3. n \in 1 .. Len(entries)
      BY Typed
    <3>4. QED
      BY <2>1, <3>2, <3>3 DEF IInv, Owned
  <2>4. QED
    BY <2>1, <2>2, <2>3
<1>2. ASSUME NEW n \in 1 .. Len(entries), entries[n].id \notin shared, bin'[entries[n].id] = NoFile
      PROVE  \E u \in Callers : pc'[u] \in Taken /\ job'[u].id = entries[n].id
  <2>1. entries[n].id \in Ids
    BY Typed
  <2>2. CASE bin[entries[n].id] = NoFile
    <3>1. PICK u \in Callers : pc[u] \in Taken /\ job[u].id = entries[n].id
      BY <1>2, <2>2 DEF IInv, Held, Taken
    <3>2. QED
      BY <3>1 DEF Turn
  <2>3. CASE bin[entries[n].id] # NoFile
    BY <1>2, <2>1, <2>3
  <2>4. QED
    BY <2>2, <2>3
<1>3. QED
  BY <1>1, <1>2 DEF Held, Turn, Taken

(* Each operation of the disk, in turn. *)
LEMMA QuarantineBeginsSafe ==
  ASSUME IInv, NEW t \in Callers, NEW p \in Paths, QuarantineBegins(t, p)
  PROVE  IInv'
<1> DEFINE j == [NoJob EXCEPT !.path = p]
<1>1. j \in Jobs /\ j.id = 0 /\ j.raced = {}
  BY NoJobIsAJob DEF Jobs
<1>2. /\ job' = [job EXCEPT ![t] = j] /\ pc[t] = "idle" /\ Goto(t, "id")
      /\ UNCHANGED <<disk, bin, collateral, entries, mutex, files, drawn, shared>>
  BY DEF QuarantineBegins, diskVars, countVars
<1> HIDE DEF j
<1>3. job' \in [Callers -> Jobs] /\ job'[t] = j /\ \A u \in Callers \ {t} : job'[u] = job[u]
  BY <1>1, <1>2, JobSet, Typed
<1>4. pc' \in [Callers -> Places] /\ pc'[t] = "id" /\ \A u \in Callers \ {t} : pc'[u] = pc[u]
  <2>1. "id" \in Places
    BY DEF Places
  <2>2. QED
    BY <1>2, <2>1, PlaceSet, Typed
<1>5. Turn(t)
  BY <1>2, <1>3, <1>4, Typed DEF Turn
<1>6. QuarantineTypeOK'
  BY <1>2, <1>4, <1>5, TypesKept DEF Restoring
<1>7. Owned'
  BY <1>1, <1>3, <1>4, <1>5, OwnedKept, Typed DEF Keeping
<1>8. Held'
  BY <1>1, <1>2, <1>3, <1>4, <1>5, HeldKept DEF Taken
<1>9. QED
  BY <1>6, <1>7, <1>8 DEF IInv

(* A caller at work on the disk has an id; its file is the one it moved.   *)
LEMMA Working ==
  ASSUME IInv, NEW t \in Callers, pc[t] \in Keeping \cup Restoring
  PROVE  job[t].id \in Ids /\ job[t].id \in 1 .. drawn /\ job[t].path \in Paths /\ job[t].file \in Files
<1>1. job[t] \in Jobs /\ job[t].id \in 0 .. drawn
  BY Typed DEF IInv, Owned
<1>2. job[t].id # 0
  <2>1. CASE pc[t] \in Keeping
    BY <2>1 DEF IInv, Owned
  <2>2. CASE pc[t] \in Restoring
    <3>1. PICK n \in DOMAIN entries : entries[n].id = job[t].id
      BY <2>2 DEF IInv, QuarantineTypeOK
    <3>2. QED
      BY <3>1, Typed DEF Ids
  <2>3. QED
    BY <2>1, <2>2
<1>3. QED
  BY <1>1, <1>2, Typed DEF Jobs

(* A caller that goes on with the same id, and one that gives up.          *)
LEMMA GoesOn ==
  ASSUME IInv, NEW t \in Callers, NEW w \in Places, Goto(t, w),
         UNCHANGED <<entries, mutex, files, drawn, shared>>,
         disk' \in [Paths -> Files], bin' \in [Ids -> Files], collateral' \subseteq Files,
         job' = job \/ \E f \in Files : job' = [job EXCEPT ![t].file = f],
         \/ pc[t] \in Keeping /\ w \in Keeping
         \/ pc[t] \in Restoring /\ w \in Restoring,
         w \in {"remove", "record"} /\ job[t].id \notin shared => bin'[job[t].id] # NoFile,
         \A i \in Ids : bin[i] # NoFile /\ bin'[i] = NoFile => w \in Taken /\ job[t].id = i,
         pc[t] \in Taken => w \in Taken
  PROVE  IInv'
<1>1. job[t].id \in Ids /\ job[t].id \in 0 .. drawn
  BY Working, Typed
<1>2. /\ job' \in [Callers -> Jobs] /\ \A u \in Callers \ {t} : job'[u] = job[u]
      /\ job'[t].id = job[t].id /\ job'[t].raced = job[t].raced
  BY FileSet, Typed
<1>3. pc' \in [Callers -> Places] /\ pc'[t] = w /\ \A u \in Callers \ {t} : pc'[u] = pc[u]
  BY PlaceSet, Typed
<1>4. Turn(t)
  BY <1>2, <1>3 DEF Turn
<1>5. Keeping \cap Restoring = {} /\ Taken \subseteq Restoring /\ Taken \cap Keeping = {}
  BY DEF Keeping, Restoring, Taken
<1>6. pc'[t] \in Restoring => \E n \in DOMAIN entries : entries[n].id = job'[t].id
  BY <1>2, <1>3, <1>5 DEF IInv, QuarantineTypeOK
<1>7. QuarantineTypeOK'
  BY <1>3, <1>4, <1>5, <1>6, TypesKept
<1>8. Owned'
  BY <1>1, <1>2, <1>3, <1>4, <1>5, OwnedKept
<1>9. Held'
  BY <1>2, <1>3, <1>4, <1>5, HeldKept
<1>10. QED
  BY <1>7, <1>8, <1>9 DEF IInv

LEMMA GivesUp ==
  ASSUME IInv, NEW t \in Callers, Leave(t), pc[t] \notin Taken,
         UNCHANGED <<disk, entries, files, drawn, shared, bin, collateral>>,
         \/ pc[t] \notin Restoring /\ mutex' = mutex
         \/ pc[t] \in Restoring /\ mutex' = Free
  PROVE  IInv'
<1>1. job' \in [Callers -> Jobs] /\ job'[t] = NoJob /\ \A u \in Callers \ {t} : job'[u] = job[u]
  BY JobSet, NoJobIsAJob, Typed DEF Leave
<1>2. pc' \in [Callers -> Places] /\ pc'[t] = "idle" /\ \A u \in Callers \ {t} : pc'[u] = pc[u]
  <2>1. "idle" \in Places
    BY DEF Places
  <2>2. QED
    BY <2>1, PlaceSet, Typed DEF Leave
<1>3. Turn(t)
  BY <1>1, <1>2, Typed DEF Turn
<1>4. pc[t] \in Restoring => mutex = t
  BY DEF IInv, QuarantineTypeOK
<1>5. QuarantineTypeOK'
  BY <1>2, <1>3, <1>4, TypesKept DEF Restoring
<1>6. Owned'
  BY <1>1, <1>2, <1>3, NoJobIsAJob, OwnedKept, Typed DEF Keeping
<1>7. Held'
  BY <1>2, <1>3, HeldKept
<1>8. QED
  BY <1>5, <1>6, <1>7 DEF IInv

(* The file the operation puts, or takes away.                             *)
LEMMA Put ==
  ASSUME IInv, NEW t \in Callers, pc[t] \in Keeping, PutsInBin(t), disk[job[t].path] # NoFile
  PROVE  /\ bin' \in [Ids -> Files] /\ collateral' \subseteq Files
         /\ bin'[job[t].id] # NoFile
         /\ \A i \in Ids : bin'[i] = NoFile => bin[i] = NoFile
         /\ \E f \in Files : job' = [job EXCEPT ![t].file = f]
<1>1. job[t].id \in Ids /\ job[t].path \in Paths /\ disk[job[t].path] \in Files
  BY Working, Typed
<1>2. QED
  BY <1>1, Typed DEF PutsInBin, Spoils

LEMMA Spoiled ==
  ASSUME IInv, NEW f \in Files, Spoils(f)
  PROVE  collateral' \subseteq Files
BY Typed DEF Spoils

LEMMA MovesSafe ==
  ASSUME IInv, NEW t \in Callers, Moves(t)
  PROVE  IInv'
<1>1. pc[t] \in Keeping /\ pc[t] \notin Taken
  BY DEF Moves, Keeping, Taken
<1>2. CASE /\ disk[job[t].path] # NoFile /\ PutsInBin(t) /\ Goto(t, "record")
           /\ disk' = [disk EXCEPT ![job[t].path] = NoFile]
  <2>1. disk' \in [Paths -> Files]
    BY <1>2, Typed
  <2>2. "record" \in Places /\ "record" \in Keeping
    BY DEF Places, Keeping
  <2>3. QED
    BY <1>1, <1>2, <2>1, <2>2, Put, GoesOn DEF Moves, countVars
<1>3. CASE Goto(t, "copy") /\ UNCHANGED <<disk, bin, job, collateral>>
  <2>1. "copy" \in Places /\ "copy" \in Keeping /\ "copy" \notin {"remove", "record"}
    BY DEF Places, Keeping
  <2>2. UNCHANGED <<entries, mutex, files, drawn, shared>>
    BY DEF Moves, countVars
  <2>3. QED
    BY <1>1, <1>3, <2>1, <2>2, Typed, GoesOn
<1>4. QED
  BY <1>2, <1>3 DEF Moves

LEMMA CopiesSafe ==
  ASSUME IInv, NEW t \in Callers, Copies(t)
  PROVE  IInv'
<1>1. /\ pc[t] \in Keeping /\ pc[t] \notin Taken /\ pc[t] \notin Restoring
      /\ UNCHANGED <<disk, entries, mutex, files, drawn, shared>>
  BY DEF Copies, Keeping, Taken, Restoring, countVars
<1>2. CASE disk[job[t].path] # NoFile /\ PutsInBin(t) /\ Goto(t, "remove")
  <2>1. "remove" \in Places /\ "remove" \in Keeping
    BY DEF Places, Keeping
  <2>2. QED
    BY <1>1, <1>2, <2>1, Typed, Put, GoesOn
<1>3. CASE UNCHANGED <<bin, collateral>> /\ Leave(t)
  BY <1>1, <1>3, GivesUp
<1>4. QED
  BY <1>2, <1>3 DEF Copies

LEMMA RemovesSafe ==
  ASSUME IInv, NEW t \in Callers, Removes(t)
  PROVE  IInv'
<1>1. /\ pc[t] \in Keeping /\ pc[t] \notin Taken /\ pc[t] = "remove"
      /\ UNCHANGED <<bin, entries, mutex, job, files, drawn, shared>> /\ Goto(t, "record")
  BY DEF Removes, Keeping, Taken, countVars
<1>2. job[t].id \notin shared => bin[job[t].id] # NoFile
  BY <1>1 DEF IInv, Held
<1>3. disk' \in [Paths -> Files] /\ collateral' \subseteq Files
  <2>1. job[t].path \in Paths /\ disk[job[t].path] \in Files
    BY <1>1, Working, Typed
  <2>2. QED
    BY <2>1, Typed DEF Removes, Spoils
<1>4. "record" \in Places /\ "record" \in Keeping
  BY DEF Places, Keeping
<1>5. QED
  BY <1>1, <1>2, <1>3, <1>4, Typed, GoesOn

LEMMA RestoreBeginsSafe ==
  ASSUME IInv, NEW t \in Callers, NEW i \in Ids, RestoreBegins(t, i)
  PROVE  IInv'
<1>1. PICK n \in DOMAIN entries :
        entries[n].id = i /\ job' = [job EXCEPT ![t] = [NoJob EXCEPT !.path = entries[n].path, !.id = i]]
  BY DEF RestoreBegins
<1> DEFINE j == [NoJob EXCEPT !.path = entries[n].path, !.id = i]
<1>2. j \in Jobs /\ j.id = i /\ j.raced = {}
  BY Typed, NoJobIsAJob DEF Jobs
<1>3. /\ job' = [job EXCEPT ![t] = j] /\ pc[t] = "idle" /\ Goto(t, "unmove") /\ mutex = Free /\ mutex' = t
      /\ UNCHANGED <<disk, bin, collateral, entries, files, drawn, shared>>
  BY <1>1 DEF RestoreBegins, diskVars, countVars
<1> HIDE DEF j
<1>4. job' \in [Callers -> Jobs] /\ job'[t] = j /\ \A u \in Callers \ {t} : job'[u] = job[u]
  BY <1>2, <1>3, JobSet, Typed
<1>5. pc' \in [Callers -> Places] /\ pc'[t] = "unmove" /\ \A u \in Callers \ {t} : pc'[u] = pc[u]
  <2>1. "unmove" \in Places
    BY DEF Places, Restoring
  <2>2. QED
    BY <1>3, <2>1, PlaceSet, Typed
<1>6. Turn(t)
  BY <1>3, <1>4, <1>5, Typed DEF Turn
<1>7. i \in 0 .. drawn
  BY <1>1, Typed DEF IInv, Owned
<1>8. QuarantineTypeOK'
  BY <1>1, <1>2, <1>3, <1>4, <1>5, <1>6, TypesKept DEF Restoring
<1>9. Owned'
  BY <1>2, <1>4, <1>5, <1>6, <1>7, OwnedKept DEF Keeping
<1>10. Held'
  BY <1>3, <1>4, <1>5, <1>6, HeldKept DEF Taken
<1>11. QED
  BY <1>8, <1>9, <1>10 DEF IInv

LEMMA RestoreMovesSafe ==
  ASSUME IInv, NEW t \in Callers, RestoreMoves(t)
  PROVE  IInv'
<1>1. /\ pc[t] \in Restoring /\ pc[t] \notin Taken
      /\ UNCHANGED <<entries, mutex, files, drawn, shared>>
  BY DEF RestoreMoves, Restoring, Taken, countVars
<1>2. job[t].id \in Ids /\ job[t].path \in Paths /\ disk[job[t].path] \in Files
  BY <1>1, Working, Typed
<1>3. CASE /\ PutsBack(t) /\ Spoils(disk[job[t].path]) /\ Goto(t, "forget")
           /\ bin' = [bin EXCEPT ![job[t].id] = NoFile]
  <2>1. disk' \in [Paths -> Files] /\ bin' \in [Ids -> Files] /\ collateral' \subseteq Files
    BY <1>2, <1>3, Spoiled, Typed DEF PutsBack
  <2>2. \E f \in Files : job' = [job EXCEPT ![t].file = f]
    BY <1>2, <1>3, Typed DEF PutsBack
  <2>3. "forget" \in Places /\ "forget" \in Restoring /\ "forget" \in Taken /\ "forget" \notin {"remove", "record"}
    BY DEF Places, Restoring, Taken
  <2>4. \A i \in Ids : bin[i] # NoFile /\ bin'[i] = NoFile => job[t].id = i
    BY <1>3, Typed
  <2>5. QED
    BY <1>1, <1>3, <2>1, <2>2, <2>3, <2>4, GoesOn
<1>4. CASE Goto(t, "uncopy") /\ UNCHANGED <<disk, bin, job, collateral>>
  <2>1. "uncopy" \in Places /\ "uncopy" \in Restoring /\ "uncopy" \notin {"remove", "record"}
    BY DEF Places, Restoring
  <2>2. QED
    BY <1>1, <1>4, <2>1, Typed, GoesOn
<1>5. QED
  BY <1>3, <1>4 DEF RestoreMoves

LEMMA RestoreCopiesSafe ==
  ASSUME IInv, NEW t \in Callers, RestoreCopies(t)
  PROVE  IInv'
<1>1. /\ pc[t] \in Restoring /\ pc[t] \notin Taken
      /\ UNCHANGED <<bin, entries, files, drawn, shared>>
  BY DEF RestoreCopies, Restoring, Taken, countVars
<1>2. job[t].id \in Ids /\ job[t].path \in Paths /\ disk[job[t].path] \in Files
  BY <1>1, Working, Typed
<1>3. CASE PutsBack(t) /\ Spoils(disk[job[t].path]) /\ Goto(t, "unremove") /\ UNCHANGED mutex
  <2>1. disk' \in [Paths -> Files] /\ collateral' \subseteq Files
    BY <1>2, <1>3, Spoiled, Typed DEF PutsBack
  <2>2. \E f \in Files : job' = [job EXCEPT ![t].file = f]
    BY <1>2, <1>3, Typed DEF PutsBack
  <2>3. "unremove" \in Places /\ "unremove" \in Restoring /\ "unremove" \notin {"remove", "record"}
    BY DEF Places, Restoring
  <2>4. QED
    BY <1>1, <1>3, <2>1, <2>2, <2>3, Typed, GoesOn
<1>4. CASE Leave(t) /\ mutex' = Free /\ UNCHANGED <<disk, collateral>>
  BY <1>1, <1>4, GivesUp
<1>5. QED
  BY <1>3, <1>4 DEF RestoreCopies

LEMMA RestoreRemovesSafe ==
  ASSUME IInv, NEW t \in Callers, RestoreRemoves(t)
  PROVE  IInv'
<1>1. /\ pc[t] \in Restoring /\ Goto(t, "forget")
      /\ UNCHANGED <<disk, job, entries, mutex, files, drawn, shared>>
  BY DEF RestoreRemoves, Restoring, countVars
<1>2. job[t].id \in Ids /\ bin[job[t].id] \in Files
  BY <1>1, Working, Typed
<1>3. bin' \in [Ids -> Files] /\ collateral' \subseteq Files
  BY <1>2, Typed DEF RestoreRemoves, Spoils
<1>4. \A i \in Ids : bin[i] # NoFile /\ bin'[i] = NoFile => job[t].id = i
  BY Typed DEF RestoreRemoves
<1>5. "forget" \in Places /\ "forget" \in Restoring /\ "forget" \in Taken /\ "forget" \notin {"remove", "record"}
  BY DEF Places, Restoring, Taken
<1>6. QED
  BY <1>1, <1>3, <1>4, <1>5, Typed, GoesOn

(* A drawn id is new, or known to have been drawn twice.                   *)
LEMMA DrawsIdSafe ==
  ASSUME IInv, NEW t \in Callers, DrawsId(t)
  PROVE  IInv'
<1>1. PICK i \in Ids :
        /\ \/ i = drawn + 1 /\ drawn' = i /\ UNCHANGED shared
           \/ i \in job[t].raced \ shared /\ shared' = shared \cup {i} /\ UNCHANGED drawn
        /\ job' = [u \in Callers |->
                     IF u = t THEN [job[t] EXCEPT !.id = i, !.raced = {}]
                     ELSE IF pc[u] = "id" THEN [job[u] EXCEPT !.raced = @ \cup {i}]
                     ELSE job[u]]
  BY DEF DrawsId
<1>2. /\ pc[t] = "id" /\ Goto(t, "move")
      /\ UNCHANGED <<disk, bin, collateral, entries, mutex, files>>
  BY DEF DrawsId, diskVars
<1>3. job[t] \in Jobs /\ job[t].raced \subseteq 1 .. drawn /\ drawn \in Nat /\ i \in Nat
  BY Typed DEF IInv, Owned, Ids
<1>4. /\ drawn' \in Ids \cup {0} /\ drawn' \in Nat /\ drawn <= drawn' /\ i \in 1 .. drawn'
      /\ shared \subseteq shared' /\ shared' \subseteq Ids
      /\ i \in 1 .. drawn => i \in shared'
  <2>1. shared \subseteq Ids /\ drawn \in Ids \cup {0}
    BY DEF IInv, QuarantineTypeOK
  <2>2. CASE i = drawn + 1 /\ drawn' = i /\ UNCHANGED shared
    BY <1>3, <2>1, <2>2
  <2>3. CASE i \in job[t].raced \ shared /\ shared' = shared \cup {i} /\ UNCHANGED drawn
    BY <1>3, <2>1, <2>3
  <2>4. QED
    BY <1>1, <2>2, <2>3
<1>5. pc' \in [Callers -> Places] /\ pc'[t] = "move" /\ \A u \in Callers \ {t} : pc'[u] = pc[u]
  <2>1. "move" \in Places
    BY DEF Places
  <2>2. QED
    BY <1>2, <2>1, PlaceSet, Typed
<1>6. \A u \in Callers : job'[u] \in Jobs
  BY <1>1, Typed DEF Jobs
<1>7. /\ job' \in [Callers -> Jobs]
      /\ job'[t].id = i /\ job'[t].raced = {}
      /\ \A u \in Callers \ {t} : job'[u].id = job[u].id /\ job'[u].raced \subseteq job[u].raced \cup {i}
  <2>1. job' \in [Callers -> Jobs]
    BY <1>1, <1>6
  <2>2. job'[t].id = i /\ job'[t].raced = {}
    BY <1>1, <1>3 DEF Jobs
  <2>3. \A u \in Callers \ {t} : job'[u].id = job[u].id /\ job'[u].raced \subseteq job[u].raced \cup {i}
    BY <1>1, Typed DEF Jobs
  <2>4. QED
    BY <2>1, <2>2, <2>3
<1>8. QuarantineTypeOK'
  <2>1. \A u \in Callers : pc'[u] \in Restoring => u # t /\ pc[u] \in Restoring
    BY <1>5 DEF Restoring
  <2>2. \A u \in Callers : mutex' = u <=> pc'[u] \in Restoring
    BY <1>2, <1>5, <2>1 DEF IInv, QuarantineTypeOK, Restoring
  <2>3. \A u \in Callers : pc'[u] \in Restoring => \E n \in DOMAIN entries' : entries'[n].id = job'[u].id
    BY <1>2, <1>7, <2>1 DEF IInv, QuarantineTypeOK
  <2>4. QED
    BY <1>2, <1>4, <1>5, <1>7, <2>2, <2>3 DEF IInv, QuarantineTypeOK, Places, Jobs
<1>9. \A u \in Callers : pc'[u] \in Keeping => u = t \/ pc[u] \in Keeping
  BY <1>5
<1>10. Owned'
  <2>1. \A u \in Callers : job'[u].id \in 0 .. drawn' /\ job'[u].raced \subseteq 1 .. drawn'
    BY <1>3, <1>4, <1>7 DEF IInv, Owned
  <2>2. \A u \in Callers : pc'[u] \in Keeping => job'[u].id # 0
    BY <1>4, <1>7, <1>9 DEF IInv, Owned
  <2>3. \A n \in 1 .. Len(entries') : entries'[n].id \in 1 .. drawn'
    BY <1>2, <1>3, <1>4 DEF IInv, Owned
  <2>4. \A u, v \in Callers :
          u # v /\ pc'[u] \in Keeping /\ pc'[v] \in Keeping /\ job'[u].id = job'[v].id => job'[u].id \in shared'
    <3>1. \A u \in Callers \ {t} : pc'[u] \in Keeping /\ job'[u].id = i => i \in shared'
      BY <1>3, <1>4, <1>7, <1>9 DEF IInv, Owned
    <3>2. QED
      BY <1>4, <1>7, <1>9, <3>1 DEF IInv, Owned
  <2>5. \A u \in Callers, n \in 1 .. Len(entries') :
          pc'[u] \in Keeping /\ entries'[n].id = job'[u].id => job'[u].id \in shared'
    BY <1>2, <1>4, <1>7, <1>9 DEF IInv, Owned
  <2>6. \A m, n \in 1 .. Len(entries') :
          m # n /\ entries'[m].id = entries'[n].id => entries'[n].id \in shared'
    BY <1>2, <1>4 DEF IInv, Owned
  <2>7. QED
    BY <2>1, <2>2, <2>3, <2>4, <2>5, <2>6 DEF Owned
<1>11. Held'
  <2>1. \A u \in Callers : pc'[u] \in {"remove", "record"} => u # t /\ pc[u] = pc'[u]
    BY <1>5
  <2>2. \A u \in Callers : pc[u] \in Taken => u # t /\ pc'[u] = pc[u]
    BY <1>2, <1>5 DEF Taken
  <2>3. \A u \in Callers :
          pc'[u] \in {"remove", "record"} /\ job'[u].id \notin shared' => bin'[job'[u].id] # NoFile
    BY <1>2, <1>4, <1>7, <2>1 DEF IInv, Held
  <2>4. \A n \in 1 .. Len(entries') : entries'[n].id \notin shared' /\ bin'[entries'[n].id] = NoFile
          => \E u \in Callers : pc'[u] \in Taken /\ job'[u].id = entries'[n].id
    <3>1. \A n \in 1 .. Len(entries) : entries[n].id \notin shared /\ bin[entries[n].id] = NoFile
            => \E u \in Callers : pc[u] \in Taken /\ job[u].id = entries[n].id
      BY DEF IInv, Held, Taken
    <3>2. \A u \in Callers : pc[u] \in Taken => pc'[u] \in Taken /\ job'[u].id = job[u].id
      BY <1>7, <2>2
    <3>3. entries' = entries /\ bin' = bin
      BY <1>2
    <3>4. TAKE n \in 1 .. Len(entries')
    <3>5. HAVE entries'[n].id \notin shared' /\ bin'[entries'[n].id] = NoFile
    <3>6. n \in 1 .. Len(entries) /\ entries[n].id \notin shared /\ bin[entries[n].id] = NoFile
      BY <1>4, <3>3, <3>4, <3>5
    <3>7. PICK u \in Callers : pc[u] \in Taken /\ job[u].id = entries[n].id
      BY <3>1, <3>6
    <3>8. pc'[u] \in Taken /\ job'[u].id = entries'[n].id
      BY <3>2, <3>3, <3>7
    <3>9. QED
      BY <3>8
  <2>5. QED
    BY <2>3, <2>4 DEF Held, Taken
<1>12. QED
  BY <1>8, <1>10, <1>11 DEF IInv

(* A record is appended with the id and the file its caller owned.         *)
LEMMA RecordsSafe ==
  ASSUME IInv, NEW t \in Callers, Records(t)
  PROVE  IInv'
<1> DEFINE e == [id |-> job[t].id, path |-> job[t].path]
<1>1. /\ pc[t] = "record" /\ mutex = Free /\ entries' = Append(entries, e) /\ Leave(t)
      /\ UNCHANGED <<disk, bin, mutex, files, drawn, shared, collateral>>
  BY DEF Records, countVars
<1>2. pc[t] \in Keeping /\ job[t].id \in Ids /\ job[t].id \in 1 .. drawn /\ job[t].path \in Paths
  BY <1>1, Working DEF Keeping
<1>3. e \in [id : Ids, path : Paths] /\ e.id = job[t].id
  BY <1>2
<1> HIDE DEF e
<1>4. /\ entries' \in Seq([id : Ids, path : Paths])
      /\ DOMAIN entries' = 1 .. Len(entries') /\ Len(entries') = Len(entries) + 1 /\ Len(entries) \in Nat
      /\ entries'[Len(entries) + 1] = e /\ \A n \in 1 .. Len(entries) : entries'[n] = entries[n]
  <2> DEFINE S == [id : Ids, path : Paths]
  <2>1. entries \in Seq(S) /\ e \in S
    BY <1>3, Typed
  <2> HIDE DEF S
  <2>2. /\ entries' \in Seq(S)
        /\ DOMAIN entries' = 1 .. Len(entries') /\ Len(entries') = Len(entries) + 1 /\ Len(entries) \in Nat
        /\ entries'[Len(entries) + 1] = e /\ \A n \in 1 .. Len(entries) : entries'[n] = entries[n]
    BY <1>1, <2>1, AppendProperties
  <2>3. QED
    BY <2>2 DEF S
<1>5. job' \in [Callers -> Jobs] /\ job'[t] = NoJob /\ \A u \in Callers \ {t} : job'[u] = job[u]
  BY <1>1, JobSet, NoJobIsAJob, Typed DEF Leave
<1>6. pc' \in [Callers -> Places] /\ pc'[t] = "idle" /\ \A u \in Callers \ {t} : pc'[u] = pc[u]
  <2>1. "idle" \in Places
    BY DEF Places
  <2>2. QED
    BY <1>1, <2>1, PlaceSet, Typed DEF Leave
<1>7. \A n \in 1 .. Len(entries') : \/ n \in 1 .. Len(entries) /\ entries'[n] = entries[n]
                                    \/ n = Len(entries) + 1 /\ entries'[n].id = job[t].id
  <2>1. entries'[Len(entries) + 1].id = job[t].id
    BY <1>3, <1>4
  <2>2. \A n \in 1 .. Len(entries') : n \in 1 .. Len(entries) \/ n = Len(entries) + 1
    BY <1>4
  <2>3. \A n \in 1 .. Len(entries) : entries'[n] = entries[n]
    BY <1>4
  <2>4. TAKE n \in 1 .. Len(entries')
  <2>5. CASE n \in 1 .. Len(entries)
    BY <2>3, <2>5
  <2>6. CASE n = Len(entries) + 1
    BY <2>1, <2>6
  <2>7. QED
    BY <2>2, <2>5, <2>6
<1>8. \A u \in Callers : pc[u] \notin Restoring /\ pc'[u] \notin Restoring
  BY <1>1, <1>6, FreeIsNobody DEF IInv, QuarantineTypeOK, Restoring
<1>9. QuarantineTypeOK'
  BY <1>1, <1>4, <1>5, <1>6, <1>8, FreeIsNobody DEF IInv, QuarantineTypeOK, Places, Jobs
<1>10. Owned'
  <2>1. \A u \in Callers : job'[u].id \in 0 .. drawn' /\ job'[u].raced \subseteq 1 .. drawn'
    BY <1>1, <1>5, NoJobIsAJob, Typed DEF IInv, Owned
  <2>2. \A u \in Callers : pc'[u] \in Keeping => u # t /\ pc[u] \in Keeping /\ job'[u] = job[u]
    BY <1>5, <1>6 DEF Keeping
  <2>3. \A n \in 1 .. Len(entries') : entries'[n].id \in 1 .. drawn'
    BY <1>1, <1>2, <1>7 DEF IInv, Owned
  <2>4. \A u, v \in Callers :
          u # v /\ pc'[u] \in Keeping /\ pc'[v] \in Keeping /\ job'[u].id = job'[v].id => job'[u].id \in shared'
    BY <1>1, <2>2 DEF IInv, Owned
  <2>5. \A u \in Callers, n \in 1 .. Len(entries') :
          pc'[u] \in Keeping /\ entries'[n].id = job'[u].id => job'[u].id \in shared'
    BY <1>1, <1>2, <1>7, <2>2 DEF IInv, Owned
  <2>6. \A m, n \in 1 .. Len(entries') :
          m # n /\ entries'[m].id = entries'[n].id => entries'[n].id \in shared'
    BY <1>1, <1>2, <1>7 DEF IInv, Owned
  <2>7. \A u \in Callers : pc'[u] \in Keeping => job'[u].id # 0
    BY <2>2 DEF IInv, Owned
  <2>8. QED
    BY <2>1, <2>3, <2>4, <2>5, <2>6, <2>7 DEF Owned
<1>11. Held'
  <2>1. \A u \in Callers : pc'[u] \in {"remove", "record"} => u # t /\ pc[u] = pc'[u] /\ job'[u] = job[u]
    BY <1>5, <1>6
  <2>2. \A n \in 1 .. Len(entries') : entries'[n].id \notin shared' => bin'[entries'[n].id] # NoFile
    <3>1. \A n \in 1 .. Len(entries) : entries[n].id \notin shared => bin[entries[n].id] # NoFile
      BY <1>8 DEF IInv, Held, Restoring
    <3>2. job[t].id \notin shared => bin[job[t].id] # NoFile
      BY <1>1 DEF IInv, Held
    <3>3. QED
      BY <1>1, <1>7, <3>1, <3>2
  <2>3. QED
    BY <1>1, <2>1, <2>2 DEF IInv, Held
<1>12. QED
  BY <1>9, <1>10, <1>11 DEF IInv

(* The record goes, and with it the only entry of an id drawn once.        *)
LEMMA RestoreForgetsSafe ==
  ASSUME IInv, NEW t \in Callers, RestoreForgets(t)
  PROVE  IInv'
<1>1. PICK k \in DOMAIN entries : entries[k].id = job[t].id /\ entries' = RemoveAt(entries, k)
  BY DEF RestoreForgets
<1>2. /\ pc[t] = "forget" /\ mutex' = Free /\ Leave(t)
      /\ UNCHANGED <<disk, bin, files, drawn, shared, collateral>>
  BY DEF RestoreForgets, countVars
<1>3. /\ entries' \in Seq([id : Ids, path : Paths]) /\ Len(entries') = Len(entries) - 1
      /\ \A n \in 1 .. Len(entries) - 1 : entries'[n] = entries[IF n < k THEN n ELSE n + 1]
  <2> DEFINE S == [id : Ids, path : Paths]
  <2>1. entries \in Seq(S) /\ k \in 1 .. Len(entries)
    BY Typed
  <2> HIDE DEF S
  <2>2. /\ entries' \in Seq(S) /\ Len(entries') = Len(entries) - 1
        /\ \A n \in 1 .. Len(entries) - 1 : entries'[n] = entries[IF n < k THEN n ELSE n + 1]
    BY <1>1, <2>1, Removed
  <2>3. QED
    BY <2>2 DEF S
<1> DEFINE old(n) == IF n < k THEN n ELSE n + 1
<1>4. /\ \A n \in 1 .. Len(entries') : old(n) \in 1 .. Len(entries) /\ old(n) # k /\ entries'[n] = entries[old(n)]
      /\ \A m, n \in 1 .. Len(entries') : m # n => old(m) # old(n)
  <2>1. k \in 1 .. Len(entries) /\ Len(entries) \in Nat
    BY Typed
  <2>2. QED
    BY <1>3, <2>1
<1> HIDE DEF old
<1>5. job' \in [Callers -> Jobs] /\ job'[t] = NoJob /\ \A u \in Callers \ {t} : job'[u] = job[u]
  BY <1>2, JobSet, NoJobIsAJob, Typed DEF Leave
<1>6. pc' \in [Callers -> Places] /\ pc'[t] = "idle" /\ \A u \in Callers \ {t} : pc'[u] = pc[u]
  <2>1. "idle" \in Places
    BY DEF Places
  <2>2. QED
    BY <1>2, <2>1, PlaceSet, Typed DEF Leave
<1>7. \A u \in Callers : pc'[u] \notin Restoring
  <2>1. mutex = t
    BY <1>2 DEF IInv, QuarantineTypeOK, Restoring
  <2>2. QED
    BY <1>6, <2>1 DEF IInv, QuarantineTypeOK, Restoring
<1>8. QuarantineTypeOK'
  BY <1>2, <1>3, <1>5, <1>6, <1>7, FreeIsNobody DEF IInv, QuarantineTypeOK, Places, Jobs
<1>9. Owned'
  <2>1. \A u \in Callers : job'[u].id \in 0 .. drawn' /\ job'[u].raced \subseteq 1 .. drawn'
    BY <1>2, <1>5, NoJobIsAJob, Typed DEF IInv, Owned
  <2>2. \A u \in Callers : pc'[u] \in Keeping => u # t /\ pc[u] \in Keeping /\ job'[u] = job[u]
    BY <1>5, <1>6 DEF Keeping
  <2>3. \A n \in 1 .. Len(entries') : entries'[n].id \in 1 .. drawn'
    BY <1>2, <1>4 DEF IInv, Owned
  <2>4. \A u, v \in Callers :
          u # v /\ pc'[u] \in Keeping /\ pc'[v] \in Keeping /\ job'[u].id = job'[v].id => job'[u].id \in shared'
    BY <1>2, <2>2 DEF IInv, Owned
  <2>5. \A u \in Callers, n \in 1 .. Len(entries') :
          pc'[u] \in Keeping /\ entries'[n].id = job'[u].id => job'[u].id \in shared'
    BY <1>2, <1>4, <2>2 DEF IInv, Owned
  <2>6. \A m, n \in 1 .. Len(entries') :
          m # n /\ entries'[m].id = entries'[n].id => entries'[n].id \in shared'
    BY <1>2, <1>4 DEF IInv, Owned
  <2>7. \A u \in Callers : pc'[u] \in Keeping => job'[u].id # 0
    BY <2>2 DEF IInv, Owned
  <2>8. QED
    BY <2>1, <2>3, <2>4, <2>5, <2>6, <2>7 DEF Owned
<1>10. Held'
  <2>1. \A u \in Callers : pc'[u] \in {"remove", "record"} => pc[u] = pc'[u] /\ job'[u] = job[u]
    BY <1>5, <1>6
  <2>2. ASSUME NEW n \in 1 .. Len(entries'), entries'[n].id \notin shared'
        PROVE  bin'[entries'[n].id] # NoFile
    <3>1. old(n) \in 1 .. Len(entries) /\ old(n) # k /\ entries'[n] = entries[old(n)]
      BY <1>4
    <3>2. entries[old(n)].id \notin shared /\ k \in 1 .. Len(entries)
      BY <1>2, <2>2, <3>1, Typed
    <3>3. entries[old(n)].id # job[t].id
      BY <1>1, <3>1, <3>2 DEF IInv, Owned
    <3>4. \A u \in Callers \ {t} : pc[u] \notin Restoring
      BY <1>2 DEF IInv, QuarantineTypeOK, Restoring
    <3>5. bin[entries[old(n)].id] # NoFile
      BY <3>1, <3>2, <3>3, <3>4 DEF IInv, Held, Restoring
    <3>6. QED
      BY <1>2, <3>1, <3>5
  <2>3. QED
    BY <1>2, <2>1, <2>2 DEF IInv, Held
<1>11. QED
  BY <1>8, <1>9, <1>10 DEF IInv

(* A new process knows nothing of the directory and draws on.              *)
LEMMA RestartsSafe ==
  ASSUME IInv, Restarts
  PROVE  IInv'
<1>1. /\ entries' = <<>> /\ mutex' = Free /\ pc' = [u \in Callers |-> "idle"]
      /\ job' = [u \in Callers |-> NoJob]
      /\ UNCHANGED <<disk, bin, files, drawn, shared, collateral>>
  BY DEF Restarts, diskVars, countVars
<1>2. entries' \in Seq([id : Ids, path : Paths]) /\ Len(entries') = 0
  BY <1>1
<1>3. job' \in [Callers -> Jobs]
  BY <1>1, NoJobIsAJob
<1>4. QuarantineTypeOK'
  BY <1>1, <1>2, <1>3, FreeIsNobody DEF IInv, QuarantineTypeOK, Jobs, Restoring
<1>5. Owned'
  BY <1>1, <1>2, NoJobIsAJob, Typed DEF Owned, Keeping
<1>6. Held'
  BY <1>1, <1>2 DEF Held
<1>7. QED
  BY <1>4, <1>5, <1>6 DEF IInv

LEMMA AppearsSafe ==
  ASSUME IInv, NEW p \in Paths, Appears(p)
  PROVE  IInv'
<1>1. /\ files' = files + 1 /\ files < MaxFiles /\ disk' = [disk EXCEPT ![p] = files']
      /\ UNCHANGED <<bin, entries, mutex, pc, job, drawn, shared, collateral>>
  BY DEF Appears
<1>2. files' \in Files
  BY <1>1, FileBounds DEF IInv, QuarantineTypeOK, Files
<1>3. disk' \in [Paths -> Files]
  BY <1>1, <1>2, Typed
<1>4. QuarantineTypeOK'
  BY <1>1, <1>2, <1>3 DEF IInv, QuarantineTypeOK
<1>5. Owned' /\ Held'
  BY <1>1 DEF IInv, Owned, Held
<1>6. QED
  BY <1>4, <1>5 DEF IInv

LEMMA StandsStill ==
  ASSUME IInv, UNCHANGED quarantineVars
  PROVE  IInv'
BY DEF IInv, QuarantineTypeOK, Owned, Held, quarantineVars

LEMMA InvariantKept == IInv /\ [QuarantineNext]_quarantineVars => IInv'
<1> SUFFICES ASSUME IInv, [QuarantineNext]_quarantineVars PROVE IInv'
  OBVIOUS
<1>1. ASSUME NEW t \in Callers, CallerStep(t) PROVE IInv'
  BY <1>1, QuarantineBeginsSafe, DrawsIdSafe, MovesSafe, CopiesSafe, RemovesSafe, RecordsSafe,
     RestoreBeginsSafe, RestoreMovesSafe, RestoreCopiesSafe, RestoreRemovesSafe, RestoreForgetsSafe
     DEF CallerStep
<1>2. QED
  BY <1>1, AppearsSafe, RestartsSafe, StandsStill DEF QuarantineNext

(* The inductive invariant of the quarantine, its directory and its disk.  *)
THEOREM InvariantHolds == QuarantineSpec => []IInv
BY InitIsSafe, InvariantKept, PTL DEF QuarantineSpec

(* The quarantine stays within its types, restore holds the mutex from end *)
(* to end and its record stays (quarantine.cpp, restore).                  *)
THEOREM TypeCorrect == QuarantineSpec => []QuarantineTypeOK
<1>1. IInv => QuarantineTypeOK
  BY DEF IInv
<1>2. QED
  BY <1>1, InvariantHolds, PTL

(* What list() shows can be restored, for any number of callers and ids    *)
(* and whichever operation of the disk fails.                              *)
THEOREM RecordsHaveFiles == QuarantineSpec => []RecordHasFile
<1>1. ASSUME IInv PROVE RecordHasFile
  <2>1. mutex = Free => \A t \in Callers : pc[t] \notin Restoring
    BY <1>1, FreeIsNobody DEF IInv, QuarantineTypeOK
  <2>2. DOMAIN entries = 1 .. Len(entries)
    BY <1>1, Typed
  <2>3. QED
    BY <1>1, <2>1, <2>2 DEF IInv, Held, RecordHasFile, Restoring
<1>2. QED
  BY <1>1, InvariantHolds, PTL

-----------------------------------------------------------------------------
(* No file is lost.  The files at the paths and in the directory are one   *)
(* function of the places for a file; what a caller is about to delete is  *)
(* a function of the callers.  A file that nobody replaced is at more      *)
(* places than there are callers about to delete it.                       *)
Spots == ({"disk"} \X Paths) \cup ({"bin"} \X Ids)
Stored == [x \in Spots |-> IF x[1] = "disk" THEN disk[x[2]] ELSE bin[x[2]]]
Doomed == [t \in Callers |-> IF pc[t] \in {"remove", "unremove"} THEN job[t].file ELSE NoFile]

Count(w, f) == Cardinality({x \in DOMAIN w : w[x] = f})
Spare(w, d, n, c) == \A f \in 1 .. n : f \in c \/ Count(w, f) > Count(d, f)

Numbered ==
  /\ \A p \in Paths : disk[p] \in 0 .. files
  /\ \A i \in Ids : bin[i] \in 0 .. files
  /\ \A t \in Callers : job[t].file \in 0 .. files

SInv == IInv /\ Numbered /\ Spare(Stored, Doomed, files, collateral)

Recounted(w, y, g, f) ==
  /\ Count(w, f) \in Nat /\ Count([w EXCEPT ![y] = g], f) \in Nat
  /\ f # w[y] /\ f # g => Count([w EXCEPT ![y] = g], f) = Count(w, f)
  /\ f # w[y] /\ f = g => Count([w EXCEPT ![y] = g], f) = Count(w, f) + 1
  /\ f = w[y] /\ f # g => Count([w EXCEPT ![y] = g], f) = Count(w, f) - 1

LEMMA SpotsAreFinite == IsFiniteSet(Spots)
<1>1. IsFiniteSet({"disk"}) /\ IsFiniteSet({"bin"}) /\ IsFiniteSet(Paths)
  BY FS_Singleton, PathsAreFinite
<1>2. IsFiniteSet(Ids)
  BY FS_Interval, FileBounds DEF Ids
<1>3. IsFiniteSet({"disk"} \X Paths) /\ IsFiniteSet({"bin"} \X Ids)
  BY <1>1, <1>2, FS_Product
<1>4. QED
  BY <1>3, FS_Union DEF Spots

(* How the count of a file changes when one place is given another one.    *)
LEMMA Recount ==
  ASSUME NEW A, IsFiniteSet(A), NEW B, NEW w \in [A -> B], NEW y \in A, NEW g \in B, NEW f
  PROVE  Recounted(w, y, g, f)
<1> DEFINE v == [w EXCEPT ![y] = g]
           S == {x \in A : w[x] = f}
           T == {x \in A : v[x] = f}
<1>1. v \in [A -> B] /\ v[y] = g /\ \A x \in A \ {y} : v[x] = w[x]
  OBVIOUS
<1>2. Count(w, f) = Cardinality(S) /\ Count(v, f) = Cardinality(T)
  BY <1>1 DEF Count
<1>3. IsFiniteSet(S) /\ IsFiniteSet(T)
  BY FS_Subset
<1>4. Cardinality(S) \in Nat /\ Cardinality(T) \in Nat
  BY <1>3, FS_CardinalityType
<1> HIDE DEF v
<1>5. f # w[y] /\ f # g => T = S
  BY <1>1
<1>6. f # w[y] /\ f = g => T = S \cup {y} /\ y \notin S
  BY <1>1
<1>7. f = w[y] /\ f # g => T = S \ {y} /\ y \in S
  BY <1>1
<1> HIDE DEF S, T
<1>8. f # w[y] /\ f = g => Cardinality(T) = Cardinality(S) + 1
  BY <1>3, <1>6, FS_AddElement
<1>9. f = w[y] /\ f # g => Cardinality(T) = Cardinality(S) - 1
  BY <1>3, <1>7, FS_RemoveElement
<1>10. QED
  BY <1>2, <1>4, <1>5, <1>8, <1>9 DEF v, Recounted

(* A file is copied to a place: its copy is owed to the one to be deleted. *)
LEMMA CopySpares ==
  ASSUME NEW n \in Nat, NEW c, NEW w \in [Spots -> 0 .. n], NEW d \in [Callers -> 0 .. n],
         NEW y \in Spots, NEW t \in Callers, NEW g \in 0 .. n, d[t] = 0,
         NEW c2, c \cup ({w[y]} \ {0}) \subseteq c2, Spare(w, d, n, c)
  PROVE  Spare([w EXCEPT ![y] = g], [d EXCEPT ![t] = g], n, c2)
<1> SUFFICES ASSUME NEW f \in 1 .. n, f \notin c2
             PROVE  Count([w EXCEPT ![y] = g], f) > Count([d EXCEPT ![t] = g], f)
  BY DEF Spare
<1>1. Count(w, f) > Count(d, f) /\ f # w[y] /\ f # d[t]
  BY DEF Spare
<1>2. Recounted(w, y, g, f)
  BY SpotsAreFinite, Recount
<1>3. Recounted(d, t, g, f)
  BY CallersAreFinite, Recount
<1>4. QED
  BY <1>1, <1>2, <1>3 DEF Recounted

(* A file is moved from one place to another.                              *)
LEMMA MoveSpares ==
  ASSUME NEW n \in Nat, NEW c, NEW w \in [Spots -> 0 .. n], NEW d,
         NEW y \in Spots, NEW z \in Spots, y # z,
         NEW v \in [Spots -> 0 .. n], v[y] = w[z], v[z] = 0,
         \A x \in Spots \ {y, z} : v[x] = w[x],
         NEW c2, c \cup ({w[y]} \ {0}) \subseteq c2, Spare(w, d, n, c)
  PROVE  Spare(v, d, n, c2)
<1> DEFINE u == [w EXCEPT ![y] = w[z]]
<1> SUFFICES ASSUME NEW f \in 1 .. n, f \notin c2
             PROVE  Count(v, f) > Count(d, f)
  BY DEF Spare
<1>1. Count(w, f) > Count(d, f) /\ f # w[y] /\ f # 0
  BY DEF Spare
<1>2. w[z] \in 0 .. n /\ u \in [Spots -> 0 .. n] /\ u[z] = w[z] /\ 0 \in 0 .. n
  OBVIOUS
<1>3. v = [u EXCEPT ![z] = 0]
  OBVIOUS
<1>4. Recounted(w, y, w[z], f)
  BY <1>2, SpotsAreFinite, Recount
<1> HIDE DEF u
<1>5. Recounted(u, z, 0, f)
  BY <1>2, SpotsAreFinite, Recount
<1>6. Count(v, f) = Count(w, f)
  BY <1>1, <1>2, <1>3, <1>4, <1>5 DEF Recounted, u
<1>7. QED
  BY <1>1, <1>6

(* The file to be deleted, or another one in its place, is deleted.        *)
LEMMA DeleteSpares ==
  ASSUME NEW n \in Nat, NEW c, NEW w \in [Spots -> 0 .. n], NEW d \in [Callers -> 0 .. n],
         NEW y \in Spots, NEW t \in Callers,
         NEW c2, c \subseteq c2, w[y] = d[t] \/ w[y] \in c2 \cup {0}, Spare(w, d, n, c)
  PROVE  Spare([w EXCEPT ![y] = 0], [d EXCEPT ![t] = 0], n, c2)
<1> SUFFICES ASSUME NEW f \in 1 .. n, f \notin c2
             PROVE  Count([w EXCEPT ![y] = 0], f) > Count([d EXCEPT ![t] = 0], f)
  BY DEF Spare
<1>1. Count(w, f) > Count(d, f) /\ f # 0 /\ 0 \in 0 .. n /\ (f = w[y] => f = d[t])
  BY DEF Spare
<1>2. Recounted(w, y, 0, f)
  BY <1>1, SpotsAreFinite, Recount
<1>3. Recounted(d, t, 0, f)
  BY <1>1, CallersAreFinite, Recount
<1>4. QED
  BY <1>1, <1>2, <1>3 DEF Recounted

(* The deletion is given up.                                               *)
LEMMA KeepSpares ==
  ASSUME NEW n \in Nat, NEW c, NEW w, NEW d \in [Callers -> 0 .. n], NEW t \in Callers,
         \A f \in 1 .. n : Count(w, f) \in Nat, Spare(w, d, n, c)
  PROVE  Spare(w, [d EXCEPT ![t] = 0], n, c)
<1> SUFFICES ASSUME NEW f \in 1 .. n, f \notin c
             PROVE  Count(w, f) > Count([d EXCEPT ![t] = 0], f)
  BY DEF Spare
<1>1. Count(w, f) > Count(d, f) /\ f # 0 /\ 0 \in 0 .. n
  BY DEF Spare
<1>2. Recounted(d, t, 0, f)
  BY <1>1, CallersAreFinite, Recount
<1>3. Count(w, f) \in Nat
  OBVIOUS
<1>4. QED
  BY <1>1, <1>2, <1>3 DEF Recounted

(* The two functions, and what an assignment of an action makes of them.   *)
LEMMA StoredTyped ==
  ASSUME IInv, Numbered
  PROVE  /\ Stored \in [Spots -> 0 .. files] /\ Doomed \in [Callers -> 0 .. files] /\ files \in Nat
         /\ \A p \in Paths : <<"disk", p>> \in Spots /\ Stored[<<"disk", p>>] = disk[p]
         /\ \A i \in Ids : <<"bin", i>> \in Spots /\ Stored[<<"bin", i>>] = bin[i]
<1>1. files \in Nat /\ 0 \in 0 .. files
  BY FileBounds DEF IInv, QuarantineTypeOK, Files
<1>2. \A x \in Spots : (IF x[1] = "disk" THEN disk[x[2]] ELSE bin[x[2]]) \in 0 .. files
  BY DEF Spots, Numbered
<1>3. Stored \in [Spots -> 0 .. files]
  BY <1>2 DEF Stored
<1>4. Doomed \in [Callers -> 0 .. files]
  BY <1>1 DEF Doomed, Numbered, NoFile
<1>5. \A p \in Paths : <<"disk", p>> \in Spots /\ Stored[<<"disk", p>>] = disk[p]
  BY DEF Spots, Stored
<1>6. \A i \in Ids : <<"bin", i>> \in Spots /\ Stored[<<"bin", i>>] = bin[i]
  BY DEF Spots, Stored
<1>7. QED
  BY <1>1, <1>3, <1>4, <1>5, <1>6

LEMMA DiskSet ==
  ASSUME IInv, NEW p \in Paths, NEW g, disk' = [disk EXCEPT ![p] = g], bin' = bin
  PROVE  Stored' = [Stored EXCEPT ![<<"disk", p>>] = g]
<1>1. disk'[p] = g /\ \A q \in Paths \ {p} : disk'[q] = disk[q]
  BY Typed
<1>2. \A x \in Spots : (IF x[1] = "disk" THEN disk'[x[2]] ELSE bin'[x[2]])
                          = IF x = <<"disk", p>> THEN g ELSE Stored[x]
  BY <1>1 DEF Spots, Stored
<1>3. Stored' = [x \in Spots |-> IF x = <<"disk", p>> THEN g ELSE Stored[x]]
  BY <1>2 DEF Stored
<1>4. [Stored EXCEPT ![<<"disk", p>>] = g] = [x \in Spots |-> IF x = <<"disk", p>> THEN g ELSE Stored[x]]
  BY DEF Stored
<1>5. QED
  BY <1>3, <1>4

LEMMA BinSet ==
  ASSUME IInv, NEW i \in Ids, NEW g, bin' = [bin EXCEPT ![i] = g], disk' = disk
  PROVE  Stored' = [Stored EXCEPT ![<<"bin", i>>] = g]
<1>1. bin'[i] = g /\ \A k \in Ids \ {i} : bin'[k] = bin[k]
  BY Typed
<1>2. \A x \in Spots : (IF x[1] = "disk" THEN disk'[x[2]] ELSE bin'[x[2]])
                          = IF x = <<"bin", i>> THEN g ELSE Stored[x]
  BY <1>1 DEF Spots, Stored
<1>3. Stored' = [x \in Spots |-> IF x = <<"bin", i>> THEN g ELSE Stored[x]]
  BY <1>2 DEF Stored
<1>4. [Stored EXCEPT ![<<"bin", i>>] = g] = [x \in Spots |-> IF x = <<"bin", i>> THEN g ELSE Stored[x]]
  BY DEF Stored
<1>5. QED
  BY <1>3, <1>4

LEMMA BothSet ==
  ASSUME IInv, NEW p \in Paths, NEW i \in Ids, NEW g, NEW h,
         disk' = [disk EXCEPT ![p] = g], bin' = [bin EXCEPT ![i] = h]
  PROVE  /\ Stored'[<<"disk", p>>] = g /\ Stored'[<<"bin", i>>] = h
         /\ \A x \in Spots \ {<<"disk", p>>, <<"bin", i>>} : Stored'[x] = Stored[x]
<1>1. /\ disk'[p] = g /\ \A q \in Paths \ {p} : disk'[q] = disk[q]
      /\ bin'[i] = h /\ \A k \in Ids \ {i} : bin'[k] = bin[k]
  BY Typed
<1>2. <<"disk", p>> \in Spots /\ <<"bin", i>> \in Spots
  BY DEF Spots
<1>3. Stored'[<<"disk", p>>] = g /\ Stored'[<<"bin", i>>] = h
  BY <1>1, <1>2 DEF Stored
<1>4. \A x \in Spots \ {<<"disk", p>>, <<"bin", i>>} : Stored'[x] = Stored[x]
  BY <1>1 DEF Spots, Stored
<1>5. QED
  BY <1>3, <1>4

LEMMA DoomedSet ==
  ASSUME NEW t \in Callers, \A u \in Callers \ {t} : pc'[u] = pc[u] /\ job'[u].file = job[u].file
  PROVE  Doomed' = [Doomed EXCEPT ![t] = IF pc'[t] \in {"remove", "unremove"} THEN job'[t].file ELSE NoFile]
<1> DEFINE g == IF pc'[t] \in {"remove", "unremove"} THEN job'[t].file ELSE NoFile
<1>1. Doomed' = [u \in Callers |-> IF u = t THEN g ELSE Doomed[u]]
  BY DEF Doomed
<1>2. [Doomed EXCEPT ![t] = g] = [u \in Callers |-> IF u = t THEN g ELSE Doomed[u]]
  BY DEF Doomed
<1>3. QED
  BY <1>1, <1>2

(* A step that touches no file.                                            *)
LEMMA QuietStep ==
  ASSUME SInv, NEW t \in Callers, UNCHANGED <<disk, bin, files, collateral>>,
         \A u \in Callers \ {t} : pc'[u] = pc[u] /\ job'[u].file = job[u].file,
         pc'[t] \notin {"remove", "unremove"}, job'[t].file \in 0 .. files
  PROVE  Numbered' /\ Spare(Stored, Doomed, files, collateral)'
<1>1. Stored' = Stored
  BY DEF Stored
<1>2. Doomed' = [Doomed EXCEPT ![t] = 0]
  BY DoomedSet DEF NoFile
<1>3. Numbered'
  BY DEF SInv, Numbered
<1>4. \A f \in 1 .. files : Count(Stored, f) \in Nat
  <2>1. TAKE f \in 1 .. files
  <2>2. {x \in Spots : Stored[x] = f} \in SUBSET Spots /\ DOMAIN Stored = Spots
    BY StoredTyped DEF SInv
  <2>3. QED
    BY <2>2, SpotsAreFinite, FS_Subset, FS_CardinalityType DEF Count
<1>5. Spare(Stored, [Doomed EXCEPT ![t] = 0], files, collateral)
  BY <1>4, StoredTyped, KeepSpares DEF SInv
<1>6. QED
  BY <1>1, <1>2, <1>3, <1>5

(* The file a caller holds in its job, by the assignments of its step.     *)
LEMMA FileKnown ==
  ASSUME SInv, NEW t \in Callers
  PROVE  /\ IInv /\ Numbered /\ job \in [Callers -> Jobs] /\ pc \in [Callers -> Places]
         /\ job[t].file \in 0 .. files /\ 0 \in 0 .. files /\ NoJob.file = 0
BY Typed, StoredTyped, NoJobIsAJob DEF SInv, Numbered, NoFile

Outcome == Numbered' /\ Spare(Stored, Doomed, files, collateral)'

LEMMA CopyStep ==
  ASSUME SInv, NEW t \in Callers, UNCHANGED files, pc[t] \notin {"remove", "unremove"},
         \A u \in Callers \ {t} : pc'[u] = pc[u] /\ job'[u].file = job[u].file,
         pc'[t] \in {"remove", "unremove"}, job'[t].file \in 0 .. files,
         NEW y \in Spots, Stored' = [Stored EXCEPT ![y] = job'[t].file],
         collateral \cup ({Stored[y]} \ {0}) \subseteq collateral',
         Numbered'
  PROVE  Outcome
<1>1. Doomed' = [Doomed EXCEPT ![t] = job'[t].file] /\ Doomed[t] = 0
  BY DoomedSet DEF Doomed, NoFile
<1>2. Spare(Stored', Doomed', files, collateral')
  BY <1>1, StoredTyped, CopySpares DEF SInv
<1>3. QED
  BY <1>2 DEF Outcome

LEMMA MoveStep ==
  ASSUME SInv, NEW t \in Callers, UNCHANGED files,
         pc[t] \notin {"remove", "unremove"}, pc'[t] \notin {"remove", "unremove"},
         \A u \in Callers \ {t} : pc'[u] = pc[u] /\ job'[u].file = job[u].file,
         NEW y \in Spots, NEW z \in Spots, y # z,
         Stored' \in [Spots -> 0 .. files], Stored'[y] = Stored[z], Stored'[z] = 0,
         \A x \in Spots \ {y, z} : Stored'[x] = Stored[x],
         collateral \cup ({Stored[y]} \ {0}) \subseteq collateral',
         Numbered'
  PROVE  Outcome
<1>1. Doomed' = Doomed
  <2>1. Doomed' = [Doomed EXCEPT ![t] = 0] /\ Doomed[t] = 0
    BY DoomedSet DEF Doomed, NoFile
  <2>2. QED
    BY <2>1 DEF Doomed
<1>2. Spare(Stored', Doomed, files, collateral')
  BY StoredTyped, MoveSpares DEF SInv
<1>3. QED
  BY <1>1, <1>2 DEF Outcome

LEMMA DeleteStep ==
  ASSUME SInv, NEW t \in Callers, UNCHANGED files,
         pc[t] \in {"remove", "unremove"}, pc'[t] \notin {"remove", "unremove"},
         \A u \in Callers \ {t} : pc'[u] = pc[u] /\ job'[u].file = job[u].file,
         NEW y \in Spots, Stored' = [Stored EXCEPT ![y] = 0],
         collateral \cup ({IF Stored[y] = job[t].file THEN 0 ELSE Stored[y]} \ {0}) \subseteq collateral',
         Numbered'
  PROVE  Outcome
<1>1. Doomed' = [Doomed EXCEPT ![t] = 0] /\ Doomed[t] = job[t].file
  BY DoomedSet DEF Doomed, NoFile
<1>2. Stored[y] = Doomed[t] \/ Stored[y] \in collateral' \cup {0}
  BY <1>1
<1>3. collateral \subseteq collateral'
  OBVIOUS
<1>4. Spare([Stored EXCEPT ![y] = 0], [Doomed EXCEPT ![t] = 0], files, collateral')
  BY <1>2, <1>3, StoredTyped, DeleteSpares DEF SInv
<1>5. QED
  BY <1>1, <1>4 DEF Outcome

LEMMA QuarantineBeginsSpares ==
  ASSUME SInv, NEW t \in Callers, NEW p \in Paths, QuarantineBegins(t, p)
  PROVE  Outcome
<1>1. /\ job' = [job EXCEPT ![t] = [NoJob EXCEPT !.path = p]] /\ pc' = [pc EXCEPT ![t] = "id"]
      /\ UNCHANGED <<disk, bin, files, collateral>>
  BY DEF QuarantineBegins, Goto, diskVars, countVars
<1>2. [NoJob EXCEPT !.path = p].file = 0
  BY FileKnown, NoJobIsAJob DEF Jobs
<1>3. job'[t].file = 0 /\ pc'[t] = "id" /\ \A u \in Callers \ {t} : pc'[u] = pc[u] /\ job'[u].file = job[u].file
  BY <1>1, <1>2, FileKnown
<1>4. QED
  BY <1>1, <1>3, FileKnown, QuietStep DEF Outcome

LEMMA DrawsIdSpares ==
  ASSUME SInv, NEW t \in Callers, DrawsId(t)
  PROVE  Outcome
<1>1. pc' = [pc EXCEPT ![t] = "move"] /\ UNCHANGED <<disk, bin, files, collateral>>
  BY DEF DrawsId, Goto, diskVars
<1>2. PICK i \in Ids :
        job' = [u \in Callers |->
                     IF u = t THEN [job[t] EXCEPT !.id = i, !.raced = {}]
                     ELSE IF pc[u] = "id" THEN [job[u] EXCEPT !.raced = @ \cup {i}]
                     ELSE job[u]]
  BY DEF DrawsId
<1>3. \A u \in Callers : job'[u].file = job[u].file
  <2>1. \A u \in Callers : job[u] \in Jobs
    BY Typed DEF SInv
  <2>2. QED
    BY <1>2, <2>1 DEF Jobs
<1>4. pc'[t] = "move" /\ \A u \in Callers \ {t} : pc'[u] = pc[u]
  BY <1>1, FileKnown
<1>5. QED
  BY <1>1, <1>3, <1>4, FileKnown, QuietStep DEF Outcome

(* A step that goes on without touching a file, and one that ends.         *)
LEMMA QuietGoto ==
  ASSUME SInv, NEW t \in Callers, NEW w, w \notin {"remove", "unremove"}, Goto(t, w),
         UNCHANGED <<disk, bin, job, files, collateral>>
  PROVE  Outcome
<1>1. pc'[t] = w /\ \A u \in Callers \ {t} : pc'[u] = pc[u]
  BY FileKnown DEF Goto
<1>2. QED
  BY <1>1, FileKnown, QuietStep DEF Outcome

LEMMA QuietLeave ==
  ASSUME SInv, NEW t \in Callers, Leave(t), UNCHANGED <<disk, bin, files, collateral>>
  PROVE  Outcome
<1>1. /\ pc'[t] = "idle" /\ \A u \in Callers \ {t} : pc'[u] = pc[u]
      /\ job'[t] = NoJob /\ \A u \in Callers \ {t} : job'[u] = job[u]
  BY FileKnown DEF Leave, Goto
<1>2. QED
  BY <1>1, FileKnown, QuietStep DEF Outcome

(* The frame of a step that notes the file it works on.                    *)
LEMMA NotesFile ==
  ASSUME SInv, NEW t \in Callers, NEW w, Goto(t, w), NEW f \in 0 .. files,
         job' = [job EXCEPT ![t].file = f]
  PROVE  /\ pc'[t] = w /\ job'[t].file = f
         /\ \A u \in Callers \ {t} : pc'[u] = pc[u] /\ job'[u].file = job[u].file
<1>1. f \in Files
  BY FileBounds DEF SInv, IInv, QuarantineTypeOK, Files
<1>2. QED
  BY <1>1, FileKnown, FileSet DEF Goto

LEMMA MovesSpares ==
  ASSUME SInv, NEW t \in Callers, Moves(t)
  PROVE  Outcome
<1>1. pc[t] = "move" /\ files' = files /\ pc[t] \in Keeping /\ IInv /\ Numbered
  BY FileKnown DEF Moves, Keeping, countVars
<1>2. job[t].id \in Ids /\ job[t].path \in Paths
  BY <1>1, Working
<1> DEFINE f == disk[job[t].path]
           y == <<"bin", job[t].id>>
           z == <<"disk", job[t].path>>
<1>3. CASE /\ f # NoFile /\ PutsInBin(t) /\ Goto(t, "record")
           /\ disk' = [disk EXCEPT ![job[t].path] = NoFile]
  <2>1. f \in 0 .. files /\ bin[job[t].id] \in 0 .. files
    BY <1>1, <1>2 DEF Numbered
  <2>2. y \in Spots /\ z \in Spots /\ Stored[z] = f /\ Stored[y] = bin[job[t].id]
    BY <1>1, <1>2, StoredTyped
  <2>3. /\ job' = [job EXCEPT ![t].file = f] /\ bin' = [bin EXCEPT ![job[t].id] = f]
        /\ disk' = [disk EXCEPT ![job[t].path] = 0]
        /\ collateral' = collateral \cup ({bin[job[t].id]} \ {0})
    BY <1>3 DEF PutsInBin, Spoils, NoFile
  <2> HIDE DEF f
  <2>4. /\ pc'[t] = "record" /\ job'[t].file = f
        /\ \A u \in Callers \ {t} : pc'[u] = pc[u] /\ job'[u].file = job[u].file
    BY <1>3, <2>1, <2>3, NotesFile
  <2>5. /\ Stored'[y] = f /\ Stored'[z] = 0 /\ y # z
        /\ \A x \in Spots \ {y, z} : Stored'[x] = Stored[x]
    <3>1. /\ Stored'[z] = 0 /\ Stored'[y] = f
          /\ \A x \in Spots \ {z, y} : Stored'[x] = Stored[x]
      BY <1>1, <1>2, <2>3, BothSet
    <3>2. y # z
      OBVIOUS
    <3>3. Spots \ {z, y} = Spots \ {y, z}
      OBVIOUS
    <3>4. QED
      BY <3>1, <3>2, <3>3
  <2>6. Numbered'
    <3>1. \A p \in Paths : disk'[p] \in 0 .. files
      BY <1>1, <2>1, <2>3, Typed, StoredTyped DEF Numbered
    <3>2. \A i \in Ids : bin'[i] \in 0 .. files
      BY <1>1, <2>1, <2>3, Typed DEF Numbered
    <3>3. \A u \in Callers : job'[u].file \in 0 .. files
      BY <1>1, <2>1, <2>4 DEF Numbered
    <3>4. QED
      BY <1>1, <3>1, <3>2, <3>3 DEF Numbered
  <2>7. Stored' \in [Spots -> 0 .. files]
    <3>1. \A x \in Spots : (IF x[1] = "disk" THEN disk'[x[2]] ELSE bin'[x[2]]) \in 0 .. files
      BY <1>1, <2>6 DEF Spots, Numbered
    <3>2. QED
      BY <3>1 DEF Stored
  <2> HIDE DEF y, z
  <2>8. collateral \cup ({Stored[y]} \ {0}) \subseteq collateral'
    BY <2>2, <2>3
  <2>9. QED
    BY <1>1, <2>2, <2>4, <2>5, <2>6, <2>7, <2>8, MoveStep
<1>4. CASE Goto(t, "copy") /\ UNCHANGED <<disk, bin, job, collateral>>
  BY <1>1, <1>4, QuietGoto
<1>5. QED
  BY <1>3, <1>4 DEF Moves

LEMMA CopiesSpares ==
  ASSUME SInv, NEW t \in Callers, Copies(t)
  PROVE  Outcome
<1>1. pc[t] = "copy" /\ files' = files /\ disk' = disk /\ pc[t] \in Keeping /\ IInv /\ Numbered
  BY FileKnown DEF Copies, Keeping, countVars
<1>2. job[t].id \in Ids /\ job[t].path \in Paths
  BY <1>1, Working
<1> DEFINE f == disk[job[t].path]
           y == <<"bin", job[t].id>>
<1>3. CASE f # NoFile /\ PutsInBin(t) /\ Goto(t, "remove")
  <2>1. f \in 0 .. files
    BY <1>1, <1>2 DEF Numbered
  <2>2. y \in Spots /\ Stored[y] = bin[job[t].id]
    BY <1>1, <1>2, StoredTyped
  <2>3. /\ job' = [job EXCEPT ![t].file = f] /\ bin' = [bin EXCEPT ![job[t].id] = f]
        /\ collateral' = collateral \cup ({bin[job[t].id]} \ {0})
    BY <1>3 DEF PutsInBin, Spoils, NoFile
  <2> HIDE DEF f
  <2>4. /\ pc'[t] = "remove" /\ job'[t].file = f
        /\ \A u \in Callers \ {t} : pc'[u] = pc[u] /\ job'[u].file = job[u].file
    BY <1>3, <2>1, <2>3, NotesFile
  <2>5. Stored' = [Stored EXCEPT ![y] = f]
    BY <1>1, <1>2, <2>3, BinSet
  <2>6. Numbered'
    BY <1>1, <1>2, <2>1, <2>3, <2>4, Typed DEF Numbered
  <2> HIDE DEF y
  <2>7. collateral \cup ({Stored[y]} \ {0}) \subseteq collateral'
    BY <2>2, <2>3
  <2>8. QED
    BY <1>1, <2>1, <2>2, <2>4, <2>5, <2>6, <2>7, CopyStep
<1>4. CASE UNCHANGED <<bin, collateral>> /\ Leave(t)
  BY <1>1, <1>4, QuietLeave
<1>5. QED
  BY <1>3, <1>4 DEF Copies

LEMMA RemovesSpares ==
  ASSUME SInv, NEW t \in Callers, Removes(t)
  PROVE  Outcome
<1>1. /\ pc[t] = "remove" /\ UNCHANGED <<bin, job, files>> /\ Goto(t, "record")
      /\ pc[t] \in Keeping /\ IInv /\ Numbered
  BY FileKnown DEF Removes, Keeping, countVars
<1>2. job[t].path \in Paths
  BY <1>1, Working
<1> DEFINE y == <<"disk", job[t].path>>
<1>3. CASE /\ Spoils(IF disk[job[t].path] = job[t].file THEN NoFile ELSE disk[job[t].path])
           /\ disk' = [disk EXCEPT ![job[t].path] = NoFile]
  <2>1. y \in Spots /\ Stored[y] = disk[job[t].path] /\ 0 \in 0 .. files
    BY <1>1, <1>2, StoredTyped
  <2>2. pc'[t] = "record" /\ \A u \in Callers \ {t} : pc'[u] = pc[u] /\ job'[u].file = job[u].file
    BY <1>1, FileKnown DEF Goto
  <2>3. Stored' = [Stored EXCEPT ![y] = 0]
    BY <1>1, <1>2, <1>3, DiskSet DEF NoFile
  <2>4. Numbered'
    BY <1>1, <1>3, <2>1, Typed DEF Numbered, NoFile
  <2> HIDE DEF y
  <2>5. collateral \cup ({IF Stored[y] = job[t].file THEN 0 ELSE Stored[y]} \ {0}) \subseteq collateral'
    BY <1>3, <2>1 DEF Spoils, NoFile
  <2>6. QED
    BY <1>1, <2>1, <2>2, <2>3, <2>4, <2>5, DeleteStep
<1>4. CASE UNCHANGED <<disk, collateral>>
  BY <1>1, <1>4, QuietGoto
<1>5. QED
  BY <1>3, <1>4 DEF Removes

LEMMA RestoreBeginsSpares ==
  ASSUME SInv, NEW t \in Callers, NEW i \in Ids, RestoreBegins(t, i)
  PROVE  Outcome
<1>1. PICK n \in DOMAIN entries : job' = [job EXCEPT ![t] = [NoJob EXCEPT !.path = entries[n].path, !.id = i]]
  BY DEF RestoreBegins
<1>2. pc' = [pc EXCEPT ![t] = "unmove"] /\ UNCHANGED <<disk, bin, files, collateral>>
  BY DEF RestoreBegins, Goto, diskVars, countVars
<1>3. [NoJob EXCEPT !.path = entries[n].path, !.id = i].file = 0
  BY FileKnown, NoJobIsAJob DEF Jobs
<1>4. /\ job'[t].file = 0 /\ pc'[t] = "unmove"
      /\ \A u \in Callers \ {t} : pc'[u] = pc[u] /\ job'[u].file = job[u].file
  BY <1>1, <1>2, <1>3, FileKnown
<1>5. QED
  BY <1>2, <1>4, FileKnown, QuietStep DEF Outcome

LEMMA RestoreMovesSpares ==
  ASSUME SInv, NEW t \in Callers, RestoreMoves(t)
  PROVE  Outcome
<1>1. pc[t] = "unmove" /\ files' = files /\ pc[t] \in Restoring /\ IInv /\ Numbered
  BY FileKnown DEF RestoreMoves, Restoring, countVars
<1>2. job[t].id \in Ids /\ job[t].path \in Paths
  BY <1>1, Working
<1> DEFINE f == bin[job[t].id]
           y == <<"disk", job[t].path>>
           z == <<"bin", job[t].id>>
<1>3. CASE /\ PutsBack(t) /\ Spoils(disk[job[t].path]) /\ Goto(t, "forget")
           /\ bin' = [bin EXCEPT ![job[t].id] = NoFile]
  <2>1. f \in 0 .. files /\ disk[job[t].path] \in 0 .. files
    BY <1>1, <1>2 DEF Numbered
  <2>2. y \in Spots /\ z \in Spots /\ Stored[z] = f /\ Stored[y] = disk[job[t].path]
    BY <1>1, <1>2, StoredTyped
  <2>3. /\ job' = [job EXCEPT ![t].file = f] /\ disk' = [disk EXCEPT ![job[t].path] = f]
        /\ bin' = [bin EXCEPT ![job[t].id] = 0]
        /\ collateral' = collateral \cup ({disk[job[t].path]} \ {0})
    BY <1>3 DEF PutsBack, Spoils, NoFile
  <2> HIDE DEF f
  <2>4. /\ pc'[t] = "forget" /\ job'[t].file = f
        /\ \A u \in Callers \ {t} : pc'[u] = pc[u] /\ job'[u].file = job[u].file
    BY <1>3, <2>1, <2>3, NotesFile
  <2>5. /\ Stored'[y] = f /\ Stored'[z] = 0 /\ y # z
        /\ \A x \in Spots \ {y, z} : Stored'[x] = Stored[x]
    <3>1. /\ Stored'[y] = f /\ Stored'[z] = 0
          /\ \A x \in Spots \ {y, z} : Stored'[x] = Stored[x]
      BY <1>1, <1>2, <2>3, BothSet
    <3>2. y # z
      OBVIOUS
    <3>3. QED
      BY <3>1, <3>2
  <2>6. Numbered'
    <3>1. \A p \in Paths : disk'[p] \in 0 .. files
      BY <1>1, <2>1, <2>3, Typed DEF Numbered
    <3>2. \A i \in Ids : bin'[i] \in 0 .. files
      BY <1>1, <2>1, <2>3, Typed, StoredTyped DEF Numbered
    <3>3. \A u \in Callers : job'[u].file \in 0 .. files
      BY <1>1, <2>1, <2>4 DEF Numbered
    <3>4. QED
      BY <1>1, <3>1, <3>2, <3>3 DEF Numbered
  <2>7. Stored' \in [Spots -> 0 .. files]
    <3>1. \A x \in Spots : (IF x[1] = "disk" THEN disk'[x[2]] ELSE bin'[x[2]]) \in 0 .. files
      BY <1>1, <2>6 DEF Spots, Numbered
    <3>2. QED
      BY <3>1 DEF Stored
  <2> HIDE DEF y, z
  <2>8. collateral \cup ({Stored[y]} \ {0}) \subseteq collateral'
    BY <2>2, <2>3
  <2>9. QED
    BY <1>1, <2>2, <2>4, <2>5, <2>6, <2>7, <2>8, MoveStep
<1>4. CASE Goto(t, "uncopy") /\ UNCHANGED <<disk, bin, job, collateral>>
  BY <1>1, <1>4, QuietGoto
<1>5. QED
  BY <1>3, <1>4 DEF RestoreMoves

LEMMA RestoreCopiesSpares ==
  ASSUME SInv, NEW t \in Callers, RestoreCopies(t)
  PROVE  Outcome
<1>1. pc[t] = "uncopy" /\ files' = files /\ bin' = bin /\ pc[t] \in Restoring /\ IInv /\ Numbered
  BY FileKnown DEF RestoreCopies, Restoring, countVars
<1>2. job[t].id \in Ids /\ job[t].path \in Paths
  BY <1>1, Working
<1> DEFINE f == bin[job[t].id]
           y == <<"disk", job[t].path>>
<1>3. CASE PutsBack(t) /\ Spoils(disk[job[t].path]) /\ Goto(t, "unremove")
  <2>1. f \in 0 .. files
    BY <1>1, <1>2 DEF Numbered
  <2>2. y \in Spots /\ Stored[y] = disk[job[t].path]
    BY <1>1, <1>2, StoredTyped
  <2>3. /\ job' = [job EXCEPT ![t].file = f] /\ disk' = [disk EXCEPT ![job[t].path] = f]
        /\ collateral' = collateral \cup ({disk[job[t].path]} \ {0})
    BY <1>3 DEF PutsBack, Spoils, NoFile
  <2> HIDE DEF f
  <2>4. /\ pc'[t] = "unremove" /\ job'[t].file = f
        /\ \A u \in Callers \ {t} : pc'[u] = pc[u] /\ job'[u].file = job[u].file
    BY <1>3, <2>1, <2>3, NotesFile
  <2>5. Stored' = [Stored EXCEPT ![y] = f]
    BY <1>1, <1>2, <2>3, DiskSet
  <2>6. Numbered'
    BY <1>1, <1>2, <2>1, <2>3, <2>4, Typed DEF Numbered
  <2> HIDE DEF y
  <2>7. collateral \cup ({Stored[y]} \ {0}) \subseteq collateral'
    BY <2>2, <2>3
  <2>8. QED
    BY <1>1, <2>1, <2>2, <2>4, <2>5, <2>6, <2>7, CopyStep
<1>4. CASE Leave(t) /\ UNCHANGED <<disk, collateral>>
  BY <1>1, <1>4, QuietLeave
<1>5. QED
  BY <1>3, <1>4 DEF RestoreCopies

LEMMA RestoreRemovesSpares ==
  ASSUME SInv, NEW t \in Callers, RestoreRemoves(t)
  PROVE  Outcome
<1>1. /\ pc[t] = "unremove" /\ UNCHANGED <<disk, job, files>> /\ Goto(t, "forget")
      /\ pc[t] \in Restoring /\ IInv /\ Numbered
  BY FileKnown DEF RestoreRemoves, Restoring, countVars
<1>2. job[t].id \in Ids
  BY <1>1, Working
<1> DEFINE y == <<"bin", job[t].id>>
<1>3. CASE /\ Spoils(IF bin[job[t].id] = job[t].file THEN NoFile ELSE bin[job[t].id])
           /\ bin' = [bin EXCEPT ![job[t].id] = NoFile]
  <2>1. y \in Spots /\ Stored[y] = bin[job[t].id] /\ 0 \in 0 .. files
    BY <1>1, <1>2, StoredTyped
  <2>2. pc'[t] = "forget" /\ \A u \in Callers \ {t} : pc'[u] = pc[u] /\ job'[u].file = job[u].file
    BY <1>1, FileKnown DEF Goto
  <2>3. Stored' = [Stored EXCEPT ![y] = 0]
    BY <1>1, <1>2, <1>3, BinSet DEF NoFile
  <2>4. Numbered'
    BY <1>1, <1>3, <2>1, Typed DEF Numbered, NoFile
  <2> HIDE DEF y
  <2>5. collateral \cup ({IF Stored[y] = job[t].file THEN 0 ELSE Stored[y]} \ {0}) \subseteq collateral'
    BY <1>3, <2>1 DEF Spoils, NoFile
  <2>6. QED
    BY <1>1, <2>1, <2>2, <2>3, <2>4, <2>5, DeleteStep
<1>4. CASE UNCHANGED <<bin, collateral>>
  BY <1>1, <1>4, QuietGoto
<1>5. QED
  BY <1>3, <1>4 DEF RestoreRemoves

(* All the deletions under way are given up when the process ends.         *)
LEMMA RestartsSpares ==
  ASSUME SInv, Restarts
  PROVE  Outcome
<1>1. /\ pc' = [u \in Callers |-> "idle"] /\ job' = [u \in Callers |-> NoJob]
      /\ UNCHANGED <<disk, bin, files, collateral>>
  BY DEF Restarts, diskVars, countVars
<1>2. Numbered'
  <2>1. files \in Nat
    BY StoredTyped DEF SInv
  <2>2. QED
    BY <1>1, <2>1, NoJobIsAJob DEF SInv, Numbered, NoFile
<1>3. Doomed' = [u \in Callers |-> 0]
  BY <1>1 DEF Doomed, NoFile
<1>4. \A f \in 1 .. files : Count(Doomed', f) = 0
  <2>1. TAKE f \in 1 .. files
  <2>2. {u \in DOMAIN Doomed' : Doomed'[u] = f} = {}
    BY <1>3
  <2>3. QED
    BY <2>2, FS_EmptySet DEF Count
<1>5. \A f \in 1 .. files : f \in collateral \/ Count(Stored, f) > 0
  <2>1. TAKE f \in 1 .. files
  <2>2. Count(Doomed, f) \in Nat /\ Count(Stored, f) \in Nat
    <3>1. {u \in Callers : Doomed[u] = f} \in SUBSET Callers /\ DOMAIN Doomed = Callers
      BY DEF Doomed
    <3>2. {x \in Spots : Stored[x] = f} \in SUBSET Spots /\ DOMAIN Stored = Spots
      BY DEF Stored
    <3>3. QED
      BY <3>1, <3>2, CallersAreFinite, SpotsAreFinite, FS_Subset, FS_CardinalityType DEF Count
  <2>3. QED
    BY <2>2 DEF SInv, Spare
<1>6. Stored' = Stored
  BY <1>1 DEF Stored
<1>7. QED
  BY <1>1, <1>2, <1>4, <1>5, <1>6 DEF Outcome, Spare

(* A new file has a place, and nobody is about to delete it.               *)
LEMMA AppearsSpares ==
  ASSUME SInv, NEW p \in Paths, Appears(p)
  PROVE  Outcome
<1> DEFINE y == <<"disk", p>>
<1>1. /\ disk[p] = 0 /\ files' = files + 1 /\ disk' = [disk EXCEPT ![p] = files']
      /\ UNCHANGED <<bin, pc, job, collateral>> /\ IInv /\ Numbered
  BY DEF Appears, SInv, NoFile
<1>2. /\ Stored \in [Spots -> 0 .. files] /\ Doomed \in [Callers -> 0 .. files] /\ files \in Nat
      /\ y \in Spots /\ Stored[y] = 0
  BY <1>1, StoredTyped
<1>3. Stored' = [Stored EXCEPT ![y] = files'] /\ Doomed' = Doomed
  BY <1>1, DiskSet DEF Doomed
<1>4. Numbered'
  <2>1. \A q \in Paths : disk'[q] \in 0 .. files'
    BY <1>1, <1>2, Typed DEF Numbered
  <2>2. \A i \in Ids : bin'[i] \in 0 .. files'
    BY <1>1, <1>2 DEF Numbered
  <2>3. \A u \in Callers : job'[u].file \in 0 .. files'
    BY <1>1, <1>2 DEF Numbered
  <2>4. QED
    BY <2>1, <2>2, <2>3 DEF Numbered
<1> HIDE DEF y
<1>5. \A f \in 1 .. files' : Recounted(Stored, y, files', f)
  <2>1. Stored \in [Spots -> 0 .. files'] /\ files' \in 0 .. files'
    BY <1>1, <1>2
  <2>2. QED
    BY <1>2, <2>1, SpotsAreFinite, Recount
<1>6. ASSUME NEW f \in 1 .. files', f \notin collateral
      PROVE  Count(Stored', f) > Count(Doomed', f)
  <2>1. CASE f \in 1 .. files
    <3>1. f # files' /\ f # Stored[y] /\ Count(Stored, f) > Count(Doomed, f)
      BY <1>1, <1>2, <1>6, <2>1 DEF SInv, Spare
    <3>2. QED
      BY <1>3, <1>5, <3>1 DEF Recounted
  <2>2. CASE f = files'
    <3>1. {u \in DOMAIN Doomed : Doomed[u] = f} = {}
      BY <1>1, <1>2, <2>2
    <3>2. Count(Doomed', f) = 0
      BY <1>3, <3>1, FS_EmptySet DEF Count
    <3>3. f # Stored[y] /\ f \in 1 .. files'
      BY <1>1, <1>2, <2>2
    <3>4. Count(Stored', f) = Count(Stored, f) + 1 /\ Count(Stored, f) \in Nat
      BY <1>3, <1>5, <2>2, <3>3 DEF Recounted
    <3>5. QED
      BY <3>2, <3>4
  <2>3. QED
    BY <1>1, <1>2, <2>1, <2>2
<1>7. QED
  BY <1>1, <1>4, <1>6 DEF Outcome, Spare

LEMMA SpareInitially == QuarantineInit => SInv
<1> SUFFICES ASSUME QuarantineInit PROVE SInv
  OBVIOUS
<1>1. Numbered
  BY NoJobIsAJob DEF QuarantineInit, Numbered, NoFile
<1>2. Spare(Stored, Doomed, files, collateral)
  BY DEF QuarantineInit, Spare
<1>3. QED
  BY <1>1, <1>2, InitIsSafe DEF SInv

LEMMA SpareKept == SInv /\ [QuarantineNext]_quarantineVars => SInv'
<1> SUFFICES ASSUME SInv, [QuarantineNext]_quarantineVars PROVE SInv'
  OBVIOUS
<1>1. IInv'
  BY InvariantKept DEF SInv
<1>2. ASSUME NEW t \in Callers, Records(t) PROVE Outcome
  BY <1>2, QuietLeave DEF Records, countVars
<1>3. ASSUME NEW t \in Callers, RestoreForgets(t) PROVE Outcome
  BY <1>3, QuietLeave DEF RestoreForgets, countVars
<1>4. ASSUME NEW t \in Callers, CallerStep(t) PROVE Outcome
  BY <1>2, <1>3, <1>4, QuarantineBeginsSpares, DrawsIdSpares, MovesSpares, CopiesSpares, RemovesSpares,
     RestoreBeginsSpares, RestoreMovesSpares, RestoreCopiesSpares, RestoreRemovesSpares
     DEF CallerStep
<1>5. ASSUME UNCHANGED quarantineVars PROVE Outcome
  <2>1. UNCHANGED <<disk, bin, pc, job, files, collateral>>
    BY <1>5 DEF quarantineVars
  <2>2. Stored' = Stored /\ Doomed' = Doomed
    BY <2>1 DEF Stored, Doomed
  <2>3. Numbered'
    BY <2>1 DEF SInv, Numbered
  <2>4. QED
    BY <2>1, <2>2, <2>3 DEF SInv, Outcome
<1>6. Outcome
  <2>1. ASSUME NEW p \in Paths, Appears(p) PROVE Outcome
    BY <2>1, AppearsSpares
  <2>2. CASE Restarts
    BY <2>2, RestartsSpares
  <2>3. QED
    BY <1>4, <1>5, <2>1, <2>2 DEF QuarantineNext
<1>7. QED
  BY <1>1, <1>6 DEF SInv, Outcome

(* No file is lost by being quarantined or restored, whatever fails and    *)
(* wherever the process ends; only one that another file is put over, or   *)
(* that stands where one is deleted, is (quarantine.cpp, quarantine_file   *)
(* and restore).                                                           *)
THEOREM NoFileIsLost == QuarantineSpec => []FilesSurvive
<1>1. ASSUME SInv PROVE FilesSurvive
  <2>1. ASSUME NEW f \in 1 .. files, f \notin collateral
        PROVE  (\E p \in Paths : disk[p] = f) \/ (\E i \in Ids : bin[i] = f)
    <3>1. {u \in Callers : Doomed[u] = f} \in SUBSET Callers /\ DOMAIN Doomed = Callers
      BY DEF Doomed
    <3>2. Count(Doomed, f) \in Nat
      BY <3>1, CallersAreFinite, FS_Subset, FS_CardinalityType DEF Count
    <3>3. Count(Stored, f) # 0
      <4>1. {x \in Spots : Stored[x] = f} \in SUBSET Spots /\ DOMAIN Stored = Spots
        BY DEF Stored
      <4>2. Count(Stored, f) \in Nat
        BY <4>1, SpotsAreFinite, FS_Subset, FS_CardinalityType DEF Count
      <4>3. QED
        BY <1>1, <2>1, <3>2, <4>2 DEF SInv, Spare
    <3>4. PICK x \in Spots : Stored[x] = f
      <4>1. DOMAIN Stored = Spots
        BY DEF Stored
      <4>2. QED
        BY <3>3, <4>1, FS_EmptySet DEF Count
    <3>5. QED
      BY <3>4 DEF Stored, Spots
  <2>2. QED
    BY <2>1 DEF FilesSurvive
<1>2. QED
  BY <1>1, SpareInitially, SpareKept, PTL DEF QuarantineSpec
===============================================================================
