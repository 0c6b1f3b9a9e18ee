------------------------------ MODULE Quarantine ------------------------------
(***************************************************************************)
(* core/quarantine: files moved into a directory under a drawn id, with a  *)
(* sidecar beside them and a record in memory.  The disk is external: it   *)
(* survives the process, any operation on it may fail, and anybody may put *)
(* a new file where one was taken.  A file is the number of its content.   *)
(* quarantine_file takes the mutex for the last step only, restore         *)
(* throughout.  Two threads in the id generator at once (a static engine   *)
(* without a mutex) may draw the same id.                                  *)
(*                                                                         *)
(* pc[t] is where caller t stands:                                         *)
(*   idle                                                                  *)
(*   id, move, copy, remove, record        in quarantine_file              *)
(*   unmove, uncopy, unremove, forget      in restore, holding the mutex   *)
(***************************************************************************)
EXTENDS Naturals, Sequences, SequencesExt

CONSTANTS Callers,          \* the command thread, the file system monitor, agents
          Paths,
          SameVolume,       \* paths on the volume of the quarantine directory
          Free,
          MaxFiles,         \* bound: files that appear in a behaviour
          MaxIds            \* bound: ids drawn in a behaviour

ASSUME VolumesKnown == SameVolume \subseteq Paths
ASSUME CallersAreFinite == IsFiniteSet(Callers)
ASSUME PathsAreFinite == IsFiniteSet(Paths) /\ Paths # {}
ASSUME FreeIsNobody == Free \notin Callers
ASSUME FileBounds == MaxFiles \in Nat /\ MaxIds \in Nat

VARIABLES disk,             \* external: the file at each path, 0 if none
          bin,              \* external: <quarantine_dir>/<id>.bin
          entries,          \* entries_
          mutex, pc, job,
          files, drawn,     \* files that appeared, ids drawn
          shared,           \* history: ids drawn twice
          collateral        \* history: files lost to another one put, or being, in their place

quarantineVars == <<disk, bin, entries, mutex, pc, job, files, drawn, shared, collateral>>
diskVars == <<disk, bin, collateral>>
countVars == <<files, drawn, shared>>

Ids == 1 .. MaxIds
NoFile == 0
NoJob == [path |-> CHOOSE p \in Paths : TRUE, id |-> 0, raced |-> {}, file |-> NoFile]

QuarantineInit ==
  /\ disk = [p \in Paths |-> NoFile] /\ bin = [i \in Ids |-> NoFile]
  /\ entries = <<>>
  /\ mutex = Free
  /\ pc = [t \in Callers |-> "idle"]
  /\ job = [t \in Callers |-> NoJob]
  /\ files = 0 /\ drawn = 0
  /\ shared = {} /\ collateral = {}

Goto(t, where) == pc' = [pc EXCEPT ![t] = where]
Leave(t) == Goto(t, "idle") /\ job' = [job EXCEPT ![t] = NoJob]
Spoils(f) == collateral' = collateral \cup ({f} \ {NoFile})

(* Somebody outside the program puts a file. *)
Appears(p) ==
  /\ disk[p] = NoFile /\ files < MaxFiles
  /\ files' = files + 1
  /\ disk' = [disk EXCEPT ![p] = files']
  /\ UNCHANGED <<bin, entries, mutex, pc, job, drawn, shared, collateral>>

-----------------------------------------------------------------------------
(* quarantine_file: a file that is not there, or cannot be read, is        *)
(* refused and nothing changes.                                            *)
QuarantineBegins(t, p) ==
  /\ pc[t] = "idle" /\ disk[p] # NoFile
  /\ job' = [job EXCEPT ![t] = [NoJob EXCEPT !.path = p]]
  /\ Goto(t, "id")
  /\ UNCHANGED <<diskVars, entries, mutex, countVars>>

(* generate_entry_id: a new id, or one that another thread drew meanwhile  *)
(* (twice the same, at most).                                              *)
DrawsId(t) ==
  /\ pc[t] = "id"
  /\ \E i \in Ids :
       /\ \/ i = drawn + 1 /\ drawn' = i /\ UNCHANGED shared
          \/ i \in job[t].raced \ shared /\ shared' = shared \cup {i} /\ UNCHANGED drawn
       /\ job' = [u \in Callers |->
                    IF u = t THEN [job[t] EXCEPT !.id = i, !.raced = {}]
                    ELSE IF pc[u] = "id" THEN [job[u] EXCEPT !.raced = @ \cup {i}]
                    ELSE job[u]]
  /\ Goto(t, "move")
  /\ UNCHANGED <<diskVars, entries, mutex, files>>

PutsInBin(t) ==
  /\ bin' = [bin EXCEPT ![job[t].id] = disk[job[t].path]]
  /\ Spoils(bin[job[t].id])
  /\ job' = [job EXCEPT ![t].file = disk[job[t].path]]

(* fs::rename, atomic on one volume; when it fails the file is copied.     *)
Moves(t) ==
  /\ pc[t] = "move"
  /\ \/ /\ job[t].path \in SameVolume /\ disk[job[t].path] # NoFile
        /\ PutsInBin(t)
        /\ disk' = [disk EXCEPT ![job[t].path] = NoFile]
        /\ Goto(t, "record")
     \/ Goto(t, "copy") /\ UNCHANGED <<disk, bin, job, collateral>>
  /\ UNCHANGED <<entries, mutex, countVars>>

(* Faulty copies: one whose failure is not looked at before the original   *)
(* is deleted, one that goes on to record a file it has not copied.        *)
CopiesBlindly(t) ==
  /\ pc[t] = "copy"
  /\ \/ disk[job[t].path] # NoFile /\ PutsInBin(t)
     \/ UNCHANGED <<bin, collateral>> /\ job' = [job EXCEPT ![t].file = disk[job[t].path]]
  /\ Goto(t, "remove")
  /\ UNCHANGED <<disk, entries, mutex, countVars>>

CopiesOrRecords(t) ==
  /\ pc[t] = "copy"
  /\ \/ disk[job[t].path] # NoFile /\ PutsInBin(t) /\ Goto(t, "remove")
     \/ UNCHANGED <<bin, collateral, job>> /\ Goto(t, "record")
  /\ UNCHANGED <<disk, entries, mutex, countVars>>

Copies(t) ==
  /\ pc[t] = "copy"
  /\ \/ disk[job[t].path] # NoFile /\ PutsInBin(t) /\ Goto(t, "remove")
     \/ UNCHANGED <<bin, collateral>> /\ Leave(t)
  /\ UNCHANGED <<disk, entries, mutex, countVars>>

(* The original is deleted if it can be, whatever file is there by now.    *)
Removes(t) ==
  /\ pc[t] = "remove"
  /\ \/ /\ Spoils(IF disk[job[t].path] = job[t].file THEN NoFile ELSE disk[job[t].path])
        /\ disk' = [disk EXCEPT ![job[t].path] = NoFile]
     \/ UNCHANGED <<disk, collateral>>
  /\ Goto(t, "record")
  /\ UNCHANGED <<bin, entries, mutex, job, countVars>>

(* The sidecar, which nothing ever reads, and the record, under the mutex. *)
Records(t) ==
  /\ pc[t] = "record" /\ mutex = Free
  /\ entries' = Append(entries, [id |-> job[t].id, path |-> job[t].path])
  /\ Leave(t)
  /\ UNCHANGED <<disk, bin, mutex, countVars, collateral>>

-----------------------------------------------------------------------------
(* restore: the first record of the id; an unknown id is refused. *)
RestoreUnlocked(t, i) ==
  /\ pc[t] = "idle" /\ mutex = Free
  /\ \E n \in DOMAIN entries :
       /\ entries[n].id = i /\ \A m \in 1 .. n - 1 : entries[m].id # i
       /\ job' = [job EXCEPT ![t] = [NoJob EXCEPT !.path = entries[n].path, !.id = i]]
  /\ Goto(t, "unmove")
  /\ UNCHANGED <<mutex, diskVars, entries, countVars>>

RestoreBegins(t, i) ==
  /\ pc[t] = "idle" /\ mutex = Free
  /\ \E n \in DOMAIN entries :
       /\ entries[n].id = i /\ \A m \in 1 .. n - 1 : entries[m].id # i
       /\ job' = [job EXCEPT ![t] = [NoJob EXCEPT !.path = entries[n].path, !.id = i]]
  /\ mutex' = t
  /\ Goto(t, "unmove")
  /\ UNCHANGED <<diskVars, entries, countVars>>

PutsBack(t) ==
  /\ bin[job[t].id] # NoFile
  /\ disk' = [disk EXCEPT ![job[t].path] = bin[job[t].id]]
  /\ job' = [job EXCEPT ![t].file = bin[job[t].id]]

(* fs::rename, then the copy: both replace the file they find.             *)
RestoreMoves(t) ==
  /\ pc[t] = "unmove"
  /\ \/ /\ job[t].path \in SameVolume
        /\ PutsBack(t) /\ Spoils(disk[job[t].path])
        /\ bin' = [bin EXCEPT ![job[t].id] = NoFile]
        /\ Goto(t, "forget")
     \/ Goto(t, "uncopy") /\ UNCHANGED <<disk, bin, job, collateral>>
  /\ UNCHANGED <<entries, mutex, countVars>>

RestoreCopies(t) ==
  /\ pc[t] = "uncopy"
  /\ \/ PutsBack(t) /\ Spoils(disk[job[t].path]) /\ Goto(t, "unremove") /\ UNCHANGED mutex
     \/ Leave(t) /\ mutex' = Free /\ UNCHANGED <<disk, collateral>>
  /\ UNCHANGED <<bin, entries, countVars>>

RestoreRemoves(t) ==
  /\ pc[t] = "unremove"
  /\ \/ /\ Spoils(IF bin[job[t].id] = job[t].file THEN NoFile ELSE bin[job[t].id])
        /\ bin' = [bin EXCEPT ![job[t].id] = NoFile]
     \/ UNCHANGED <<bin, collateral>>
  /\ Goto(t, "forget")
  /\ UNCHANGED <<disk, entries, mutex, job, countVars>>

(* The sidecar goes, if it can be removed, and the record. *)
RestoreForgets(t) ==
  /\ pc[t] = "forget"
  /\ \E n \in DOMAIN entries :
       /\ entries[n].id = job[t].id /\ \A m \in 1 .. n - 1 : entries[m].id # job[t].id
       /\ entries' = RemoveAt(entries, n)
  /\ mutex' = Free
  /\ Leave(t)
  /\ UNCHANGED <<disk, bin, countVars, collateral>>

-----------------------------------------------------------------------------
(* The process ends and is started again: nothing reads the directory.     *)
Restarts ==
  /\ entries' = <<>>
  /\ mutex' = Free
  /\ pc' = [t \in Callers |-> "idle"]
  /\ job' = [t \in Callers |-> NoJob]
  /\ UNCHANGED <<diskVars, countVars>>

CallerStep(t) ==
  \/ \E p \in Paths : QuarantineBegins(t, p)
  \/ DrawsId(t) \/ Moves(t) \/ Copies(t) \/ Removes(t) \/ Records(t)
  \/ \E i \in Ids : RestoreBegins(t, i)
  \/ RestoreMoves(t) \/ RestoreCopies(t) \/ RestoreRemoves(t) \/ RestoreForgets(t)

QuarantineNext ==
  \/ \E p \in Paths : Appears(p)
  \/ \E t \in Callers : CallerStep(t)
  \/ Restarts

QuarantineSpec == QuarantineInit /\ [][QuarantineNext]_quarantineVars
-----------------------------------------------------------------------------
Files == 0 .. MaxFiles
Restoring == {"unmove", "uncopy", "unremove", "forget"}

(* Types of quarantine.h; restore holds the mutex from end to end, and a   *)
(* record restore is at work on is still there.                            *)
QuarantineTypeOK ==
  /\ disk \in [Paths -> Files] /\ bin \in [Ids -> Files]
  /\ entries \in Seq([id : Ids, path : Paths])
  /\ mutex \in Callers \cup {Free}
  /\ pc \in [Callers -> {"idle", "id", "move", "copy", "remove", "record"} \cup Restoring]
  /\ job \in [Callers -> [path : Paths, id : Ids \cup {0}, raced : SUBSET Ids, file : Files]]
  /\ \A t \in Callers : mutex = t <=> pc[t] \in Restoring
  /\ \A t \in Callers : pc[t] \in Restoring => \E n \in DOMAIN entries : entries[n].id = job[t].id
  /\ files \in Files /\ drawn \in Ids \cup {0}
  /\ shared \subseteq Ids /\ collateral \subseteq Files

(* What list() shows can be restored: every record has its file in the     *)
(* directory, whichever operation of the disk failed, as long as no two    *)
(* threads drew its id (quarantine_file, restore).                         *)
RecordHasFile ==
  mutex = Free => \A n \in DOMAIN entries :
    entries[n].id \notin shared => bin[entries[n].id] # NoFile

(* No file is lost by being quarantined or restored, with any failure of   *)
(* the disk and the process stopped between any two steps: only a file     *)
(* that stands where another one is put, or was, is (rename, copy, remove). *)
FilesSurvive ==
  \A f \in 1 .. files :
    f \in collateral \/ (\E p \in Paths : disk[p] = f) \/ (\E i \in Ids : bin[i] = f)
=============================================================================
