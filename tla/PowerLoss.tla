----------------------------- MODULE PowerLoss ------------------------------
(***************************************************************************)
(* PAYLOAD_DIR under a page cache.  persist_record (src/src/store.rs)      *)
(* writes a temporary file and renames it, and syncs neither the file nor  *)
(* the directory; PayloadStore loses memory but no write, here the machine *)
(* loses what the operating system has not written back.                   *)
(*                                                                         *)
(* A file is an inode with its content in the cache and on the medium; a   *)
(* name is an entry in the cached directory and one on the medium.  The    *)
(* file system writes contents back in any order and commits all changes   *)
(* of the directory at once, in their order, as a journal does.  Some file *)
(* systems write the data of a renamed file before its new name:           *)
(* data_first says for which renames, those that create a name and those   *)
(* that replace one.                                                       *)
(*                                                                         *)
(* The mutex of the store lets one submission write at a time, and the     *)
(* index is what is in the cached directory (CacheCoherent of              *)
(* PayloadStore), so neither has a variable here.                          *)
(***************************************************************************)
EXTENDS Naturals

CONSTANTS
  Ids,        \* payload ids
  Inodes,     \* files the file system can hold at once
  FileSystems, \* sets of renames a file system orders after their data
  None

(* PAYLOAD_DIR is on a file system that orders at least the renames that   *)
(* replace a file, as ext4, xfs and btrfs do by default.                   *)
ASSUME FileSystemsAssumption ==
  \A d \in FileSystems : "replace" \in d /\ d \subseteq {"create", "replace"}
ASSUME NoneAssumption == None \notin Inodes \cup Ids \cup {"torn", "unsigned", "signed"}

VARIABLES
  data_first,      \* the file system PAYLOAD_DIR is on
  data, medium,    \* content of each inode, in the cache and on the medium
  files, temps,    \* {id}.json and .{id}.tmp in the cached directory
  entries,         \* {id}.json on the medium
  temp_entries,    \* .{id}.tmp on the medium
  ordered,         \* inodes to be written before the directory is
  up, signing,     \* the process runs; it has a key
  writer, step,    \* the id that is being written, and how far it is
  acknowledged     \* ids answered with 200 or 201 since the machine was started

contents == <<data, medium>>
names == <<files, temps>>
journal == <<entries, temp_entries, ordered>>
process == <<up, signing>>
task == <<writer, step>>
vars == <<data_first, contents, names, journal, process, task, acknowledged>>

(* A record with a current receipt or without one; a file whose content is *)
(* empty or incomplete is torn, and load panics on it.                     *)
Records == {"unsigned", "signed"}
Content == {"torn"} \cup Records

known(id) == files[id] # None
Loads == \A id \in Ids : known(id) => data[files[id]] \in Records

Init ==
  /\ data_first \in FileSystems
  /\ data = [i \in Inodes |-> "torn"] /\ medium = data
  /\ files = [id \in Ids |-> None] /\ temps = files
  /\ entries = files /\ temp_entries = files /\ ordered = {}
  /\ up = FALSE /\ signing = FALSE
  /\ writer = None /\ step = "idle"
  /\ acknowledged = {}
-----------------------------------------------------------------------------
(* The process.                                                            *)

Start(key) ==
  /\ ~up /\ Loads
  /\ up' = TRUE /\ signing' = key
  /\ UNCHANGED <<contents, names, journal, task, acknowledged>>

(* The process is killed, the machine runs on.                             *)
Kill ==
  /\ up
  /\ up' = FALSE /\ signing' = FALSE /\ writer' = None /\ step' = "idle"
  /\ UNCHANGED <<contents, names, journal, acknowledged>>

(* A submission that writes nothing is answered from what is known.        *)
AnswerKnown(id) ==
  /\ up /\ writer = None
  /\ known(id) /\ (data[files[id]] = "signed" \/ ~signing)
  /\ acknowledged' = acknowledged \cup {id}
  /\ UNCHANGED <<contents, names, journal, process, task>>

(* A new payload, or one that gets its receipt.                            *)
Begin(id) ==
  /\ up /\ writer = None
  /\ known(id) => data[files[id]] = "unsigned" /\ signing
  /\ writer' = id /\ step' = "open"
  /\ UNCHANGED <<contents, names, journal, process, acknowledged>>

unused(i) == \A id \in Ids : i \notin {files[id], temps[id], entries[id], temp_entries[id]}

(* Mutant of OpenTemp: the record is written under its final name.         *)
OpenFinal ==
  /\ step = "open"
  /\ \E i \in Inodes :
       /\ IF known(writer) THEN i = files[writer] ELSE unused(i)
       /\ data' = [data EXCEPT ![i] = "torn"]
       /\ files' = [files EXCEPT ![writer] = i]
       /\ temps' = [temps EXCEPT ![writer] = i]
  /\ step' = "fill"
  /\ UNCHANGED <<medium, journal, process, writer, acknowledged>>

(* std::fs::write truncates a temporary file that is there, the rest of an *)
(* earlier attempt, and creates one otherwise; then it writes.             *)
OpenTemp ==
  /\ step = "open"
  /\ \E i \in Inodes :
       /\ \/ i = temps[writer] /\ UNCHANGED medium
          \/ temps[writer] = None /\ unused(i) /\ medium' = [medium EXCEPT ![i] = "torn"]
       /\ data' = [data EXCEPT ![i] = "torn"]
       /\ temps' = [temps EXCEPT ![writer] = i]
  /\ step' = "fill"
  /\ UNCHANGED <<files, journal, process, writer, acknowledged>>

FillTemp ==
  /\ step = "fill"
  /\ data' = [data EXCEPT ![temps[writer]] = IF signing THEN "signed" ELSE "unsigned"]
  /\ step' = "rename"
  /\ UNCHANGED <<medium, names, journal, process, writer, acknowledged>>

renames_after_data(id) == (IF known(id) THEN "replace" ELSE "create") \in data_first

(* Mutant of Rename: the temporary name stays.                             *)
RenameCopies ==
  /\ step = "rename"
  /\ files' = [files EXCEPT ![writer] = temps[writer]]
  /\ ordered' = (ordered \ {files[writer]}) \cup
                  (IF renames_after_data(writer) THEN {temps[writer]} ELSE {})
  /\ step' = "answer"
  /\ UNCHANGED <<contents, temps, entries, temp_entries, process, writer, acknowledged>>

Rename ==
  /\ step = "rename"
  /\ files' = [files EXCEPT ![writer] = temps[writer]]
  /\ temps' = [temps EXCEPT ![writer] = None]
  /\ ordered' = (ordered \ {files[writer]}) \cup
                  (IF renames_after_data(writer) THEN {temps[writer]} ELSE {})
  /\ step' = "answer"
  /\ UNCHANGED <<contents, entries, temp_entries, process, writer, acknowledged>>

Answer ==
  /\ step = "answer"
  /\ acknowledged' = acknowledged \cup {writer}
  /\ writer' = None /\ step' = "idle"
  /\ UNCHANGED <<contents, names, journal, process>>

(* A write or the rename fails; the temporary file may stay.               *)
PersistFails ==
  /\ step \in {"open", "fill", "rename"}
  /\ \/ UNCHANGED temps
     \/ step = "rename" /\ temps' = [temps EXCEPT ![writer] = None]
  /\ writer' = None /\ step' = "idle"
  /\ UNCHANGED <<contents, files, journal, process, acknowledged>>
-----------------------------------------------------------------------------
(* The operating system and the machine.                                   *)

(* The content of a file reaches the medium, as much of it as is there; a  *)
(* file that lost its last name is not written.                            *)
WriteBack(i) ==
  /\ medium[i] # data[i] /\ ~unused(i)
  /\ medium' = [medium EXCEPT ![i] = data[i]]
  /\ UNCHANGED <<data, names, journal, process, task, acknowledged>>

(* The directory reaches the medium, after the data it has to wait for.    *)
Commit ==
  /\ <<entries, temp_entries>> # names
  /\ \A i \in ordered : medium[i] = data[i]
  /\ entries' = files /\ temp_entries' = temps /\ ordered' = {}
  /\ UNCHANGED <<contents, names, process, task, acknowledged>>

(* The power fails, and the machine starts with what is on the medium.     *)
PowerFails ==
  /\ data' = medium /\ files' = entries /\ temps' = temp_entries
  /\ ordered' = {} /\ acknowledged' = {}
  /\ up' = FALSE /\ signing' = FALSE /\ writer' = None /\ step' = "idle"
  /\ UNCHANGED <<medium, entries, temp_entries>>

Task == OpenTemp \/ FillTemp \/ Rename \/ Answer \/ PersistFails
Next ==
  /\ \/ \E key \in BOOLEAN : Start(key)
     \/ \E id \in Ids : AnswerKnown(id) \/ Begin(id)
     \/ Task \/ Kill
     \/ \E i \in Inodes : WriteBack(i)
     \/ Commit \/ PowerFails
  /\ UNCHANGED data_first

Spec == Init /\ [][Next]_vars

(* The operating system writes back what stays dirty, in its own time.     *)
FairSpec ==
  /\ Spec
  /\ WF_vars(Commit /\ UNCHANGED data_first)
  /\ \A i \in Inodes : WF_vars(WriteBack(i) /\ UNCHANGED data_first)
-----------------------------------------------------------------------------
(* What a power failure would leave of a payload at this moment.           *)
survivor(id) == IF entries[id] = None THEN None ELSE medium[entries[id]]

Directory == INSTANCE DurableMap WITH
  creates_ordered <- "create" \in data_first,
  shown <- [id \in Ids |-> IF known(id) THEN data[files[id]] ELSE None],
  durable <- [id \in Ids |-> survivor(id)]

(* A power failure takes the directory back to one earlier moment, all     *)
(* payloads and receipts together; with no fsync in persist_record it may  *)
(* be any moment since the last commit of the directory.                   *)
IsCheckpointed == Directory!Spec

(* No file has two names, in the cache or on the medium: what a submission *)
(* truncates is never a stored record.                                     *)
NamesApart(final, temp) ==
  \A id, jd \in Ids :
    /\ final[id] # None => final[id] # temp[jd]
    /\ id # jd => (final[id] # None => final[id] # final[jd])
                   /\ (temp[id] # None => temp[id] # temp[jd])

(* Contents and names have their types, and names are apart.               *)
PowerTypeOK ==
  /\ NamesApart(files, temps) /\ NamesApart(entries, temp_entries)
  /\ data \in [Inodes -> Content] /\ medium \in [Inodes -> Content]
  /\ files \in [Ids -> Inodes \cup {None}] /\ temps \in [Ids -> Inodes \cup {None}]
  /\ entries \in [Ids -> Inodes \cup {None}] /\ temp_entries \in [Ids -> Inodes \cup {None}]
  /\ data_first \in FileSystems /\ ordered \subseteq Inodes /\ up \in BOOLEAN /\ signing \in BOOLEAN
  /\ writer \in Ids \cup {None} /\ acknowledged \subseteq Ids
  /\ step \in {"idle", "open", "fill", "rename", "answer"}

(* Whenever the power fails, in the middle of any write, load accepts what *)
(* is left, if the file system orders the renames that create a name too:  *)
(* then no name is on the medium before its data.                          *)
SurvivorsLoad == "create" \in data_first => \A id \in Ids : survivor(id) \in Records \cup {None}

(* A payload that is on the medium is never torn or removed there by a     *)
(* rewrite, and a receipt that was written back stays.                     *)
receipt_written(id) == survivor(id) = "signed" /\ data[entries[id]] = "signed"
MediumKeepsRecords ==
  [][\A id \in Ids : survivor(id) \in Records =>
       survivor(id)' \in Records /\ (receipt_written(id) => receipt_written(id)')]_vars

(* Nothing is synced, so an answer is a promise for later: unless the      *)
(* power fails first, what was acknowledged will be on the medium.         *)
AcknowledgedReachesMedium ==
  \A id \in Ids : (id \in acknowledged) ~> (survivor(id) \in Records \/ id \notin acknowledged)
=============================================================================
