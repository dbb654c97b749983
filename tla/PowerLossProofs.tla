--------------------------- MODULE PowerLossProofs --------------------------
(***************************************************************************)
(* What PAYLOAD_DIR keeps over a power failure, for any number of payloads *)
(* and files, on any of FileSystems.                                       *)
(***************************************************************************)
EXTENDS PowerLoss, TLAPS

(* The submission that writes: its temporary file is there and is whole    *)
(* before it is renamed, and what it replaces has no receipt yet.          *)
TaskInv ==
  /\ writer = None <=> step = "idle"
  /\ writer # None => up
  /\ step \in {"fill", "rename"} => temps[writer] # None
  /\ step = "rename" =>
       data[temps[writer]] = IF signing THEN "signed" ELSE "unsigned"
  /\ step \in {"open", "fill", "rename"} /\ known(writer) =>
       data[files[writer]] = "unsigned" /\ signing

(* A file with a final name on the medium is no temporary file.            *)
ApartInv == \A id, jd \in Ids : entries[id] # None => entries[id] # temps[jd]

(* A stored record is whole in the cache, but for one that a power failure *)
(* left torn, over which no process starts.                                *)
CacheInv ==
  \A id \in Ids : known(id) =>
    \/ data[files[id]] \in Records
    \/ ~up /\ data[files[id]] = "torn" /\ medium[files[id]] = "torn"

(* What has a name on the medium and is whole is known, and its successor  *)
(* is on the medium or will be there before its name is.                   *)
MediumInv ==
  \A id \in Ids : entries[id] # None =>
    /\ medium[entries[id]] \in Records => data[entries[id]] \in Records
    /\ data[entries[id]] \in Records =>
         /\ known(id) /\ data[files[id]] \in Records
         /\ files[id] = entries[id] \/ files[id] \in ordered \/ medium[files[id]] \in Records
    /\ data[entries[id]] = "signed" => files[id] = entries[id]

PowerInv == PowerTypeOK /\ TaskInv /\ ApartInv /\ CacheInv /\ MediumInv

(* Where names that are created are ordered too, none is on the medium     *)
(* before its data, and what it names there is what it names in the cache. *)
OrderedInv ==
  \A id \in Ids :
    /\ entries[id] # None => /\ medium[entries[id]] \in Records
                             /\ medium[entries[id]] = data[entries[id]]
    /\ known(id) => /\ data[files[id]] \in Records
                    /\ files[id] \in ordered \/ medium[files[id]] = data[files[id]]

CheckpointInv == PowerInv /\ ("create" \in data_first => OrderedInv)
-----------------------------------------------------------------------------
LEMMA RecordsAre == /\ "torn" \notin Records /\ "signed" \in Records /\ "unsigned" \in Records
                    /\ Records \subseteq Content /\ "torn" \in Content
  BY DEF Records, Content

(* Opening a temporary file touches no file with a final name.             *)
LEMMA OpenTouches ==
  ASSUME PowerInv, OpenTemp
  PROVE  /\ writer \in Ids /\ up
         /\ \E i \in Inodes :
              /\ i = temps[writer] \/ (temps[writer] = None /\ unused(i))
              /\ data' = [data EXCEPT ![i] = "torn"]
              /\ medium' = medium \/ (unused(i) /\ medium' = [medium EXCEPT ![i] = "torn"])
              /\ temps' = [temps EXCEPT ![writer] = i]
              /\ \A id \in Ids : files[id] # i /\ entries[id] # i
              /\ \A id \in Ids \ {writer} : temps[id] # i
<1>1. writer \in Ids /\ up
  BY DEF PowerInv, TaskInv, PowerTypeOK, OpenTemp
<1>2. PICK i \in Inodes :
        /\ \/ i = temps[writer] /\ UNCHANGED medium
           \/ temps[writer] = None /\ unused(i) /\ medium' = [medium EXCEPT ![i] = "torn"]
        /\ data' = [data EXCEPT ![i] = "torn"]
        /\ temps' = [temps EXCEPT ![writer] = i]
  BY DEF OpenTemp
<1>3. i # None
  BY NoneAssumption
<1>4. \A id \in Ids : files[id] # i /\ entries[id] # i
  BY <1>1, <1>2, <1>3 DEF PowerInv, PowerTypeOK, NamesApart, ApartInv, unused
<1>5. \A id \in Ids \ {writer} : temps[id] # i
  BY <1>1, <1>2, <1>3 DEF PowerInv, PowerTypeOK, NamesApart, unused
<1>6. i = temps[writer] \/ (temps[writer] = None /\ unused(i))
  BY <1>2
<1>7. medium' = medium \/ (unused(i) /\ medium' = [medium EXCEPT ![i] = "torn"])
  BY <1>2
<1>8. data' = [data EXCEPT ![i] = "torn"] /\ temps' = [temps EXCEPT ![writer] = i]
  BY <1>2
<1> QED
  BY <1>1, <1>4, <1>5, <1>6, <1>7, <1>8

LEMMA TypeStays ==
  ASSUME PowerInv, [Next]_vars
  PROVE  PowerTypeOK'
<1>0. UNCHANGED data_first
  BY DEF Next, vars
<1> USE <1>0 DEF PowerInv, PowerTypeOK, contents, names, journal, process, task
<1>1. ASSUME NEW key \in BOOLEAN, Start(key) PROVE PowerTypeOK'
  BY <1>1 DEF Start, NamesApart
<1>2. ASSUME NEW id \in Ids, AnswerKnown(id) \/ Begin(id) PROVE PowerTypeOK'
  BY <1>2 DEF AnswerKnown, Begin, NamesApart
<1>3. CASE OpenTemp
  <2>1. PICK i \in Inodes :
          /\ data' = [data EXCEPT ![i] = "torn"]
          /\ medium' = medium \/ medium' = [medium EXCEPT ![i] = "torn"]
          /\ temps' = [temps EXCEPT ![writer] = i]
          /\ \A id \in Ids : files[id] # i
          /\ \A id \in Ids \ {writer} : temps[id] # i
    BY <1>3, OpenTouches
  <2>2. writer \in Ids
    BY <1>3, OpenTouches
  <2>3. data' \in [Inodes -> Content] /\ medium' \in [Inodes -> Content]
    BY <2>1, RecordsAre
  <2>4. temps' \in [Ids -> Inodes \cup {None}]
    BY <2>1
  <2>5. NamesApart(files, temps')
    BY <2>1, <2>2 DEF NamesApart
  <2> QED
    BY <1>3, <2>3, <2>4, <2>5 DEF OpenTemp, NamesApart
<1>4. CASE FillTemp
  BY <1>4, RecordsAre DEF FillTemp, NamesApart
<1>5. CASE Rename
  <2>1. writer \in Ids /\ temps[writer] \in Inodes
    BY <1>5 DEF TaskInv, Rename
  <2>2. files' \in [Ids -> Inodes \cup {None}] /\ temps' \in [Ids -> Inodes \cup {None}]
    BY <1>5, <2>1 DEF Rename
  <2>3. NamesApart(files', temps')
    BY <1>5, <2>1 DEF Rename, NamesApart
  <2>4. ordered' \subseteq Inodes
    BY <1>5, <2>1 DEF Rename
  <2> QED
    BY <1>5, <2>2, <2>3, <2>4 DEF Rename, NamesApart
<1>6. CASE Answer
  BY <1>6 DEF Answer, TaskInv, NamesApart
<1>7. CASE PersistFails
  <2>1. temps' \in [Ids -> Inodes \cup {None}] /\ NamesApart(files, temps')
    BY <1>7 DEF PersistFails, NamesApart
  <2> QED
    BY <1>7, <2>1 DEF PersistFails, NamesApart
<1>8. CASE Kill
  BY <1>8 DEF Kill, NamesApart
<1>9. ASSUME NEW i \in Inodes, WriteBack(i) PROVE PowerTypeOK'
  BY <1>9 DEF WriteBack, NamesApart
<1>10. CASE Commit
  BY <1>10 DEF Commit, NamesApart
<1>11. CASE PowerFails
  BY <1>11 DEF PowerFails, NamesApart
<1>12. CASE UNCHANGED vars
  BY <1>12 DEF vars, NamesApart
<1> QED
  BY <1>1, <1>2, <1>3, <1>4, <1>5, <1>6, <1>7, <1>8, <1>9, <1>10, <1>11, <1>12 DEF Next, Task

LEMMA TaskStays ==
  ASSUME PowerInv, [Next]_vars
  PROVE  TaskInv'
<1> USE DEF PowerInv, PowerTypeOK, TaskInv, known, contents, names, journal, process, task
<1>1. ASSUME NEW key \in BOOLEAN, Start(key) PROVE TaskInv'
  BY <1>1 DEF Start
<1>2. ASSUME NEW id \in Ids, AnswerKnown(id) \/ Begin(id) PROVE TaskInv'
  BY <1>2, NoneAssumption DEF AnswerKnown, Begin
<1>3. CASE OpenTemp
  <2>1. PICK i \in Inodes :
          /\ data' = [data EXCEPT ![i] = "torn"]
          /\ temps' = [temps EXCEPT ![writer] = i]
          /\ \A id \in Ids : files[id] # i
    BY <1>3, OpenTouches
  <2>2. writer \in Ids
    BY <1>3, OpenTouches
  <2>3. temps'[writer] # None
    BY <2>1, <2>2, NoneAssumption
  <2>4. known(writer) => data'[files[writer]] = data[files[writer]]
    BY <2>1, <2>2
  <2> QED
    BY <1>3, <2>2, <2>3, <2>4 DEF OpenTemp
<1>4. CASE FillTemp
  <2>1. writer \in Ids /\ temps[writer] \in Inodes
    BY <1>4 DEF FillTemp
  <2>2. known(writer) => files[writer] # temps[writer]
    BY <2>1 DEF NamesApart
  <2> QED
    BY <1>4, <2>1, <2>2 DEF FillTemp
<1>5. CASE Rename
  BY <1>5 DEF Rename
<1>6. CASE Answer
  BY <1>6 DEF Answer
<1>7. CASE PersistFails
  BY <1>7 DEF PersistFails
<1>8. CASE Kill
  BY <1>8 DEF Kill
<1>9. ASSUME NEW i \in Inodes, WriteBack(i) PROVE TaskInv'
  BY <1>9 DEF WriteBack
<1>10. CASE Commit
  BY <1>10 DEF Commit
<1>11. CASE PowerFails
  BY <1>11 DEF PowerFails
<1>12. CASE UNCHANGED vars
  BY <1>12 DEF vars
<1> QED
  BY <1>1, <1>2, <1>3, <1>4, <1>5, <1>6, <1>7, <1>8, <1>9, <1>10, <1>11, <1>12 DEF Next, Task

LEMMA ApartStays ==
  ASSUME PowerInv, [Next]_vars
  PROVE  ApartInv'
<1> USE DEF PowerInv, PowerTypeOK, ApartInv, contents, names, journal, process, task
<1>1. CASE UNCHANGED <<entries, temps>>
  BY <1>1
<1>2. CASE OpenTemp
  <2>1. PICK i \in Inodes :
          /\ temps' = [temps EXCEPT ![writer] = i]
          /\ \A id \in Ids : entries[id] # i
    BY <1>2, OpenTouches
  <2> QED
    BY <1>2, <2>1 DEF OpenTemp
<1>3. CASE Rename
  BY <1>3, NoneAssumption DEF Rename
<1>4. CASE PersistFails
  BY <1>4 DEF PersistFails
<1>5. CASE Commit
  BY <1>5 DEF Commit, NamesApart
<1>6. CASE PowerFails
  BY <1>6 DEF PowerFails, NamesApart
<1>7. ASSUME NEW key \in BOOLEAN, Start(key) PROVE ApartInv'
  BY <1>1, <1>7 DEF Start
<1>8. ASSUME NEW id \in Ids, AnswerKnown(id) \/ Begin(id) PROVE ApartInv'
  BY <1>1, <1>8 DEF AnswerKnown, Begin
<1>9. CASE FillTemp \/ Answer \/ Kill
  BY <1>1, <1>9 DEF FillTemp, Answer, Kill
<1>10. ASSUME NEW i \in Inodes, WriteBack(i) PROVE ApartInv'
  BY <1>1, <1>10 DEF WriteBack
<1>11. CASE UNCHANGED vars
  BY <1>1, <1>11 DEF vars
<1> QED
  BY <1>2, <1>3, <1>4, <1>5, <1>6, <1>7, <1>8, <1>9, <1>10, <1>11 DEF Next, Task

LEMMA CacheStays ==
  ASSUME PowerInv, [Next]_vars
  PROVE  CacheInv'
<1> USE DEF PowerInv, PowerTypeOK, CacheInv, known, contents, names, journal, process, task
<1>1. ASSUME NEW key \in BOOLEAN, Start(key) PROVE CacheInv'
  BY <1>1 DEF Start, Loads
<1>2. ASSUME NEW id \in Ids, AnswerKnown(id) \/ Begin(id) PROVE CacheInv'
  BY <1>2 DEF AnswerKnown, Begin
<1>3. CASE OpenTemp
  <2>1. PICK i \in Inodes :
          /\ data' = [data EXCEPT ![i] = "torn"]
          /\ \A id \in Ids : files[id] # i
    BY <1>3, OpenTouches
  <2>2. up /\ up' = up /\ files' = files
    BY <1>3, OpenTouches DEF OpenTemp
  <2>3. ASSUME NEW id \in Ids, known(id) PROVE data'[files[id]] = data[files[id]]
    BY <2>1, <2>3
  <2> QED
    BY <2>2, <2>3
<1>4. CASE FillTemp
  <2>1. writer \in Ids /\ temps[writer] \in Inodes /\ up
    BY <1>4 DEF FillTemp, TaskInv
  <2>2. \A id \in Ids : known(id) => files[id] # temps[writer]
    BY <2>1 DEF NamesApart
  <2> QED
    BY <1>4, <2>1, <2>2 DEF FillTemp
<1>5. CASE Rename
  BY <1>5, RecordsAre DEF Rename, TaskInv
<1>6. CASE Answer \/ PersistFails \/ Kill
  BY <1>6 DEF Answer, PersistFails, Kill
<1>7. ASSUME NEW i \in Inodes, WriteBack(i) PROVE CacheInv'
  BY <1>7 DEF WriteBack
<1>8. CASE Commit
  BY <1>8 DEF Commit
<1>9. CASE PowerFails
  BY <1>9 DEF PowerFails, Content
<1>10. CASE UNCHANGED vars
  BY <1>10 DEF vars
<1> QED
  BY <1>1, <1>2, <1>3, <1>4, <1>5, <1>6, <1>7, <1>8, <1>9, <1>10 DEF Next, Task

(* What a submission does to the records that have a name on the medium.   *)
LEMMA WritesSpare ==
  ASSUME PowerInv, OpenTemp \/ FillTemp, NEW id \in Ids
  PROVE  /\ entries' = entries /\ files' = files /\ ordered' = ordered
         /\ entries[id] # None => /\ medium'[entries[id]] = medium[entries[id]]
                                  /\ data'[entries[id]] = data[entries[id]]
         /\ known(id) => /\ medium'[files[id]] = medium[files[id]]
                         /\ data'[files[id]] = data[files[id]]
<1> USE DEF PowerInv, PowerTypeOK, known
<1>1. CASE OpenTemp
  <2>1. PICK i \in Inodes :
          /\ data' = [data EXCEPT ![i] = "torn"]
          /\ medium' = medium \/ medium' = [medium EXCEPT ![i] = "torn"]
          /\ files[id] # i /\ entries[id] # i
    BY <1>1, OpenTouches
  <2> QED
    BY <1>1, <2>1 DEF OpenTemp, journal
<1>2. CASE FillTemp
  <2>1. writer \in Ids /\ temps[writer] \in Inodes
    BY <1>2 DEF FillTemp, TaskInv
  <2>2. /\ known(id) => files[id] # temps[writer]
        /\ entries[id] # None => entries[id] # temps[writer]
    BY <2>1 DEF NamesApart, ApartInv
  <2> QED
    BY <1>2, <2>1, <2>2 DEF FillTemp, names, journal
<1> QED
  BY <1>1, <1>2

LEMMA MediumStays ==
  ASSUME PowerInv, [Next]_vars, "replace" \in data_first
  PROVE  MediumInv'
<1> USE DEF PowerInv, PowerTypeOK, known, contents, names, journal, process, task
<1>1. CASE UNCHANGED <<contents, files, entries, ordered>>
  BY <1>1 DEF MediumInv
<1>2. CASE OpenTemp \/ FillTemp
  BY <1>2, WritesSpare DEF MediumInv
<1>3. CASE Rename
  <2>1. writer \in Ids /\ temps[writer] \in Inodes /\ data[temps[writer]] \in Records
    BY <1>3, RecordsAre DEF Rename, TaskInv
  <2>2. ASSUME NEW id \in Ids, id # writer, entries[id] # None,
               data[entries[id]] \in Records
        PROVE  files'[id] = files[id] /\ (files[id] \in ordered => files[id] \in ordered')
    BY <1>3, <2>1, <2>2 DEF Rename, NamesApart, MediumInv
  <2>3. known(writer) => temps[writer] \in ordered'
    BY <1>3 DEF Rename, renames_after_data
  <2>4. known(writer) => data[files[writer]] # "signed"
    BY <1>3 DEF Rename, TaskInv
  <2>5. files'[writer] = temps[writer] /\ UNCHANGED <<data, medium, entries>>
    BY <1>3, <2>1 DEF Rename
  <2>6. ASSUME NEW id \in Ids, id # writer, entries[id] # None,
               data[entries[id]] = "signed"
        PROVE  files'[id] = entries[id]
    BY <1>3, <2>1, <2>6 DEF Rename, MediumInv
  <2> QED
    BY <2>1, <2>2, <2>3, <2>4, <2>5, <2>6, NoneAssumption DEF MediumInv
<1>4. ASSUME NEW i \in Inodes, WriteBack(i) PROVE MediumInv'
  BY <1>4 DEF WriteBack, MediumInv
<1>5. CASE Commit
  BY <1>5, RecordsAre DEF Commit, CacheInv, MediumInv
<1>6. CASE PowerFails
  BY <1>6 DEF PowerFails, MediumInv
<1>7. ASSUME NEW key \in BOOLEAN, Start(key) PROVE MediumInv'
  BY <1>1, <1>7 DEF Start
<1>8. ASSUME NEW id \in Ids, AnswerKnown(id) \/ Begin(id) PROVE MediumInv'
  BY <1>1, <1>8 DEF AnswerKnown, Begin
<1>9. CASE Answer \/ PersistFails \/ Kill
  BY <1>1, <1>9 DEF Answer, PersistFails, Kill
<1>10. CASE UNCHANGED vars
  BY <1>1, <1>10 DEF vars
<1> QED
  BY <1>2, <1>3, <1>4, <1>5, <1>6, <1>7, <1>8, <1>9, <1>10 DEF Next, Task

LEMMA OrderedStays ==
  ASSUME PowerInv, OrderedInv, [Next]_vars, data_first = {"create", "replace"}
  PROVE  OrderedInv'
<1> USE DEF PowerInv, PowerTypeOK, known, contents, names, journal, process, task
<1>1. CASE UNCHANGED <<contents, files, entries, ordered>>
  BY <1>1 DEF OrderedInv
<1>2. CASE OpenTemp \/ FillTemp
  BY <1>2, WritesSpare DEF OrderedInv
<1>3. CASE Rename
  <2>1. writer \in Ids /\ temps[writer] \in Inodes /\ data[temps[writer]] \in Records
    BY <1>3, RecordsAre DEF Rename, TaskInv
  <2>2. ASSUME NEW id \in Ids, id # writer, known(id)
        PROVE  files'[id] = files[id] /\ (files[id] \in ordered => files[id] \in ordered')
    BY <1>3, <2>1, <2>2 DEF Rename, NamesApart
  <2>3. files'[writer] = temps[writer] /\ temps[writer] \in ordered'
    BY <1>3, <2>1 DEF Rename, renames_after_data
  <2>4. \A id \in Ids : id # writer => files'[id] = files[id]
    BY <1>3, <2>1 DEF Rename
  <2>5. UNCHANGED <<data, medium, entries>>
    BY <1>3 DEF Rename
  <2> QED
    BY <2>1, <2>2, <2>3, <2>4, <2>5 DEF OrderedInv
<1>4. ASSUME NEW i \in Inodes, WriteBack(i) PROVE OrderedInv'
  BY <1>4 DEF WriteBack, OrderedInv, MediumInv
<1>5. CASE Commit
  BY <1>5 DEF Commit, OrderedInv
<1>6. CASE PowerFails
  BY <1>6 DEF PowerFails, OrderedInv
<1>7. ASSUME NEW key \in BOOLEAN, Start(key) PROVE OrderedInv'
  BY <1>1, <1>7 DEF Start
<1>8. ASSUME NEW id \in Ids, AnswerKnown(id) \/ Begin(id) PROVE OrderedInv'
  BY <1>1, <1>8 DEF AnswerKnown, Begin
<1>9. CASE Answer \/ PersistFails \/ Kill
  BY <1>1, <1>9 DEF Answer, PersistFails, Kill
<1>10. CASE UNCHANGED vars
  BY <1>1, <1>10 DEF vars
<1> QED
  BY <1>2, <1>3, <1>4, <1>5, <1>6, <1>7, <1>8, <1>9, <1>10 DEF Next, Task

LEMMA PowerInit == Init => PowerInv /\ OrderedInv
<1> SUFFICES ASSUME Init PROVE PowerInv /\ OrderedInv
  OBVIOUS
<1>1. \A id \in Ids : files[id] = None /\ temps[id] = None /\ entries[id] = None
                      /\ temp_entries[id] = None
  BY DEF Init
<1>2. PowerTypeOK
  BY <1>1, RecordsAre DEF Init, PowerTypeOK, NamesApart
<1>3. TaskInv
  BY DEF Init, TaskInv
<1>4. ApartInv /\ CacheInv /\ MediumInv /\ OrderedInv
  BY <1>1 DEF ApartInv, CacheInv, MediumInv, OrderedInv, known
<1> QED
  BY <1>2, <1>3, <1>4 DEF PowerInv

LEMMA PowerStays ==
  ASSUME PowerInv, [Next]_vars
  PROVE  PowerInv'
<1>1. "replace" \in data_first
  BY FileSystemsAssumption DEF PowerInv, PowerTypeOK
<1> QED
  BY <1>1, TypeStays, TaskStays, ApartStays, CacheStays, MediumStays DEF PowerInv

LEMMA PowerInvariant == Spec => []PowerInv
<1>1. PowerInv /\ [Next]_vars => PowerInv'
  BY PowerStays
<1> QED
  BY <1>1, PowerInit, PTL DEF Spec
-----------------------------------------------------------------------------
(* Contents and names have their types, and what a submission truncates is *)
(* never a stored record, in the cache or on the medium: PowerTypeOK.      *)
THEOREM NamesStayApart == Spec => []PowerTypeOK
<1>1. PowerInv => PowerTypeOK
  BY DEF PowerInv
<1> QED
  BY <1>1, PowerInvariant, PTL

LEMMA KeepsStep ==
  ASSUME PowerInv, [Next]_vars, NEW id \in Ids, survivor(id) \in Records
  PROVE  survivor(id)' \in Records /\ (receipt_written(id) => receipt_written(id)')
<1> USE DEF PowerInv, PowerTypeOK, known, survivor, receipt_written,
            contents, names, journal, process, task
<1>0. entries[id] # None /\ data[entries[id]] \in Records
  <2>1. CASE entries[id] = None
    BY <2>1, NoneAssumption DEF Records
  <2> QED
    BY <2>1 DEF MediumInv
<1>1. CASE UNCHANGED <<contents, entries>>
  BY <1>1
<1>2. CASE OpenTemp \/ FillTemp
  BY <1>0, <1>2, WritesSpare
<1>3. ASSUME NEW i \in Inodes, WriteBack(i)
      PROVE  survivor(id)' \in Records /\ (receipt_written(id) => receipt_written(id)')
  BY <1>0, <1>3 DEF WriteBack
<1>4. CASE Commit
  BY <1>0, <1>4 DEF Commit, MediumInv
<1>5. CASE PowerFails
  BY <1>0, <1>5 DEF PowerFails
<1>6. ASSUME NEW key \in BOOLEAN, Start(key) PROVE UNCHANGED <<contents, entries>>
  BY <1>6 DEF Start
<1>7. ASSUME NEW jd \in Ids, AnswerKnown(jd) \/ Begin(jd)
      PROVE  UNCHANGED <<contents, entries>>
  BY <1>7 DEF AnswerKnown, Begin
<1>8. CASE Rename \/ Answer \/ PersistFails \/ Kill
  BY <1>1, <1>8 DEF Rename, Answer, PersistFails, Kill
<1>9. CASE UNCHANGED vars
  BY <1>1, <1>9 DEF vars
<1> QED
  BY <1>1, <1>2, <1>3, <1>4, <1>5, <1>6, <1>7, <1>8, <1>9 DEF Next, Task

(* No step of a submission, of the write-back or of a power failure takes  *)
(* a record that was on the medium away from there.                        *)
THEOREM RecordsOnMediumStay == Spec => MediumKeepsRecords
<1>1. PowerInv /\ [Next]_vars =>
        [\A id \in Ids : survivor(id) \in Records =>
           survivor(id)' \in Records /\ (receipt_written(id) => receipt_written(id)')]_vars
  BY KeepsStep
<1> QED
  BY <1>1, PowerInvariant, PTL DEF Spec, MediumKeepsRecords

LEMMA CheckpointInvariant == Spec => []CheckpointInv
<1>1. CheckpointInv /\ [Next]_vars => CheckpointInv'
  <2> SUFFICES ASSUME CheckpointInv, [Next]_vars
               PROVE  PowerInv' /\ ("create" \in data_first' => OrderedInv')
    BY DEF CheckpointInv
  <2>1. data_first' = data_first
    BY DEF Next, vars
  <2>2. CASE "create" \in data_first
    <3>1. data_first = {"create", "replace"}
      BY <2>2, FileSystemsAssumption DEF CheckpointInv, PowerInv, PowerTypeOK
    <3> QED
      BY <2>2, <3>1, PowerStays, OrderedStays DEF CheckpointInv
  <2> QED
    BY <2>1, <2>2, PowerStays DEF CheckpointInv
<1>2. Init => CheckpointInv
  BY PowerInit DEF CheckpointInv
<1> QED
  BY <1>1, <1>2, PTL DEF Spec

(* Where every rename is ordered after its data, the directory that a      *)
(* power failure leaves is one that load accepts, at every moment.         *)
THEOREM SurvivorsAreWhole == Spec => []SurvivorsLoad
<1>1. CheckpointInv => SurvivorsLoad
  BY DEF CheckpointInv, OrderedInv, SurvivorsLoad, survivor
<1> QED
  BY <1>1, CheckpointInvariant, PTL
-----------------------------------------------------------------------------
(* The directory as DurableMap has it.                                     *)

Shown == [id \in Ids |-> IF known(id) THEN data[files[id]] ELSE None]
Durable == [id \in Ids |-> survivor(id)]

LEMMA DirectoryVars ==
  Directory!vars = <<"create" \in data_first, Shown, Durable>>
  BY DEF Directory!vars, Shown, Durable

LEMMA DirectoryInit == Init => Directory!Init
<1> SUFFICES ASSUME Init PROVE Directory!Init
  OBVIOUS
<1>1. \A id \in Ids : ~known(id) /\ survivor(id) = None
  BY DEF Init, known, survivor
<1> QED
  BY <1>1 DEF Directory!Init

(* What a record is in the directory is never the absence of one.          *)
LEMMA ContentIsSome ==
  /\ None \notin Content
  /\ Content = Records \cup {"torn"} /\ Directory!Records = Records
  BY NoneAssumption DEF Content, Records, Directory!Records

(* Neither map changes while no file with a final name does.               *)
LEMMA ShownStays ==
  ASSUME \A id \in Ids : files'[id] = files[id] /\ (known(id) => data'[files[id]] = data[files[id]])
  PROVE  Shown' = Shown
<1>1. \A id \in Ids : /\ known(id)' <=> known(id)
                      /\ known(id) => data'[files'[id]] = data[files[id]]
  BY DEF known
<1> QED
  BY <1>1 DEF Shown

LEMMA DurableStays ==
  ASSUME \A id \in Ids : /\ entries'[id] = entries[id]
                         /\ entries[id] # None => medium'[entries[id]] = medium[entries[id]]
  PROVE  Durable' = Durable
<1>1. \A id \in Ids : survivor(id)' = survivor(id)
  BY DEF survivor
<1> QED
  BY <1>1 DEF Durable

(* A rename stores a payload or attaches a receipt to one.                 *)
LEMMA RenameStores ==
  ASSUME CheckpointInv, Rename
  PROVE  /\ Durable' = Durable
         /\ \E id \in Ids, rec \in Records :
              /\ Shown' = [Shown EXCEPT ![id] = rec]
              /\ Shown[id] = None \/ (Shown[id] = "unsigned" /\ rec = "signed")
<1> USE DEF CheckpointInv, PowerInv, PowerTypeOK
<1>1. /\ writer \in Ids /\ temps[writer] \in Inodes /\ data[temps[writer]] \in Records
      /\ data[temps[writer]] = IF signing THEN "signed" ELSE "unsigned"
  BY RecordsAre DEF Rename, TaskInv
<1>2. /\ files' = [files EXCEPT ![writer] = temps[writer]]
      /\ data' = data /\ medium' = medium /\ entries' = entries
  BY DEF Rename, contents
<1>3. Shown' = [Shown EXCEPT ![writer] = data[temps[writer]]]
  <2>1. \A id \in Ids : files'[id] = IF id = writer THEN temps[writer] ELSE files[id]
    BY <1>2
  <2>2. \A id \in Ids : (IF known(id) THEN data[files[id]] ELSE None)'
                        = IF id = writer THEN data[temps[writer]]
                          ELSE IF known(id) THEN data[files[id]] ELSE None
    BY <1>1, <1>2, <2>1, NoneAssumption DEF known
  <2> QED
    BY <2>2 DEF Shown
<1>4. Durable' = Durable
  BY <1>2, DurableStays
<1>5. \/ Shown[writer] = None
      \/ Shown[writer] = "unsigned" /\ data[temps[writer]] = "signed"
  BY <1>1 DEF Shown, TaskInv, Rename
<1> QED
  BY <1>1, <1>3, <1>4, <1>5

(* Content that reaches the medium after its name is what the name shows,  *)
(* or what it showed before the next record replaced it in the cache.      *)
LEMMA WriteBackFollows ==
  ASSUME CheckpointInv, NEW i \in Inodes, WriteBack(i)
  PROVE  \/ Shown' = Shown /\ Durable' = Durable
         \/ \E id \in Ids : ~("create" \in data_first) /\ Directory!Follow(id)
<1> USE DEF CheckpointInv, PowerInv, PowerTypeOK
<1>1. /\ medium' = [medium EXCEPT ![i] = data[i]] /\ medium[i] # data[i]
      /\ data' = data /\ files' = files /\ entries' = entries
  BY DEF WriteBack, names, journal
<1>2. Shown' = Shown
  BY <1>1, ShownStays
<1>3. CASE \A id \in Ids : entries[id] # i
  BY <1>1, <1>2, <1>3, DurableStays
<1>4. ASSUME NEW id \in Ids, entries[id] = i
      PROVE  ~("create" \in data_first) /\ Directory!Follow(id)
  <2>1. i # None
    BY NoneAssumption
  <2>2. "create" \notin data_first
    BY <1>1, <1>4, <2>1 DEF OrderedInv
  <2>3. data[i] \in Records
    BY <1>1, <1>4, <2>1, ContentIsSome DEF MediumInv
  <2>4. Durable[id] # None /\ Durable[id] = medium[i]
    BY <1>4, <2>1, ContentIsSome DEF Durable, survivor
  <2>5. data[i] = "signed" => Shown[id] = "signed"
    BY <1>4, <2>1, <2>3 DEF MediumInv, Shown, known
  <2>6. Durable' = [Durable EXCEPT ![id] = data[i]]
    <3>1. ASSUME NEW jd \in Ids, jd # id PROVE survivor(jd)' = survivor(jd)
      BY <1>1, <1>4, <2>1, <3>1 DEF NamesApart, survivor
    <3>2. survivor(id)' = data[i]
      BY <1>1, <1>4, <2>1 DEF survivor
    <3> QED
      BY <3>1, <3>2 DEF Durable
  <2> QED
    BY <1>2, <2>2, <2>3, <2>4, <2>5, <2>6, ContentIsSome DEF Directory!Follow, Shown, Durable
<1> QED
  BY <1>2, <1>3, <1>4

(* The commit of the directory makes what is shown durable, all payloads   *)
(* together.                                                               *)
LEMMA CommitIsCheckpoint ==
  ASSUME CheckpointInv, Commit
  PROVE  Directory!Checkpoint
<1> USE DEF CheckpointInv, PowerInv, PowerTypeOK
<1>1. /\ entries' = files /\ files' = files /\ data' = data /\ medium' = medium
      /\ \A i \in ordered : medium[i] = data[i]
  BY DEF Commit, contents, names
<1>2. Shown' = Shown
  BY <1>1, ShownStays
<1>3. \A id \in Ids : Durable'[id] = IF known(id) THEN medium[files[id]] ELSE None
  BY <1>1 DEF Durable, survivor, known
<1>4. ASSUME NEW id \in Ids
      PROVE  \/ Durable'[id] = Shown[id]
             \/ /\ ~("create" \in data_first) /\ Shown[id] # None
                /\ Durable'[id] \in Records \cup {"torn"}
                /\ Durable[id] \in Records => Durable'[id] \in Records
  <2>1. CASE ~known(id)
    BY <1>3, <2>1 DEF Shown
  <2>2. CASE known(id) /\ "create" \in data_first
    BY <1>1, <1>3, <2>2 DEF Shown, OrderedInv
  <2>3. CASE known(id) /\ "create" \notin data_first
    <3>1. files[id] \in Inodes /\ Shown[id] = data[files[id]] /\ Shown[id] # None
      BY <2>3, ContentIsSome DEF Shown, known
    <3>2. Durable'[id] = medium[files[id]] /\ Durable'[id] \in Records \cup {"torn"}
      BY <1>3, <2>3, <3>1, ContentIsSome
    <3>3. Durable[id] \in Records => Durable'[id] \in Records
      <4> SUFFICES ASSUME Durable[id] \in Records PROVE medium[files[id]] \in Records
        BY <3>2
      <4>1. entries[id] # None /\ medium[entries[id]] \in Records
        BY NoneAssumption DEF Durable, survivor, Records
      <4>2. \/ files[id] = entries[id] \/ files[id] \in ordered
            \/ medium[files[id]] \in Records
        BY <4>1 DEF MediumInv
      <4>3. data[files[id]] \in Records
        BY <4>1 DEF MediumInv
      <4> QED
        BY <1>1, <4>1, <4>2, <4>3
    <3> QED
      BY <2>3, <3>1, <3>2, <3>3
  <2> QED
    BY <2>1, <2>2, <2>3
<1>5. DOMAIN Durable' = Ids
  BY DEF Durable
<1> QED
  BY <1>2, <1>4, <1>5, ContentIsSome
     DEF Directory!Checkpoint, Directory!late, Shown, Durable

LEMMA PowerFailureRestores ==
  ASSUME CheckpointInv, PowerFails
  PROVE  Directory!PowerFails
<1>1. /\ data' = medium /\ files' = entries
      /\ entries' = entries /\ medium' = medium
  BY DEF PowerFails
<1>2. Durable' = Durable
  BY <1>1, DurableStays
<1>3. \A id \in Ids : (IF known(id) THEN data[files[id]] ELSE None)' = survivor(id)
  BY <1>1 DEF known, survivor
<1>4. Shown' = Durable
  BY <1>3 DEF Shown, Durable
<1> QED
  BY <1>2, <1>4 DEF Directory!PowerFails, Shown, Durable

LEMMA DirectoryStep ==
  ASSUME CheckpointInv, [Next]_vars
  PROVE  [Directory!Next]_(Directory!vars)
<1> USE DEF contents, names, journal, process, task
<1>0. data_first' = data_first
  BY DEF Next, vars
<1>1. ASSUME Shown' = Shown, Durable' = Durable
      PROVE  UNCHANGED Directory!vars
  BY <1>0, <1>1 DEF Directory!vars, Shown, Durable
<1>2. CASE UNCHANGED <<contents, files, entries>>
  <2>1. Shown' = Shown
    BY <1>2, ShownStays
  <2>2. Durable' = Durable
    BY <1>2, DurableStays
  <2> QED
    BY <1>1, <2>1, <2>2
<1>3. CASE OpenTemp \/ FillTemp
  <2>1. Shown' = Shown
    BY <1>3, WritesSpare, ShownStays DEF CheckpointInv
  <2>2. Durable' = Durable
    BY <1>3, WritesSpare, DurableStays DEF CheckpointInv
  <2> QED
    BY <1>1, <2>1, <2>2
<1>4. CASE Rename
  <2>1. PICK id \in Ids, rec \in Records :
          /\ Shown' = [Shown EXCEPT ![id] = rec]
          /\ Shown[id] = None \/ (Shown[id] = "unsigned" /\ rec = "signed")
    BY <1>4, RenameStores
  <2>2. Durable' = Durable
    BY <1>4, RenameStores
  <2>3. CASE Shown[id] = None
    BY <1>0, <2>1, <2>2, <2>3, ContentIsSome DEF Directory!Next, Directory!Store, Shown, Durable
  <2>4. CASE Shown[id] = "unsigned" /\ rec = "signed"
    BY <1>0, <2>1, <2>2, <2>4 DEF Directory!Next, Directory!Attach, Shown, Durable
  <2> QED
    BY <2>1, <2>3, <2>4
<1>5. ASSUME NEW i \in Inodes, WriteBack(i)
      PROVE  [Directory!Next]_(Directory!vars)
  BY <1>0, <1>1, <1>5, WriteBackFollows DEF Directory!Next
<1>6. CASE Commit
  BY <1>0, <1>6, CommitIsCheckpoint DEF Directory!Next
<1>7. CASE PowerFails
  BY <1>0, <1>7, PowerFailureRestores DEF Directory!Next
<1>8. ASSUME NEW key \in BOOLEAN, Start(key) PROVE UNCHANGED <<contents, files, entries>>
  BY <1>8 DEF Start
<1>9. ASSUME NEW id \in Ids, AnswerKnown(id) \/ Begin(id)
      PROVE  UNCHANGED <<contents, files, entries>>
  BY <1>9 DEF AnswerKnown, Begin
<1>10. CASE Answer \/ PersistFails \/ Kill
  BY <1>2, <1>10 DEF Answer, PersistFails, Kill
<1>11. CASE UNCHANGED vars
  BY <1>2, <1>11 DEF vars
<1> QED
  BY <1>2, <1>3, <1>4, <1>5, <1>6, <1>7, <1>8, <1>9, <1>10, <1>11 DEF Next, Task

(* A power failure takes the whole directory back to one earlier moment,   *)
(* on every file system, for any number of payloads and files:             *)
(* persist_record, the write-back and the commits of the directory are     *)
(* the steps of DurableMap.                                                *)
THEOREM DirectoryIsCheckpointed == Spec => IsCheckpointed
<1>1. CheckpointInv /\ [Next]_vars => [Directory!Next]_(Directory!vars)
  BY DirectoryStep
<1> QED
  BY <1>1, DirectoryInit, CheckpointInvariant, PTL DEF Spec, IsCheckpointed, Directory!Spec
=============================================================================
