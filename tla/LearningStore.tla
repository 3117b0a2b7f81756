--------------------------- MODULE LearningStore ---------------------------
(***************************************************************************)
(* The write-once files of swarm/src/swarmLearningStore.js.  recordEpisode *)
(* and recordFailureCapsule first write an object (or blob) under its      *)
(* digest, then a reference under the record's name; both creations are    *)
(* exclusive, and a file that is there is compared with what should be in  *)
(* it.  Several processes use one store, each may die anywhere, and a      *)
(* write may fail.  Nothing repairs a file that was only begun.            *)
(* A record stands for its digest and for the contents of both its files.  *)
(***************************************************************************)
EXTENDS Naturals

CONSTANTS
    StoredRecord,       \* episodes, or capsules, that callers record
    NameOf,             \* per record, the name of its reference: id, or index entry
    Recorder,           \* calls that record one record each
    Lister,             \* calls of listEpisodes or listFailureCapsules
    WriteFaults,        \* writes that fail (bound)
    Missing, Begun, NoRecord

ASSUME StoreAssumption ==
    /\ {Missing, Begun, NoRecord} \cap StoredRecord = {}
    /\ Missing # Begun
    /\ WriteFaults \in Nat

RefName == {NameOf[e] : e \in StoredRecord}

VARIABLES
    objects,        \* per record, its object file: Missing, Begun, or the record
    refs,           \* per name, its reference: Missing, Begun, or the record it names
    recorders,      \* per recording call: next step and record
    listers,        \* per listing call: names left to read, records read
    owed,           \* per listing call, the records acknowledged before it began
    failedWrites

storeVars == <<objects, refs, recorders, listers, owed, failedWrites>>

LearningInit ==
    /\ objects = [e \in StoredRecord |-> Missing]
    /\ refs = [n \in RefName |-> Missing]
    /\ recorders = [c \in Recorder |-> [at |-> "new", record |-> NoRecord]]
    /\ listers = [l \in Lister |-> [at |-> "new", left |-> {}, read |-> {}]]
    /\ owed = [l \in Lister |-> {}]
    /\ failedWrites = 0

ObjectStep == {"open-object", "write-object", "compare-object"}
RefStep == {"open-ref", "write-ref", "compare-ref"}
Recording(c) == recorders[c].at \in ObjectStep \cup RefStep \cup {"read-back"}
RecordOf(c) == recorders[c].record
RefOf(e) == refs[NameOf[e]]
Steps(c, from, to) == recorders[c].at = from /\ recorders' = [recorders EXCEPT ![c].at = to]
FilesStay == UNCHANGED <<objects, refs, failedWrites>>
ListsStay == UNCHANGED <<listers, owed>>

-----------------------------------------------------------------------------
\* recordEpisode and recordFailureCapsule, call by call of the file system.
BeginRecord(c, e) ==
    /\ recorders[c].at = "new"
    /\ recorders' = [recorders EXCEPT ![c] = [at |-> "open-object", record |-> e]]
    /\ FilesStay /\ ListsStay

OpenObject(c) ==
    /\ recorders[c].at = "open-object"
    /\ \/ /\ objects[RecordOf(c)] = Missing
          /\ Steps(c, "open-object", "write-object")
          /\ objects' = [objects EXCEPT ![RecordOf(c)] = Begun]
       \/ /\ objects[RecordOf(c)] # Missing
          /\ Steps(c, "open-object", "compare-object")
          /\ UNCHANGED objects
    /\ UNCHANGED <<refs, failedWrites>> /\ ListsStay

\* A write that fails leaves what was begun, a sync that fails the whole file.
WriteObject(c) ==
    /\ recorders[c].at = "write-object"
    /\ \/ /\ Steps(c, "write-object", "open-ref")
          /\ objects' = [objects EXCEPT ![RecordOf(c)] = RecordOf(c)]
          /\ UNCHANGED failedWrites
       \/ /\ failedWrites < WriteFaults /\ failedWrites' = failedWrites + 1
          /\ Steps(c, "write-object", "threw")
          /\ objects' \in {objects, [objects EXCEPT ![RecordOf(c)] = RecordOf(c)]}
    /\ UNCHANGED refs /\ ListsStay

\* Slip: a file that is there is taken for the one that should be there.
SameIfThere(file, e) == file # Missing

\* writeImmutable throws unless the file has exactly these contents.
Same(file, e) == file = e

CompareObject(c) ==
    /\ recorders[c].at = "compare-object"
    /\ Steps(c, "compare-object",
             IF Same(objects[RecordOf(c)], RecordOf(c)) THEN "open-ref" ELSE "threw")
    /\ FilesStay /\ ListsStay

OpenRef(c) ==
    LET n == NameOf[RecordOf(c)]
    IN  /\ recorders[c].at = "open-ref"
        /\ \/ /\ refs[n] = Missing
              /\ Steps(c, "open-ref", "write-ref")
              /\ refs' = [refs EXCEPT ![n] = Begun]
           \/ /\ refs[n] # Missing
              /\ Steps(c, "open-ref", "compare-ref")
              /\ UNCHANGED refs
        /\ UNCHANGED <<objects, failedWrites>> /\ ListsStay

WriteRef(c) ==
    LET n == NameOf[RecordOf(c)]
    IN  /\ recorders[c].at = "write-ref"
        /\ \/ /\ Steps(c, "write-ref", "read-back")
              /\ refs' = [refs EXCEPT ![n] = RecordOf(c)]
              /\ UNCHANGED failedWrites
           \/ /\ failedWrites < WriteFaults /\ failedWrites' = failedWrites + 1
              /\ Steps(c, "write-ref", "threw")
              /\ refs' \in {refs, [refs EXCEPT ![n] = RecordOf(c)]}
        /\ UNCHANGED objects /\ ListsStay

CompareRef(c) ==
    /\ recorders[c].at = "compare-ref"
    /\ Steps(c, "compare-ref",
             IF Same(RefOf(RecordOf(c)), RecordOf(c)) THEN "read-back" ELSE "threw")
    /\ FilesStay /\ ListsStay

\* A reference can be read back when it and the object it names are whole.
Resolves(n) == refs[n] \in StoredRecord /\ objects[refs[n]] = refs[n]

ReadBack(c) ==
    /\ recorders[c].at = "read-back"
    /\ LET n == NameOf[RecordOf(c)]
       IN  Steps(c, "read-back",
                 IF Resolves(n) /\ refs[n] = RecordOf(c) THEN "stored" ELSE "threw")
    /\ FilesStay /\ ListsStay

RecorderDies(c) ==
    /\ Recording(c)
    /\ recorders' = [recorders EXCEPT ![c].at = "dead"]
    /\ FilesStay /\ ListsStay

-----------------------------------------------------------------------------
Acknowledged == {RecordOf(c) : c \in {d \in Recorder : recorders[d].at = "stored"}}

\* listEpisodes and listFailureCapsules: the names of the directory ...
BeginList(l) ==
    /\ listers[l].at = "new"
    /\ listers' = [listers EXCEPT ![l] =
           [at |-> "reading", left |-> {n \in RefName : refs[n] # Missing}, read |-> {}]]
    /\ owed' = [owed EXCEPT ![l] = Acknowledged]
    /\ UNCHANGED recorders /\ FilesStay

\* ... are read one after the other; one that cannot be read ends the call.
ReadListed(l, n) ==
    /\ listers[l].at = "reading" /\ n \in listers[l].left
    /\ \/ /\ Resolves(n)
          /\ listers' = [listers EXCEPT ![l].left = @ \ {n}, ![l].read = @ \cup {refs[n]}]
       \/ /\ ~Resolves(n)
          /\ listers' = [listers EXCEPT ![l].at = "threw"]
    /\ UNCHANGED <<recorders, owed>> /\ FilesStay

EndList(l) ==
    /\ listers[l].at = "reading" /\ listers[l].left = {}
    /\ listers' = [listers EXCEPT ![l].at = "listed"]
    /\ UNCHANGED <<recorders, owed>> /\ FilesStay

LearningNext ==
    \/ \E c \in Recorder :
          \/ \E e \in StoredRecord : BeginRecord(c, e)
          \/ OpenObject(c) \/ WriteObject(c) \/ CompareObject(c)
          \/ OpenRef(c) \/ WriteRef(c) \/ CompareRef(c) \/ ReadBack(c)
          \/ RecorderDies(c)
    \/ \E l \in Lister : BeginList(l) \/ EndList(l) \/ \E n \in RefName : ReadListed(l, n)

LearningSpec == LearningInit /\ [][LearningNext]_storeVars

-----------------------------------------------------------------------------
FilesTypeOK ==
    /\ objects \in [StoredRecord -> StoredRecord \cup {Missing, Begun}]
    /\ \A e \in StoredRecord : objects[e] \in {Missing, Begun, e}
    /\ refs \in [RefName -> StoredRecord \cup {Missing, Begun}]
    /\ \A n \in RefName : refs[n] \in StoredRecord => NameOf[refs[n]] = n
    /\ failedWrites \in 0 .. WriteFaults

RecorderStep ==
    ObjectStep \cup RefStep \cup {"new", "read-back", "stored", "threw", "dead"}
RecordersTypeOK ==
    recorders \in [Recorder -> [at : RecorderStep, record : StoredRecord \cup {NoRecord}]]

ListersTypeOK ==
    /\ listers \in [Lister ->
          [at : {"new", "reading", "listed", "threw"},
           left : SUBSET RefName, read : SUBSET StoredRecord]]
    /\ owed \in [Lister -> SUBSET StoredRecord]

LearningTypeOK == FilesTypeOK /\ RecordersTypeOK /\ ListersTypeOK

\* A whole reference always leads to its whole object; a record whose call has
\* returned is the one its name leads to from then on, whoever writes the same
\* name at the same time, dies in the middle or fails; and a list that is returned
\* has every record acknowledged before it was begun.
\* (swarmLearningStore.js:42-53, 65-76, 85-135, 146-154, 171-199)
RecordsResolve ==
    /\ LearningTypeOK
    /\ \A n \in RefName : refs[n] \in StoredRecord => Resolves(n)
    /\ \A e \in Acknowledged : RefOf(e) = e
    /\ \A l \in Lister : listers[l].at = "listed" => owed[l] \subseteq listers[l].read
=============================================================================
