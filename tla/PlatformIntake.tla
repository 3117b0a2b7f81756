--------------------------- MODULE PlatformIntake ---------------------------
(***************************************************************************)
(* The private intake of Platform episodes and content manifests           *)
(* (src/platformEpisodeReceiver.ts, src/platformEpisodeIntake.ts,          *)
(* scripts/servePlatformEpisodeIntake.ts) over its event file, and the     *)
(* hourly publisher that derives the learning selection snapshot from the  *)
(* same file and copies it to S3 (scripts/publishLearningSelectionSnapshot *)
(* .ts and install-snapshot-publisher.sh).                                 *)
(* The service is one thread and handles a request without interruption;   *)
(* only the write to the file is visible while it goes on.  systemd starts *)
(* the service again whenever it ends.  The Platform delivers a message    *)
(* any number of times, in any order.                                      *)
(***************************************************************************)
EXTENDS Naturals, Sequences, SequencesExt

CONSTANTS
    Message,        \* what the Platform sends
    Sound,          \* messages that pass every check of the receiver
    Kind, EpisodeOf, Body,  \* of each message
    MaxIntakeFaults,    \* bound: writes that fail, fall short or are cut by a death
    NoEvent, TornLine, NoMessage

ASSUME IntakeAssumption ==
    /\ Sound \subseteq Message
    /\ Kind \in [Message -> {"episode", "manifest"}]
    /\ MaxIntakeFaults \in Nat
    /\ NoMessage \notin Message

\* An event: its id is the kind and the episode; the payload is the body and,
\* for a manifest, whether its episode was known at receipt.
Event ==
    [kind : {"episode", "manifest"}, of : {EpisodeOf[m] : m \in Message},
     body : {Body[m] : m \in Message}, known : BOOLEAN]

Log == INSTANCE EventLog WITH Torn <- TornLine

ASSUME SentinelAssumption == NoEvent \notin Event /\ TornLine \notin Log!Lines

VARIABLES
    file,       \* platform-events.jsonl
    service,    \* at, its store in memory, the request it writes for
    answer,     \* per message: the last response the Platform got
    given,      \* per message: the event named by its last 200, or NoEvent
    publisher,  \* at, and the chain its snapshot was derived from
    disk, s3,   \* the published snapshot and digest: the chains they stand for
    intakeFaults

intakeVars == <<file, service, answer, given, publisher, disk, s3, intakeFaults>>

Response == {"none", "stored", "conflict", "rejected"}
Pair == [snapshot : Seq(Event), digest : Seq(Event)]
NothingPublished == [snapshot |-> <<>>, digest |-> <<>>]
Down == [at |-> "down", store |-> <<>>, request |-> NoMessage]
PublisherStep == {"idle", "renameSnapshot", "renameDigest", "uploadSnapshot", "uploadDigest"}
Resting == [at |-> "idle", chain |-> <<>>]

IntakeInit ==
    /\ file = Log!EmptyFile
    /\ service = Down
    /\ answer = [m \in Message |-> "none"]
    /\ given = [m \in Message |-> NoEvent]
    /\ publisher = Resting
    /\ disk = NothingPublished /\ s3 = NothingPublished
    /\ intakeFaults = 0

-----------------------------------------------------------------------------
\* The service process.

\* The constructor of FileEventStore reads the file; a damaged one throws.
StartReceiver ==
    /\ service.at = "down" /\ Log!Readable(file)
    /\ service' = [at |-> "idle", store |-> Log!Read(file), request |-> NoMessage]
    /\ UNCHANGED <<file, answer, given, publisher, disk, s3, intakeFaults>>

Respond(m, response) == answer' = [answer EXCEPT ![m] = response]

\* EventStore.get finds the event with this kind and episode.
Names(e, kind, episode) == e.kind = kind /\ e.of = episode
HoldsEvent(store, kind, episode) == \E i \in DOMAIN store : Names(store[i], kind, episode)
Held(store, kind, episode) ==
    store[CHOOSE i \in DOMAIN store : Names(store[i], kind, episode)]

\* The event that ingest or ingestPlatformContentManifest proposes.
Proposal(m, store) ==
    [kind |-> Kind[m], of |-> EpisodeOf[m], body |-> Body[m],
     known |-> Kind[m] = "manifest" /\ HoldsEvent(store, "episode", EpisodeOf[m])]

\* A message that fails a check: bearer, size, key, bytes, signature, contract,
\* idempotency key, digests, identity, evidence.
RefuseMessage(m) ==
    /\ service.at = "idle" /\ m \notin Sound
    /\ Respond(m, "rejected")
    /\ UNCHANGED <<file, service, given, publisher, disk, s3, intakeFaults>>

\* appendIdempotent finds the id and compares type, mission, authority and
\* payload: the held event is returned, or it conflicts.
Repeat(m) ==
    LET held == Held(service.store, Kind[m], EpisodeOf[m]) IN
    /\ service.at = "idle" /\ m \in Sound
    /\ HoldsEvent(service.store, Kind[m], EpisodeOf[m])
    /\ IF held = Proposal(m, service.store)
       THEN Respond(m, "stored") /\ given' = [given EXCEPT ![m] = held]
       ELSE Respond(m, "conflict") /\ UNCHANGED given
    /\ UNCHANGED <<file, service, publisher, disk, s3, intakeFaults>>

\* appendIdempotent appends: from here on the line is being written.
Write(m) ==
    /\ service.at = "idle" /\ m \in Sound
    /\ ~HoldsEvent(service.store, Kind[m], EpisodeOf[m])
    /\ service' = [service EXCEPT !.at = "writing", !.request = m]
    /\ UNCHANGED <<file, answer, given, publisher, disk, s3, intakeFaults>>

Pending == Proposal(service.request, service.store)
Land(extent) == file' = Log!Written(file, Log!LineFor(service.store, Pending), extent)
IntakeFault == intakeFaults < MaxIntakeFaults /\ intakeFaults' = intakeFaults + 1

\* Slip: the event is kept in memory whether or not the line was written.
KeepEagerly(store, event) == Append(store, event)

\* A failed append leaves the events in memory as they were.
KeepOnThrow(store, event) == store

\* writeSync and fsyncSync return; the event joins the store and is answered
\* with 200.  writeSync may write less than it was given: append ignores the
\* count it returns.
Stored(extent) ==
    /\ service.at = "writing" /\ Land(extent)
    /\ service' = [at |-> "idle", store |-> Append(service.store, Pending), request |-> NoMessage]
    /\ Respond(service.request, "stored")
    /\ given' = [given EXCEPT ![service.request] = Pending]
    /\ UNCHANGED <<publisher, disk, s3>>
WriteWhole == Stored("whole") /\ UNCHANGED intakeFaults
FallShort == IntakeFault /\ \E extent \in {"part", "unended"} : Stored(extent)

\* The write or the fsync throws; the receiver answers 400 and goes on with
\* the store it had.
Throw(extent) ==
    /\ service.at = "writing" /\ IntakeFault /\ Land(extent)
    /\ service' = [at |-> "idle", store |-> KeepOnThrow(service.store, Pending),
                   request |-> NoMessage]
    /\ Respond(service.request, "rejected")
    /\ UNCHANGED <<given, publisher, disk, s3>>

\* The process ends at rest, or while it writes and before it answers.
Stop ==
    /\ service.at = "idle" /\ service' = Down
    /\ UNCHANGED <<file, answer, given, publisher, disk, s3, intakeFaults>>
ReceiverDies(extent) ==
    /\ service.at = "writing" /\ IntakeFault /\ Land(extent)
    /\ service' = Down
    /\ UNCHANGED <<answer, given, publisher, disk, s3>>

-----------------------------------------------------------------------------
\* The publisher: a oneshot unit, so at most one is running.

\* Slip: a snapshot on disk is taken to be current.
DeriveOnce ==
    /\ publisher.at = "idle" /\ Log!Readable(file) /\ disk.digest = <<>>
    /\ publisher' = [at |-> "renameSnapshot", chain |-> Log!Read(file)]
    /\ UNCHANGED <<file, service, answer, given, disk, s3, intakeFaults>>

\* The container reads the chain and derives the snapshot.  A chain that does
\* not verify, or whose last line is being written, makes it throw.
Derive ==
    /\ publisher.at = "idle" /\ Log!Readable(file)
    /\ publisher' = [at |-> "renameSnapshot", chain |-> Log!Read(file)]
    /\ UNCHANGED <<file, service, answer, given, disk, s3, intakeFaults>>

PublisherAt(step, next) ==
    /\ publisher.at = step
    /\ publisher' = IF next = "idle" THEN Resting ELSE [publisher EXCEPT !.at = next]
    /\ UNCHANGED <<file, service, answer, given, intakeFaults>>

RenameSnapshot ==
    /\ PublisherAt("renameSnapshot", "renameDigest")
    /\ disk' = [disk EXCEPT !.snapshot = publisher.chain] /\ UNCHANGED s3
RenameDigest ==
    /\ PublisherAt("renameDigest", "uploadSnapshot")
    /\ disk' = [disk EXCEPT !.digest = publisher.chain] /\ UNCHANGED s3

\* aws s3 cp of the snapshot, then of the digest.
UploadSnapshot ==
    /\ PublisherAt("uploadSnapshot", "uploadDigest")
    /\ s3' = [s3 EXCEPT !.snapshot = disk.snapshot] /\ UNCHANGED disk
UploadDigest ==
    /\ PublisherAt("uploadDigest", "idle")
    /\ s3' = [s3 EXCEPT !.digest = disk.digest] /\ UNCHANGED disk

\* A copy fails (set -e) or the unit is stopped.
Abandon ==
    /\ publisher.at # "idle" /\ IntakeFault
    /\ publisher' = Resting
    /\ UNCHANGED <<file, service, answer, given, disk, s3>>

-----------------------------------------------------------------------------
Deliver(m) == Repeat(m) \/ Write(m)
Finish ==
    \/ WriteWhole \/ FallShort
    \/ \E extent \in Log!Extent : Throw(extent) \/ ReceiverDies(extent)
Publish == Derive \/ RenameSnapshot \/ RenameDigest \/ UploadSnapshot \/ UploadDigest

IntakeNext ==
    \/ StartReceiver \/ Stop
    \/ \E m \in Message : RefuseMessage(m) \/ Deliver(m)
    \/ Finish
    \/ Publish \/ Abandon

IntakeSpec == IntakeInit /\ [][IntakeNext]_intakeVars

\* The Platform delivers a message again until it is answered with 200 or 409,
\* or the log is damaged.
KeepsDelivering(m) ==
    \/ []<>(~Log!Readable(file) \/ answer[m] \in {"stored", "conflict"})
    \/ []<><<Deliver(m)>>_intakeVars

\* systemd restarts the service (Restart=always) and runs the publisher every
\* hour; the process finishes the request it handles.
FairIntakeSpec ==
    /\ IntakeSpec
    /\ WF_intakeVars(StartReceiver) /\ WF_intakeVars(Finish) /\ WF_intakeVars(Publish)
    /\ \A m \in Sound : KeepsDelivering(m)

-----------------------------------------------------------------------------
IntakeTypeOK ==
    /\ file \in Log!Files
    /\ service \in [at : {"down", "idle", "writing"}, store : Seq(Event),
                    request : Sound \cup {NoMessage}]
    /\ answer \in [Message -> Response]
    /\ given \in [Message -> Event \cup {NoEvent}]
    /\ publisher \in [at : PublisherStep, chain : Seq(Event)]
    /\ disk \in Pair /\ s3 \in Pair
    /\ intakeFaults \in 0..MaxIntakeFaults

\* The chain a reader of the file gets.
Chain == Log!Read(file)
InChain(e, chain) == \E i \in DOMAIN chain : chain[i] = e

\* While the file can be read, nothing that the Platform was told is stored is
\* missing from it or says something else: not after a write that threw, was cut
\* by a death or fell short, and not when the process went on with a store that
\* no longer is the file.
AcknowledgedIsDurable ==
    Log!Readable(file) =>
        \A m \in Message : given[m] # NoEvent =>
            given[m].body = Body[m] /\ InChain(given[m], Chain)

\* Only a disturbed write damages the file, and a readable file has one event
\* per id.
UndisturbedIsReadable ==
    /\ intakeFaults = 0 => Log!Readable(file)
    /\ Log!Readable(file) =>
         \A i, j \in DOMAIN Chain :
             Names(Chain[i], Chain[j].kind, Chain[j].of) => i = j

\* A manifest says that its episode was known exactly when the episode stands
\* before it in the chain: a dataset compiler can rely on it after restarts.
KnownIsOrder ==
    Log!Readable(file) =>
        \A j \in DOMAIN Chain : Chain[j].kind = "manifest" =>
            (Chain[j].known <=>
                \E i \in 1..(j - 1) : Names(Chain[i], "episode", Chain[j].of))

\* Whatever was published is a prefix of the chain, S3 is never ahead of the
\* disk, and a digest is never newer than the snapshot beside it, wherever the
\* publisher was interrupted.
PublishedIsPrefix ==
    /\ Log!Readable(file) => IsPrefix(disk.snapshot, Chain)
    /\ IsPrefix(disk.digest, disk.snapshot)
    /\ IsPrefix(s3.snapshot, disk.snapshot)
    /\ IsPrefix(s3.digest, s3.snapshot)

\* The log of the intake and its copies: types, durability of what was
\* acknowledged, damage by disturbed writes only, the truth of
\* episodeKnownAtReceipt, and publications that are prefixes of the chain.
LogTellsTheTruth ==
    /\ IntakeTypeOK
    /\ AcknowledgedIsDurable /\ UndisturbedIsReadable /\ KnownIsOrder
    /\ PublishedIsPrefix

\* A manifest that is recorded as come before its episode conflicts with itself
\* once the episode is there: episodeKnownAtReceipt is compared like the rest.
OutrunByEpisode(m) ==
    \E i \in DOMAIN service.store :
        /\ Names(service.store[i], "manifest", EpisodeOf[m])
        /\ Kind[m] = "manifest" /\ service.store[i].body = Body[m]
        /\ ~service.store[i].known
        /\ HoldsEvent(service.store, "episode", EpisodeOf[m])

\* A message that was answered 200 is never answered with another event later,
\* across restarts and failures; and never 409, but for a manifest that its
\* episode outran.
RedeliveryIsStable ==
    [][\A m \in Message : given[m] # NoEvent =>
         /\ given'[m] = given[m]
         /\ answer'[m] = "conflict" /\ answer[m] # "conflict" => OutrunByEpisode(m)]_intakeVars

\* As the document and the tests say, a message that was answered 200 is a
\* duplicate when it comes again, a manifest before or after its episode: it is
\* not answered 409.  (docs/PLATFORM_EPISODE_INTAKE.md:35-37, :99)
AcceptedIsDuplicate ==
    [][\A m \in Message :
         given[m] # NoEvent /\ answer[m] = "stored" => answer'[m] # "conflict"]_intakeVars

\* What became of a sound message: its event is answered with 200 and published;
\* another body was recorded before it, which 409 says; or its own event is
\* recorded, but it was answered 400 and then outrun.
Accepted(m) == given[m] # NoEvent /\ InChain(given[m], s3.snapshot)
Contradicted(m) ==
    /\ answer[m] = "conflict"
    /\ LET chain == Chain
       IN  \E i \in DOMAIN chain :
              Names(chain[i], Kind[m], EpisodeOf[m]) /\ chain[i].body # Body[m]
Outrun(m) == answer[m] = "conflict" /\ given[m] = NoEvent /\ OutrunByEpisode(m)

DeliveryEnds(m) == Accepted(m) \/ Contradicted(m) \/ Outrun(m)

Untouched == \A m \in Message : answer[m] = "none"

\* Once a message was answered, every sound message is in the end accepted,
\* contradicted or outrun, unless a disturbed write has damaged the file; and
\* what was answered 200 stays so, but for a manifest that its episode outran.
DeliveredIsPublished ==
    /\ RedeliveryIsStable
    /\ []<>(Untouched \/ ~Log!Readable(file) \/ \A m \in Sound : DeliveryEnds(m))
=============================================================================
