------------------------ MODULE PlatformIntakeProofs ------------------------
(***************************************************************************)
(* TLAPS proofs about the intake of Platform messages and the publisher of *)
(* its snapshot, for any messages and any number of failed, short or cut   *)
(* writes: a readable log tells the truth about what was acknowledged, and *)
(* what is published is a beginning of it.                                 *)
(***************************************************************************)
EXTENDS PlatformIntake, SequenceTheorems, TLAPS

-----------------------------------------------------------------------------
\* Prefixes, element by element.
LEMMA PrefixIs ==
    ASSUME NEW S, NEW s \in Seq(S), NEW t \in Seq(S)
    PROVE  IsPrefix(s, t) <=> /\ Len(s) <= Len(t)
                              /\ \A i \in 1 .. Len(s) : s[i] = t[i]
<1>1. Len(s) \in Nat /\ Len(t) \in Nat
    BY LenProperties
<1>2. SubSeq(s, 1, Len(s)) = s
    BY SubSeqFull
<1>3. ASSUME Len(s) <= Len(t)
      PROVE  /\ SubSeq(t, 1, Len(s)) \in Seq(S)
             /\ Len(SubSeq(t, 1, Len(s))) = Len(s)
             /\ \A i \in 1 .. Len(s) : SubSeq(t, 1, Len(s))[i] = t[i]
    <2>1. \A i \in 1 .. Len(s) : t[i] \in S
        BY <1>1, <1>3, ElementOfSeq
    <2> QED
        BY <1>1, <2>1, SubSeqProperties
<1>4. ASSUME Len(s) <= Len(t), \A i \in 1 .. Len(s) : s[i] = t[i]
      PROVE  s = SubSeq(t, 1, Len(s))
    BY <1>3, <1>4, SeqEqual
<1> QED
    BY <1>2, <1>3, <1>4 DEF IsPrefix

LEMMA PrefixReflexive ==
    ASSUME NEW S, NEW s \in Seq(S)
    PROVE  IsPrefix(s, s)
<1>1. Len(s) \in Nat
    BY LenProperties
<1> QED
    BY <1>1, PrefixIs

LEMMA PrefixTransitive ==
    ASSUME NEW S, NEW s \in Seq(S), NEW t \in Seq(S), NEW u \in Seq(S),
           IsPrefix(s, t), IsPrefix(t, u)
    PROVE  IsPrefix(s, u)
<1>1. Len(s) \in Nat /\ Len(t) \in Nat /\ Len(u) \in Nat
    BY LenProperties
<1>2. /\ Len(s) <= Len(t) /\ \A i \in 1 .. Len(s) : s[i] = t[i]
      /\ Len(t) <= Len(u) /\ \A i \in 1 .. Len(t) : t[i] = u[i]
    BY PrefixIs
<1>3. Len(s) <= Len(u) /\ \A i \in 1 .. Len(s) : s[i] = u[i]
    BY <1>1, <1>2
<1> QED
    BY <1>3, PrefixIs

LEMMA PrefixAppend ==
    ASSUME NEW S, NEW s \in Seq(S), NEW e \in S
    PROVE  IsPrefix(s, Append(s, e))
<1> DEFINE t == Append(s, e)
<1>1. /\ Len(s) \in Nat /\ t \in Seq(S) /\ Len(t) = Len(s) + 1
      /\ \A i \in 1 .. Len(s) : s[i] = t[i]
    BY LenProperties, AppendProperties
<1> HIDE DEF t
<1>2. IsPrefix(s, t)
    BY <1>1, PrefixIs
<1> QED
    BY <1>2 DEF t

\* A prefix of the same length is the sequence.
LEMMA PrefixWhole ==
    ASSUME NEW S, NEW s \in Seq(S), NEW t \in Seq(S), IsPrefix(s, t), Len(s) = Len(t)
    PROVE  s = t
BY PrefixIs, SeqEqual

-----------------------------------------------------------------------------
\* The inductive invariant.

\* One event per id, and a manifest knows of the episodes before it alone.
Truthful(chain) ==
    /\ \A i, j \in DOMAIN chain : Names(chain[i], chain[j].kind, chain[j].of) => i = j
    /\ \A j \in DOMAIN chain : chain[j].kind = "manifest" =>
          (chain[j].known <=> \E i \in 1 .. (j - 1) : Names(chain[i], "episode", chain[j].of))

\* Every 200 named the event of its message, and the chain holds it.
Acknowledged(chain) ==
    \A m \in Message : given[m] # NoEvent =>
        /\ Names(given[m], Kind[m], EpisodeOf[m])
        /\ given[m].body = Body[m]
        /\ given[m].kind = "episode" => ~given[m].known
        /\ InChain(given[m], chain)

\* A file that nothing disturbed, and the last line of any file.
FileFits ==
    /\ ~file.ended => file.lines # <<>>
    /\ intakeFaults = 0 =>
          /\ Log!Readable(file) /\ file.ended
          /\ service.at # "down" => service.store = Chain
    /\ Log!Readable(file) => Truthful(Chain) /\ Acknowledged(Chain)

\* The events a process has in memory, whatever became of the file.
ServiceFits ==
    service.at # "down" =>
        /\ Truthful(service.store)
        /\ Acknowledged(service.store)
        /\ Log!Readable(file) => IsPrefix(service.store, Chain)
        /\ service.at = "writing" =>
              /\ service.request \in Sound
              /\ ~HoldsEvent(service.store, Kind[service.request], EpisodeOf[service.request])

\* How far the publisher is, and what it has replaced.
PublisherFits ==
    /\ Log!Readable(file) => IsPrefix(disk.snapshot, Chain)
    /\ publisher.at # "idle" /\ Log!Readable(file) => IsPrefix(publisher.chain, Chain)
    /\ publisher.at = "renameSnapshot" => IsPrefix(disk.snapshot, publisher.chain)
    /\ publisher.at = "renameDigest" => disk.snapshot = publisher.chain
    /\ publisher.at \in {"uploadSnapshot", "uploadDigest"} => disk.digest = disk.snapshot
    /\ publisher.at = "uploadDigest" => s3.snapshot = disk.snapshot
    /\ IsPrefix(disk.digest, disk.snapshot)
    /\ IsPrefix(s3.snapshot, disk.snapshot)
    /\ IsPrefix(s3.digest, s3.snapshot)

IInv == IntakeTypeOK /\ FileFits /\ ServiceFits /\ PublisherFits

-----------------------------------------------------------------------------
\* The log.

\* The chain of a readable file is a sequence of events.
LEMMA ReadIsChain ==
    ASSUME NEW f \in Log!Files, Log!IsJson(f)
    PROVE  /\ Log!Read(f) \in Seq(Event)
           /\ Len(Log!Read(f)) = Len(f.lines)
           /\ Len(f.lines) \in Nat
           /\ \A i \in 1 .. Len(f.lines) : /\ f.lines[i] \in Log!Lines
                                           /\ Log!Read(f)[i] = f.lines[i].event
<1>1. f.lines \in Seq(Log!Lines \cup {TornLine})
    BY DEF Log!Files
<1>2. Len(f.lines) \in Nat /\ DOMAIN f.lines = 1 .. Len(f.lines)
    BY <1>1, LenProperties
<1>3. \A i \in 1 .. Len(f.lines) : f.lines[i] \in Log!Lines
    BY <1>1, <1>2, ElementOfSeq DEF Log!IsJson
<1>4. \A i \in 1 .. Len(f.lines) : f.lines[i].event \in Event
    BY <1>3 DEF Log!Lines
<1>5. Log!Read(f) \in [1 .. Len(f.lines) -> Event]
    BY <1>2, <1>4 DEF Log!Read
<1>6. Log!Read(f) \in Seq(Event) /\ Len(Log!Read(f)) = Len(f.lines)
    BY <1>2, <1>5, SeqDef
<1> QED
    BY <1>2, <1>3, <1>6 DEF Log!Read

\* A process writes lines.
LEMMA LineIsLine ==
    ASSUME NEW events \in Seq(Event), NEW e \in Event
    PROVE  /\ Log!LineFor(events, e) \in Log!Lines
           /\ Log!LineFor(events, e) # TornLine
           /\ Log!LineFor(events, e).seq = Len(events) + 1
           /\ Log!LineFor(events, e).event = e
           /\ Log!LineFor(events, e).prev
                 = IF events = <<>> THEN NoEvent ELSE events[Len(events)]
<1>1. Len(events) \in Nat /\ (events # <<>> => Len(events) \in 1 .. Len(events))
    BY LenProperties, EmptySeq
<1>2. events # <<>> => events[Len(events)] \in Event
    BY <1>1, ElementOfSeq
<1>3. Log!HeadOf(events) \in Event \cup {NoEvent}
    BY <1>2 DEF Log!HeadOf, Log!Last
<1>4. Log!LineFor(events, e) \in Log!Lines
    BY <1>1, <1>3 DEF Log!LineFor, Log!Lines
<1> QED
    BY <1>4, SentinelAssumption DEF Log!LineFor, Log!HeadOf, Log!Last

\* Bytes added to a file of whole lines, or after a line without its newline.
LEMMA PutIsFile ==
    ASSUME NEW f \in Log!Files, ~f.ended => f.lines # <<>>,
           NEW x \in Log!Lines \cup {TornLine}, NEW ended \in BOOLEAN
    PROVE  /\ Log!Put(f, x, ended) \in Log!Files
           /\ Log!Put(f, x, ended).lines # <<>>
           /\ Log!Put(f, x, ended).ended = ended
           /\ ~f.ended => ~Log!IsJson(Log!Put(f, x, ended))
           /\ f.ended => Log!Put(f, x, ended).lines = Append(f.lines, x)
<1>1. f.lines \in Seq(Log!Lines \cup {TornLine}) /\ f.ended \in BOOLEAN
    BY DEF Log!Files
<1>2. Len(f.lines) \in Nat /\ (~f.ended => Len(f.lines) \in 1 .. Len(f.lines))
    BY <1>1, LenProperties, EmptySeq
<1>3. CASE f.ended
    <2>1. \A S : \A s \in Seq(S), e \in S : Append(s, e) \in Seq(S) /\ Append(s, e) # <<>>
        BY AppendProperties
    <2>2. Append(f.lines, x) \in Seq(Log!Lines \cup {TornLine}) /\ Append(f.lines, x) # <<>>
        BY <1>1, <2>1
    <2> QED
        BY <1>3, <2>2 DEF Log!Put, Log!Files
<1>4. CASE ~f.ended
    <2> DEFINE torn == [f.lines EXCEPT ![Len(f.lines)] = TornLine]
    <2>1. torn \in Seq(Log!Lines \cup {TornLine}) /\ Len(torn) = Len(f.lines)
        BY <1>1, <1>2, <1>4, ExceptSeq
    <2>2. torn[Len(f.lines)] = TornLine
        BY <1>1, <1>2, <1>4, ExceptSeq
    <2>3. torn # <<>> /\ DOMAIN torn = 1 .. Len(f.lines)
        BY <1>2, <1>4, <2>1, EmptySeq, LenProperties
    <2> HIDE DEF torn
    <2>4. Log!Put(f, x, ended) = [lines |-> torn, ended |-> ended]
        BY <1>4 DEF Log!Put, torn
    <2> QED
        BY <1>2, <1>4, <2>1, <2>2, <2>3, <2>4 DEF Log!Files, Log!IsJson
<1> QED
    BY <1>3, <1>4

\* What can be read after a write could be read before it, and the write left
\* the file alone or added one line with the next number.
LEMMA WrittenIsReadable ==
    ASSUME NEW f \in Log!Files, ~f.ended => f.lines # <<>>,
           NEW line \in Log!Lines, NEW extent \in Log!Extent,
           Log!Readable(Log!Written(f, line, extent))
    PROVE  /\ Log!Readable(f)
           /\ \/ extent = "none" /\ Log!Written(f, line, extent) = f
              \/ /\ extent \in {"unended", "whole"}
                 /\ line.seq = Len(f.lines) + 1
                 /\ Log!Read(Log!Written(f, line, extent)) = Append(Log!Read(f), line.event)
<1> DEFINE g == Log!Written(f, line, extent)
<1>1. CASE extent = "none"
    BY <1>1 DEF Log!Written
<1>2. CASE extent # "none"
    <2>1. PICK x \in Log!Lines \cup {TornLine}, ended \in BOOLEAN :
              /\ g = Log!Put(f, x, ended)
              /\ (x = line /\ extent \in {"unended", "whole"}) \/ (x = TornLine /\ extent = "part")
        BY <1>2 DEF Log!Written, Log!Extent
    <2> HIDE DEF g
    <2>2. Log!IsJson(g)
        BY DEF Log!Readable, g
    <2>3. f.ended /\ g \in Log!Files /\ g.lines = Append(f.lines, x)
        BY <2>1, <2>2, PutIsFile
    <2>4. f.lines \in Seq(Log!Lines \cup {TornLine})
        BY DEF Log!Files
    <2>5. /\ Len(f.lines) \in Nat /\ DOMAIN f.lines = 1 .. Len(f.lines)
          /\ DOMAIN g.lines = 1 .. Len(f.lines) + 1
          /\ \A i \in 1 .. Len(f.lines) : g.lines[i] = f.lines[i]
          /\ g.lines[Len(f.lines) + 1] = x
        BY <2>3, <2>4, LenProperties, AppendProperties
    <2>6. x = line /\ extent \in {"unended", "whole"}
        BY <2>1, <2>2, <2>5 DEF Log!IsJson
    <2>7. Log!IsJson(f)
        BY <2>2, <2>5 DEF Log!IsJson
    <2>8. Log!Readable(g)
        BY DEF g
    <2>9. Log!Readable(f)
        <3> SUFFICES ASSUME NEW i \in 1 .. Len(f.lines)
                     PROVE  /\ f.lines[i].seq = i
                            /\ f.lines[i].prev = IF i = 1 THEN NoEvent ELSE f.lines[i - 1].event
            BY <2>5, <2>7 DEF Log!Readable
        <3>1. i \in DOMAIN g.lines /\ (i # 1 => i - 1 \in 1 .. Len(f.lines))
            BY <2>5
        <3> QED
            BY <2>5, <2>8, <3>1 DEF Log!Readable
    <2>10. line.seq = Len(f.lines) + 1
        BY <2>5, <2>6, <2>8 DEF Log!Readable
    <2>11. Log!Read(g) = Append(Log!Read(f), line.event)
        <3>1. /\ Log!Read(f) \in Seq(Event) /\ Len(Log!Read(f)) = Len(f.lines)
              /\ \A i \in 1 .. Len(f.lines) : Log!Read(f)[i] = f.lines[i].event
            BY <2>7, ReadIsChain
        <3>2. /\ Log!Read(g) \in Seq(Event) /\ Len(Log!Read(g)) = Len(f.lines) + 1
              /\ \A i \in 1 .. Len(f.lines) + 1 : Log!Read(g)[i] = g.lines[i].event
            <4>1. Len(g.lines) = Len(f.lines) + 1
                BY <2>3, <2>4, AppendProperties
            <4> QED
                BY <2>2, <2>3, <4>1, ReadIsChain
        <3>3. line.event \in Event
            BY DEF Log!Lines
        <3>4. /\ Append(Log!Read(f), line.event) \in Seq(Event)
              /\ Len(Append(Log!Read(f), line.event)) = Len(f.lines) + 1
              /\ \A i \in 1 .. Len(f.lines) :
                     Append(Log!Read(f), line.event)[i] = f.lines[i].event
              /\ Append(Log!Read(f), line.event)[Len(f.lines) + 1] = line.event
            BY <3>1, <3>3, AppendProperties
        <3>5. \A i \in 1 .. Len(f.lines) + 1 :
                  Log!Read(g)[i] = Append(Log!Read(f), line.event)[i]
            BY <2>5, <2>6, <3>2, <3>4
        <3> QED
            BY <3>2, <3>4, <3>5, SeqEqual
    <2> QED
        BY <2>6, <2>9, <2>10, <2>11 DEF g
<1> QED
    BY <1>1, <1>2

\* A line for the chain of a readable file extends it.
LEMMA NextLineIsReadable ==
    ASSUME NEW f \in Log!Files, Log!Readable(f), f.ended, NEW e \in Event
    PROVE  Log!Readable(Log!Written(f, Log!LineFor(Log!Read(f), e), "whole"))
<1> DEFINE line == Log!LineFor(Log!Read(f), e)
           g == Log!Put(f, line, TRUE)
           n == Len(f.lines)
<1>1. /\ Log!Read(f) \in Seq(Event) /\ Len(Log!Read(f)) = n /\ n \in Nat
      /\ \A i \in 1 .. n : Log!Read(f)[i] = f.lines[i].event
    BY ReadIsChain DEF Log!Readable
<1>2. /\ line \in Log!Lines /\ line # TornLine /\ line.seq = n + 1
      /\ line.prev = IF n = 0 THEN NoEvent ELSE f.lines[n].event
    <2>1. Log!Read(f) = <<>> <=> n = 0
        BY <1>1, EmptySeq
    <2>2. n # 0 => Log!Read(f)[n] = f.lines[n].event
        BY <1>1
    <2> QED
        BY <1>1, <2>1, <2>2, LineIsLine
<1> HIDE DEF line
<1>3. g.lines = Append(f.lines, line)
    BY <1>2, PutIsFile
<1>4. f.lines \in Seq(Log!Lines \cup {TornLine})
    BY DEF Log!Files
<1>5. /\ DOMAIN f.lines = 1 .. n
      /\ DOMAIN g.lines = 1 .. n + 1
      /\ \A i \in 1 .. n : g.lines[i] = f.lines[i]
      /\ g.lines[n + 1] = line
    <2>1. DOMAIN f.lines = 1 .. n
        BY <1>4, LenProperties
    <2>2. /\ Append(f.lines, line) \in Seq(Log!Lines \cup {TornLine})
          /\ Len(Append(f.lines, line)) = n + 1
          /\ \A i \in 1 .. n : Append(f.lines, line)[i] = f.lines[i]
          /\ Append(f.lines, line)[n + 1] = line
        BY <1>2, <1>4, AppendProperties
    <2>3. DOMAIN Append(f.lines, line) = 1 .. n + 1
        BY <2>2, LenProperties
    <2> QED
        BY <1>3, <2>1, <2>2, <2>3
<1> HIDE DEF g
<1>6. Log!IsJson(g)
    BY <1>1, <1>2, <1>5 DEF Log!IsJson, Log!Readable
<1>7. ASSUME NEW i \in 1 .. n + 1
      PROVE  /\ g.lines[i].seq = i
             /\ g.lines[i].prev = IF i = 1 THEN NoEvent ELSE g.lines[i - 1].event
    <2>1. CASE i = n + 1
        <3>1. n # 0 => n \in 1 .. n
            BY <1>1
        <3> QED
            BY <1>1, <1>2, <1>5, <2>1, <3>1
    <2>2. CASE i # n + 1
        <3>1. i \in 1 .. n /\ (i # 1 => i - 1 \in 1 .. n)
            BY <1>1, <2>2
        <3> QED
            BY <1>5, <3>1 DEF Log!Readable
    <2> QED
        BY <2>1, <2>2
<1>8. Log!Readable(g)
    BY <1>5, <1>6, <1>7 DEF Log!Readable
<1> QED
    BY <1>8 DEF Log!Written, g, line

-----------------------------------------------------------------------------
\* Chains of events.

\* What the intake proposes for a message is its event.
LEMMA ProposalIsEvent ==
    ASSUME NEW m \in Message, NEW store
    PROVE  /\ Proposal(m, store) \in Event
           /\ Names(Proposal(m, store), Kind[m], EpisodeOf[m])
           /\ Proposal(m, store).body = Body[m]
           /\ Proposal(m, store).kind = "episode" => ~Proposal(m, store).known
           /\ Proposal(m, store).kind = "manifest" =>
                 (Proposal(m, store).known <=> HoldsEvent(store, "episode", EpisodeOf[m]))
<1>1. Kind[m] \in {"episode", "manifest"}
    BY IntakeAssumption
<1>2. HoldsEvent(store, "episode", EpisodeOf[m]) \in BOOLEAN
    BY DEF HoldsEvent
<1> QED
    BY <1>1, <1>2 DEF Proposal, Event, Names

\* What get returns is in the store, under the id that was asked for.
LEMMA HeldIsThere ==
    ASSUME NEW store \in Seq(Event), NEW kind, NEW episode, HoldsEvent(store, kind, episode)
    PROVE  /\ Held(store, kind, episode) \in Event
           /\ InChain(Held(store, kind, episode), store)
           /\ Names(Held(store, kind, episode), kind, episode)
<1> DEFINE i == CHOOSE k \in DOMAIN store : Names(store[k], kind, episode)
<1>1. i \in DOMAIN store /\ Names(store[i], kind, episode)
    BY DEF HoldsEvent
<1>2. store[i] \in Event
    BY <1>1, LenProperties, ElementOfSeq
<1> QED
    BY <1>1, <1>2 DEF Held, InChain

\* An event with a new id, proposed for what the chain holds.
LEMMA TruthfulGrows ==
    ASSUME NEW store \in Seq(Event), Truthful(store), NEW m \in Message,
           ~HoldsEvent(store, Kind[m], EpisodeOf[m])
    PROVE  Truthful(Append(store, Proposal(m, store)))
<1> DEFINE e == Proposal(m, store)
           longer == Append(store, e)
           n == Len(store)
<1>1. e \in Event /\ Names(e, Kind[m], EpisodeOf[m])
      /\ (e.kind = "manifest" => (e.known <=> HoldsEvent(store, "episode", EpisodeOf[m])))
    BY ProposalIsEvent
<1> HIDE DEF e
<1>2. /\ n \in Nat /\ DOMAIN store = 1 .. n
      /\ longer \in Seq(Event) /\ Len(longer) = n + 1
      /\ \A i \in 1 .. n : longer[i] = store[i]
      /\ longer[n + 1] = e
    BY <1>1, LenProperties, AppendProperties
<1>3. DOMAIN longer = 1 .. n + 1
    BY <1>2, LenProperties
<1> HIDE DEF longer
<1>4. ASSUME NEW i \in 1 .. n + 1, NEW j \in 1 .. n + 1,
             Names(longer[i], longer[j].kind, longer[j].of)
      PROVE  i = j
    <2>1. CASE i \in 1 .. n /\ j \in 1 .. n
        BY <1>2, <1>4, <2>1 DEF Truthful
    <2>2. CASE i \in 1 .. n /\ j = n + 1
        BY <1>1, <1>2, <1>4, <2>2 DEF HoldsEvent, Names
    <2>3. CASE i = n + 1 /\ j \in 1 .. n
        BY <1>1, <1>2, <1>4, <2>3 DEF HoldsEvent, Names
    <2> QED
        BY <1>2, <2>1, <2>2, <2>3
<1>5. ASSUME NEW j \in 1 .. n + 1, longer[j].kind = "manifest"
      PROVE  longer[j].known <=> \E i \in 1 .. (j - 1) : Names(longer[i], "episode", longer[j].of)
    <2>1. CASE j \in 1 .. n
        <3>1. \A i \in 1 .. (j - 1) : longer[i] = store[i]
            BY <1>2, <2>1
        <3> QED
            BY <1>2, <1>5, <2>1, <3>1 DEF Truthful
    <2>2. CASE j = n + 1
        <3>1. (j - 1) = n
            BY <1>2, <2>2
        <3> QED
            BY <1>1, <1>2, <1>5, <2>2, <3>1 DEF HoldsEvent, Names
    <2> QED
        BY <1>2, <2>1, <2>2
<1>6. Truthful(longer)
    BY <1>3, <1>4, <1>5 DEF Truthful
<1> QED
    BY <1>6 DEF longer, e

\* What a chain holds its continuations hold.
LEMMA InLonger ==
    ASSUME NEW s \in Seq(Event), NEW t \in Seq(Event), IsPrefix(s, t), NEW e, InChain(e, s)
    PROVE  InChain(e, t)
<1>1. /\ Len(s) \in Nat /\ DOMAIN s = 1 .. Len(s)
      /\ Len(t) \in Nat /\ DOMAIN t = 1 .. Len(t)
      /\ Len(s) <= Len(t) /\ \A i \in 1 .. Len(s) : s[i] = t[i]
    BY LenProperties, PrefixIs
<1>2. PICK i \in 1 .. Len(s) : s[i] = e
    BY <1>1 DEF InChain
<1>3. i \in DOMAIN t /\ t[i] = e
    BY <1>1, <1>2
<1> QED
    BY <1>3 DEF InChain

LEMMA LastIsIn ==
    ASSUME NEW s \in Seq(Event), NEW e \in Event
    PROVE  InChain(e, Append(s, e))
<1>1. /\ Append(s, e) \in Seq(Event) /\ Len(Append(s, e)) = Len(s) + 1 /\ Len(s) \in Nat
      /\ Append(s, e)[Len(s) + 1] = e
    BY AppendProperties, LenProperties
<1>2. Len(s) + 1 \in DOMAIN Append(s, e)
    BY <1>1, LenProperties
<1> QED
    BY <1>1, <1>2 DEF InChain

LEMMA ChainIsChain ==
    ASSUME IntakeTypeOK, Log!Readable(file)
    PROVE  Chain \in Seq(Event)
BY ReadIsChain DEF IntakeTypeOK, Chain, Log!Readable

-----------------------------------------------------------------------------
\* What a write does to the log: the new chain, if it can be read, is the old
\* one, or the store of the writer was the old chain and its event follows.
LEMMA Landing ==
    ASSUME IInv, service.at = "writing", NEW extent \in Log!Extent, Land(extent)
    PROVE  /\ file' \in Log!Files
           /\ ~file'.ended => file'.lines # <<>>
           /\ service.store \in Seq(Event) /\ service.request \in Message
           /\ Pending \in Event
           /\ Truthful(Append(service.store, Pending))
           /\ Append(service.store, Pending) \in Seq(Event)
           /\ Log!Readable(file)' =>
                 /\ Log!Readable(file)
                 /\ Chain \in Seq(Event) /\ Chain' \in Seq(Event)
                 /\ IsPrefix(Chain, Chain')
                 /\ IsPrefix(service.store, Chain')
                 /\ Truthful(Chain')
                 /\ extent # "none" => Chain' = Append(service.store, Pending)
<1> DEFINE store == service.store
           line == Log!LineFor(store, Pending)
<1>1. store \in Seq(Event) /\ service.request \in Message /\ file \in Log!Files
    BY IntakeAssumption DEF IInv, IntakeTypeOK, ServiceFits
<1>2. Pending \in Event
    BY <1>1, ProposalIsEvent DEF Pending
<1>3. /\ line \in Log!Lines /\ line.seq = Len(store) + 1 /\ line.event = Pending
      /\ Len(store) \in Nat
    BY <1>1, <1>2, LineIsLine, LenProperties
<1>4. Truthful(Append(store, Pending))
    BY <1>1, TruthfulGrows DEF IInv, ServiceFits, Pending
<1>5. Append(store, Pending) \in Seq(Event) /\ IsPrefix(store, Append(store, Pending))
    BY <1>1, <1>2, AppendProperties, PrefixAppend
<1>6. file' = Log!Written(file, line, extent) /\ (~file.ended => file.lines # <<>>)
    BY DEF Land, IInv, FileFits
<1> HIDE DEF line
<1>7. file' \in Log!Files /\ (~file'.ended => file'.lines # <<>>)
    <2>1. CASE extent = "none"
        BY <1>1, <1>6, <2>1 DEF Log!Written
    <2>2. CASE extent # "none"
        <3>1. PICK x \in Log!Lines \cup {TornLine}, ended \in BOOLEAN :
                  file' = Log!Put(file, x, ended)
            BY <1>3, <1>6, <2>2 DEF Log!Written, Log!Extent
        <3>2. /\ Log!Put(file, x, ended) \in Log!Files
              /\ Log!Put(file, x, ended).lines # <<>>
            BY <1>1, <1>6, PutIsFile
        <3> QED
            BY <3>1, <3>2
    <2> QED
        BY <2>1, <2>2
<1>8. ASSUME Log!Readable(file)'
      PROVE  /\ Log!Readable(file)
             /\ Chain \in Seq(Event) /\ Chain' \in Seq(Event)
             /\ IsPrefix(Chain, Chain')
             /\ IsPrefix(service.store, Chain')
             /\ Truthful(Chain')
             /\ extent # "none" => Chain' = Append(service.store, Pending)
    <2>1. /\ Log!Readable(file)
          /\ \/ extent = "none" /\ file' = file
             \/ /\ line.seq = Len(file.lines) + 1
                /\ Log!Read(file') = Append(Log!Read(file), line.event)
        BY <1>1, <1>3, <1>6, <1>8, WrittenIsReadable
    <2>2. /\ Chain \in Seq(Event) /\ Len(Chain) = Len(file.lines) /\ Len(file.lines) \in Nat
          /\ Chain' \in Seq(Event)
        BY <1>1, <1>7, <1>8, <2>1, ReadIsChain DEF Chain, Log!Readable
    <2>3. IsPrefix(store, Chain) /\ Truthful(Chain)
        BY <2>1 DEF IInv, ServiceFits, FileFits
    <2>4. CASE extent = "none" /\ file' = file
        BY <2>1, <2>2, <2>3, <2>4, PrefixReflexive DEF Chain
    <2>5. CASE /\ line.seq = Len(file.lines) + 1
               /\ Log!Read(file') = Append(Log!Read(file), line.event)
        <3>1. Len(store) = Len(Chain)
            BY <1>3, <2>2, <2>5
        <3>2. store = Chain
            BY <1>1, <2>2, <2>3, <3>1, PrefixWhole
        <3>3. Chain' = Append(store, Pending)
            BY <1>3, <2>5, <3>2 DEF Chain
        <3> QED
            BY <1>4, <1>5, <2>1, <2>2, <3>2, <3>3
    <2> QED
        BY <2>1, <2>4, <2>5
<1> QED
    BY <1>1, <1>2, <1>4, <1>5, <1>7, <1>8

\* What is published stays a prefix of a chain that grows.
LEMMA PublisherStays ==
    ASSUME IInv, UNCHANGED <<publisher, disk, s3>>,
           Log!Readable(file)' => /\ Log!Readable(file)
                                  /\ Chain \in Seq(Event) /\ Chain' \in Seq(Event)
                                  /\ IsPrefix(Chain, Chain')
    PROVE  PublisherFits'
<1>1. disk.snapshot \in Seq(Event) /\ publisher.chain \in Seq(Event)
    BY DEF IInv, IntakeTypeOK, Pair
<1>2. Log!Readable(file)' => /\ IsPrefix(disk.snapshot, Chain')
                             /\ publisher.at # "idle" => IsPrefix(publisher.chain, Chain')
    BY <1>1, PrefixTransitive DEF IInv, PublisherFits
<1> QED
    BY <1>2 DEF IInv, PublisherFits

\* The file alone is as it was.
LEMMA FileStays ==
    ASSUME IntakeTypeOK, UNCHANGED file
    PROVE  Log!Readable(file)' => /\ Log!Readable(file)
                                  /\ Chain \in Seq(Event) /\ Chain' \in Seq(Event)
                                  /\ IsPrefix(Chain, Chain') /\ Chain' = Chain
<1>1. Chain' = Chain
    BY DEF Chain
<1> QED
    BY <1>1, ChainIsChain, PrefixReflexive

-----------------------------------------------------------------------------
\* The invariant holds in the beginning.
LEMMA InitFits == IntakeInit => IInv
<1> SUFFICES ASSUME IntakeInit PROVE IInv
    OBVIOUS
<1>1. \A S : <<>> \in Seq(S) /\ Len(<<>>) = 0
    BY EmptySeq
<1>2. file \in Log!Files /\ file.lines = <<>> /\ file.ended
    BY <1>1 DEF IntakeInit, Log!EmptyFile, Log!Files
<1>3. Log!Readable(file) /\ DOMAIN file.lines = {}
    BY <1>2 DEF Log!Readable, Log!IsJson
<1>4. Chain = <<>>
    BY <1>2, <1>3, <1>1, ReadIsChain, EmptySeq DEF Chain, Log!Readable
<1>5. IntakeTypeOK
    <2>1. /\ answer \in [Message -> Response]
          /\ given \in [Message -> Event \cup {NoEvent}]
        BY DEF IntakeInit, Response
    <2>2. /\ service \in [at : {"down", "idle", "writing"}, store : Seq(Event),
                          request : Sound \cup {NoMessage}]
          /\ publisher \in [at : PublisherStep, chain : Seq(Event)]
          /\ disk \in Pair /\ s3 \in Pair
        BY <1>1 DEF IntakeInit, Down, Resting, NothingPublished, PublisherStep, Pair
    <2>3. intakeFaults \in 0..MaxIntakeFaults
        BY IntakeAssumption DEF IntakeInit
    <2> QED
        BY <1>2, <2>1, <2>2, <2>3 DEF IntakeTypeOK
<1>6. FileFits
    BY <1>2, <1>3, <1>4, <1>1 DEF IntakeInit, Down, FileFits, Truthful, Acknowledged
<1>7. ServiceFits
    BY DEF IntakeInit, Down, ServiceFits
<1>8. PublisherFits
    <2>1. IsPrefix(<<>>, <<>>)
        BY <1>1, PrefixReflexive
    <2> QED
        BY <1>4, <2>1 DEF IntakeInit, Resting, NothingPublished, PublisherFits
<1> QED
    BY <1>5, <1>6, <1>7, <1>8 DEF IInv

-----------------------------------------------------------------------------
\* Steps of the service that leave the file alone.

\* A start reads the file, so the store is the chain.
LEMMA StartKeeps ==
    ASSUME IInv, StartReceiver
    PROVE  IInv'
<1>1. IntakeTypeOK /\ Log!Readable(file) /\ Chain \in Seq(Event)
    BY ChainIsChain DEF IInv, StartReceiver
<1>2. service' = [at |-> "idle", store |-> Chain, request |-> NoMessage]
    BY DEF StartReceiver, Chain
<1>3. IntakeTypeOK'
    BY <1>1, <1>2 DEF StartReceiver, IntakeTypeOK
<1>4. FileFits'
    BY <1>2 DEF IInv, FileFits, StartReceiver, Chain, Acknowledged
<1>5. ServiceFits'
    BY <1>1, <1>2, PrefixReflexive
       DEF IInv, FileFits, ServiceFits, StartReceiver, Chain, Acknowledged
<1>6. PublisherFits'
    BY <1>1, FileStays, PublisherStays DEF StartReceiver
<1> QED
    BY <1>3, <1>4, <1>5, <1>6 DEF IInv

LEMMA StopKeeps ==
    ASSUME IInv, Stop
    PROVE  IInv'
<1>1. IntakeTypeOK /\ <<>> \in Seq(Event)
    BY EmptySeq DEF IInv
<1>2. IntakeTypeOK'
    BY <1>1 DEF Stop, Down, IntakeTypeOK
<1>3. FileFits' /\ ServiceFits'
    BY DEF IInv, FileFits, ServiceFits, Stop, Down, Chain, Acknowledged
<1>4. PublisherFits'
    BY <1>1, FileStays, PublisherStays DEF Stop
<1> QED
    BY <1>2, <1>3, <1>4 DEF IInv

LEMMA RefuseKeeps ==
    ASSUME IInv, NEW m \in Message, RefuseMessage(m)
    PROVE  IInv'
<1>1. IntakeTypeOK
    BY DEF IInv
<1>2. IntakeTypeOK'
    BY <1>1 DEF RefuseMessage, Respond, Response, IntakeTypeOK
<1>3. FileFits' /\ ServiceFits'
    BY DEF IInv, FileFits, ServiceFits, RefuseMessage, Chain, Acknowledged
<1>4. PublisherFits'
    BY <1>1, FileStays, PublisherStays DEF RefuseMessage
<1> QED
    BY <1>2, <1>3, <1>4 DEF IInv

LEMMA WriteKeeps ==
    ASSUME IInv, NEW m \in Message, Write(m)
    PROVE  IInv'
<1>1. IntakeTypeOK
    BY DEF IInv
<1>2. IntakeTypeOK' /\ service'.store = service.store /\ service'.request = m
    BY <1>1 DEF Write, IntakeTypeOK
<1>3. FileFits' /\ ServiceFits'
    BY <1>2 DEF IInv, FileFits, ServiceFits, Write, Chain, Acknowledged
<1>4. PublisherFits'
    BY <1>1, FileStays, PublisherStays DEF Write
<1> QED
    BY <1>2, <1>3, <1>4 DEF IInv

\* What a repeated message finds is its own event, which store and chain
\* hold; if the file cannot be read, the store alone.
LEMMA RepeatKeeps ==
    ASSUME IInv, NEW m \in Message, Repeat(m)
    PROVE  IInv'
<1> DEFINE held == Held(service.store, Kind[m], EpisodeOf[m])
<1>1. IntakeTypeOK /\ service.store \in Seq(Event) /\ service.at = "idle"
    BY DEF IInv, IntakeTypeOK, Repeat
<1>2. held \in Event /\ InChain(held, service.store)
    BY <1>1, HeldIsThere DEF Repeat
<1> HIDE DEF held
<1>3. CASE held = Proposal(m, service.store)
    <2>1. given' = [given EXCEPT ![m] = held] /\ answer' = [answer EXCEPT ![m] = "stored"]
        BY <1>3 DEF Repeat, Respond, held
    <2>2. /\ Names(held, Kind[m], EpisodeOf[m]) /\ held.body = Body[m]
          /\ (held.kind = "episode" => ~held.known)
        BY <1>3, ProposalIsEvent
    <2>3. IntakeTypeOK'
        BY <1>1, <1>2, <2>1 DEF Repeat, Response, IntakeTypeOK
    <2>4. Acknowledged(service.store)'
        BY <1>1, <1>2, <2>1, <2>2 DEF IInv, ServiceFits, IntakeTypeOK, Acknowledged, Repeat
    <2>5. Log!Readable(file) => Acknowledged(Chain)'
        <3>1. SUFFICES ASSUME Log!Readable(file) PROVE Acknowledged(Chain)'
            OBVIOUS
        <3>2. InChain(held, Chain)
            BY <1>1, <1>2, <3>1, ChainIsChain, InLonger DEF IInv, ServiceFits
        <3> QED
            BY <1>1, <2>1, <2>2, <3>1, <3>2
               DEF IInv, FileFits, IntakeTypeOK, Acknowledged, Repeat, Chain
    <2>6. FileFits' /\ ServiceFits'
        BY <2>4, <2>5 DEF IInv, FileFits, ServiceFits, Repeat, Chain
    <2> QED
        BY <1>1, <2>3, <2>6, FileStays, PublisherStays DEF IInv, Repeat
<1>4. CASE held # Proposal(m, service.store)
    <2>1. UNCHANGED given /\ answer' = [answer EXCEPT ![m] = "conflict"]
        BY <1>4 DEF Repeat, Respond, held
    <2>2. IntakeTypeOK'
        BY <1>1, <2>1 DEF Repeat, Response, IntakeTypeOK
    <2>3. FileFits' /\ ServiceFits'
        BY <2>1 DEF IInv, FileFits, ServiceFits, Repeat, Chain, Acknowledged
    <2> QED
        BY <1>1, <2>2, <2>3, FileStays, PublisherStays DEF IInv, Repeat
<1> QED
    BY <1>3, <1>4

-----------------------------------------------------------------------------
\* The end of a write.

\* writeSync returned, however much of the line is there: the store has the
\* event, and a file that can be read is the store.
LEMMA StoredKeeps ==
    ASSUME IInv, NEW extent \in {"part", "unended", "whole"}, Stored(extent),
           intakeFaults' \in 0..MaxIntakeFaults,
           intakeFaults' = 0 => intakeFaults = 0 /\ extent = "whole"
    PROVE  IInv'
<1> DEFINE store == service.store
           m == service.request
           longer == Append(store, Pending)
<1>1. IntakeTypeOK /\ service.at = "writing" /\ extent \in Log!Extent /\ Land(extent)
    BY DEF IInv, Stored, Log!Extent
<1>2. /\ file' \in Log!Files /\ (~file'.ended => file'.lines # <<>>)
      /\ store \in Seq(Event) /\ m \in Message /\ Pending \in Event
      /\ Truthful(longer) /\ longer \in Seq(Event)
      /\ Log!Readable(file)' => /\ Log!Readable(file)
                                /\ Chain \in Seq(Event) /\ Chain' \in Seq(Event)
                                /\ IsPrefix(Chain, Chain')
                                /\ Truthful(Chain')
                                /\ Chain' = longer
    BY <1>1, Landing
<1>3. /\ service' = [at |-> "idle", store |-> longer, request |-> NoMessage]
      /\ given' = [given EXCEPT ![m] = Pending]
      /\ answer' = [answer EXCEPT ![m] = "stored"]
    BY DEF Stored, Respond
<1>4. /\ Names(Pending, Kind[m], EpisodeOf[m]) /\ Pending.body = Body[m]
      /\ (Pending.kind = "episode" => ~Pending.known)
    BY <1>2, ProposalIsEvent DEF Pending
<1>5. InChain(Pending, longer)
    BY <1>2, LastIsIn
<1>6. \A e : InChain(e, store) => InChain(e, longer)
    BY <1>2, PrefixAppend, InLonger
<1>7. intakeFaults' = 0 => Log!Readable(file)' /\ file'.ended
    <2> SUFFICES ASSUME intakeFaults' = 0 PROVE Log!Readable(file)' /\ file'.ended
        OBVIOUS
    <2>1. Log!Readable(file) /\ file.ended /\ store = Log!Read(file) /\ extent = "whole"
        BY <1>1 DEF IInv, FileFits, Chain
    <2>2. file' = Log!Written(file, Log!LineFor(Log!Read(file), Pending), "whole")
        BY <1>1, <2>1 DEF Land
    <2>3. file'.ended
        BY <2>2 DEF Log!Written, Log!Put
    <2> QED
        BY <1>1, <1>2, <2>1, <2>2, <2>3, NextLineIsReadable DEF IntakeTypeOK
<1> HIDE DEF longer
<1>8. IntakeTypeOK'
    BY <1>1, <1>2, <1>3 DEF Stored, Response, IntakeTypeOK
<1>9. \A n \in Message : given'[n] # NoEvent =>
          /\ Names(given'[n], Kind[n], EpisodeOf[n])
          /\ given'[n].body = Body[n]
          /\ given'[n].kind = "episode" => ~given'[n].known
          /\ InChain(given'[n], longer)
    BY <1>1, <1>2, <1>3, <1>4, <1>5, <1>6 DEF IInv, ServiceFits, IntakeTypeOK, Acknowledged
<1>10. FileFits'
    <2>1. Log!Readable(file)' => Acknowledged(Chain)'
        <3>1. Log!Readable(file)' => Chain' = longer
            BY <1>2 DEF longer
        <3> QED
            BY <1>9, <3>1 DEF Acknowledged
    <2> QED
        BY <1>2, <1>3, <1>7, <2>1 DEF FileFits
<1>11. ServiceFits'
    <2>1. Log!Readable(file)' => IsPrefix(longer, Chain')
        BY <1>2, PrefixReflexive DEF longer
    <2>2. Acknowledged(service.store)'
        <3>1. service'.store = longer
            BY <1>3
        <3> QED
            BY <1>9, <3>1 DEF Acknowledged
    <2> QED
        BY <1>2, <1>3, <2>1, <2>2 DEF ServiceFits, longer
<1>12. PublisherFits'
    BY <1>2, PublisherStays DEF Stored
<1> QED
    BY <1>8, <1>10, <1>11, <1>12 DEF IInv

\* The acknowledged events of a readable chain are in what it becomes.
LEMMA AcknowledgedStays ==
    ASSUME IInv, UNCHANGED given, NEW extent \in Log!Extent, service.at = "writing",
           Land(extent), Log!Readable(file)'
    PROVE  Acknowledged(Chain)'
<1>1. /\ Log!Readable(file) /\ Chain \in Seq(Event) /\ Chain' \in Seq(Event)
      /\ IsPrefix(Chain, Chain')
    BY Landing
<1>2. \A e : InChain(e, Chain) => InChain(e, Chain')
    BY <1>1, InLonger
<1> QED
    BY <1>1, <1>2 DEF IInv, FileFits, Acknowledged

\* The write threw: the process goes on with the store it had.
LEMMA ThrowKeeps ==
    ASSUME IInv, NEW extent \in Log!Extent, Throw(extent)
    PROVE  IInv'
<1>1. IntakeTypeOK /\ service.at = "writing" /\ Land(extent) /\ MaxIntakeFaults \in Nat
    BY IntakeAssumption DEF IInv, Throw
<1>2. /\ file' \in Log!Files /\ (~file'.ended => file'.lines # <<>>)
      /\ service.request \in Message
      /\ Log!Readable(file)' => /\ Log!Readable(file)
                                /\ Chain \in Seq(Event) /\ Chain' \in Seq(Event)
                                /\ IsPrefix(Chain, Chain')
                                /\ IsPrefix(service.store, Chain')
                                /\ Truthful(Chain')
    BY <1>1, Landing
<1>3. /\ service' = [at |-> "idle", store |-> service.store, request |-> NoMessage]
      /\ intakeFaults' \in 0..MaxIntakeFaults /\ intakeFaults' # 0
      /\ UNCHANGED given
    BY <1>1 DEF Throw, KeepOnThrow, IntakeFault, IntakeTypeOK
<1>4. IntakeTypeOK'
    BY <1>1, <1>2, <1>3 DEF Throw, Respond, Response, IntakeTypeOK
<1>5. FileFits'
    BY <1>1, <1>2, <1>3, AcknowledgedStays DEF FileFits
<1>6. ServiceFits'
    BY <1>1, <1>2, <1>3 DEF IInv, ServiceFits, Acknowledged
<1>7. PublisherFits'
    BY <1>2, PublisherStays DEF Throw
<1> QED
    BY <1>4, <1>5, <1>6, <1>7 DEF IInv

LEMMA DieKeeps ==
    ASSUME IInv, NEW extent \in Log!Extent, ReceiverDies(extent)
    PROVE  IInv'
<1>1. /\ IntakeTypeOK /\ service.at = "writing" /\ Land(extent)
      /\ MaxIntakeFaults \in Nat /\ <<>> \in Seq(Event)
    BY IntakeAssumption, EmptySeq DEF IInv, ReceiverDies
<1>2. /\ file' \in Log!Files /\ (~file'.ended => file'.lines # <<>>)
      /\ Log!Readable(file)' => /\ Log!Readable(file)
                                /\ Chain \in Seq(Event) /\ Chain' \in Seq(Event)
                                /\ IsPrefix(Chain, Chain')
                                /\ Truthful(Chain')
    BY <1>1, Landing
<1>3. /\ service' = Down /\ UNCHANGED given
      /\ intakeFaults' \in 0..MaxIntakeFaults /\ intakeFaults' # 0
    BY <1>1 DEF ReceiverDies, IntakeFault, IntakeTypeOK
<1>4. IntakeTypeOK'
    BY <1>1, <1>2, <1>3 DEF ReceiverDies, Down, IntakeTypeOK
<1>5. FileFits'
    BY <1>1, <1>2, <1>3, AcknowledgedStays DEF FileFits
<1>6. ServiceFits'
    BY <1>3 DEF Down, ServiceFits
<1>7. PublisherFits'
    BY <1>2, PublisherStays DEF ReceiverDies
<1> QED
    BY <1>4, <1>5, <1>6, <1>7 DEF IInv

LEMMA FinishKeeps ==
    ASSUME IInv, Finish
    PROVE  IInv'
<1>1. IntakeTypeOK /\ MaxIntakeFaults \in Nat
    BY IntakeAssumption DEF IInv
<1>2. CASE WriteWhole
    BY <1>1, <1>2, StoredKeeps DEF WriteWhole, IntakeTypeOK
<1>3. CASE FallShort
    <2>1. intakeFaults' \in 0..MaxIntakeFaults /\ intakeFaults' # 0
        BY <1>1, <1>3 DEF FallShort, IntakeFault, IntakeTypeOK
    <2> QED
        BY <1>3, <2>1, StoredKeeps DEF FallShort
<1> QED
    BY <1>2, <1>3, ThrowKeeps, DieKeeps DEF Finish

-----------------------------------------------------------------------------
\* Steps of the publisher.

\* The service and the log look the other way.
LEMMA PublishingStays ==
    ASSUME IInv, UNCHANGED <<file, service, given>>,
           intakeFaults' \in 0..MaxIntakeFaults, intakeFaults' = 0 => intakeFaults = 0
    PROVE  FileFits' /\ ServiceFits'
BY DEF IInv, FileFits, ServiceFits, Chain, Acknowledged

LEMMA DeriveKeeps ==
    ASSUME IInv, Derive
    PROVE  IInv'
<1>1. /\ IntakeTypeOK /\ Chain \in Seq(Event)
      /\ publisher' = [at |-> "renameSnapshot", chain |-> Chain]
    BY ChainIsChain DEF IInv, Derive, Chain
<1>2. IntakeTypeOK'
    BY <1>1 DEF Derive, IntakeTypeOK, PublisherStep
<1>3. PublisherFits'
    BY <1>1, PrefixReflexive DEF IInv, PublisherFits, Derive, Chain
<1> QED
    BY <1>1, <1>2, <1>3, PublishingStays DEF IInv, Derive, IntakeTypeOK

LEMMA RenamesKeep ==
    ASSUME IInv, RenameSnapshot \/ RenameDigest
    PROVE  IInv'
<1>1. IntakeTypeOK /\ disk \in Pair /\ s3 \in Pair /\ publisher.chain \in Seq(Event)
    BY DEF IInv, IntakeTypeOK
<1>2. IntakeTypeOK'
    BY <1>1 DEF RenameSnapshot, RenameDigest, PublisherAt, IntakeTypeOK, PublisherStep, Pair
<1>3. FileFits' /\ ServiceFits'
    BY <1>1, PublishingStays DEF RenameSnapshot, RenameDigest, PublisherAt, IntakeTypeOK
<1>4. CASE RenameSnapshot
    <2>1. IsPrefix(disk.snapshot, publisher.chain)
        BY <1>4 DEF IInv, PublisherFits, RenameSnapshot, PublisherAt
    <2>2. IsPrefix(disk.digest, publisher.chain) /\ IsPrefix(s3.snapshot, publisher.chain)
        BY <1>1, <2>1, PrefixTransitive DEF IInv, PublisherFits, Pair
    <2>3. /\ publisher'.at = "renameDigest" /\ publisher'.chain = publisher.chain
          /\ disk'.snapshot = publisher.chain /\ disk'.digest = disk.digest
          /\ UNCHANGED <<file, s3>> /\ publisher.at = "renameSnapshot"
        BY <1>1, <1>4 DEF RenameSnapshot, PublisherAt, IntakeTypeOK, Pair
    <2> QED
        BY <1>2, <1>3, <2>2, <2>3 DEF IInv, PublisherFits, Chain
<1>5. CASE RenameDigest
    <2>1. disk.snapshot = publisher.chain
        BY <1>5 DEF IInv, PublisherFits, RenameDigest, PublisherAt
    <2>2. /\ publisher'.at = "uploadSnapshot" /\ publisher'.chain = publisher.chain
          /\ disk'.digest = publisher.chain /\ disk'.snapshot = disk.snapshot
          /\ UNCHANGED <<file, s3>> /\ publisher.at = "renameDigest"
        BY <1>1, <1>5 DEF RenameDigest, PublisherAt, IntakeTypeOK, Pair
    <2> QED
        BY <1>1, <1>2, <1>3, <2>1, <2>2, PrefixReflexive DEF IInv, PublisherFits, Chain
<1> QED
    BY <1>4, <1>5

LEMMA UploadsKeep ==
    ASSUME IInv, UploadSnapshot \/ UploadDigest
    PROVE  IInv'
<1>1. IntakeTypeOK /\ disk \in Pair /\ s3 \in Pair /\ <<>> \in Seq(Event)
    BY EmptySeq DEF IInv, IntakeTypeOK
<1>2. IntakeTypeOK'
    <2>1. CASE UploadSnapshot
        BY <1>1, <2>1 DEF UploadSnapshot, PublisherAt, IntakeTypeOK, PublisherStep, Pair
    <2>2. CASE UploadDigest
        BY <1>1, <2>2 DEF UploadDigest, PublisherAt, Resting, IntakeTypeOK, PublisherStep, Pair
    <2> QED
        BY <2>1, <2>2
<1>3. FileFits' /\ ServiceFits'
    BY <1>1, PublishingStays DEF UploadSnapshot, UploadDigest, PublisherAt, IntakeTypeOK
<1>4. CASE UploadSnapshot
    <2>1. IsPrefix(s3.digest, disk.snapshot) /\ IsPrefix(disk.snapshot, disk.snapshot)
        BY <1>1, PrefixTransitive, PrefixReflexive DEF IInv, PublisherFits, Pair
    <2>2. /\ publisher'.at = "uploadDigest" /\ publisher'.chain = publisher.chain
          /\ s3'.snapshot = disk.snapshot /\ s3'.digest = s3.digest
          /\ UNCHANGED <<file, disk>> /\ publisher.at = "uploadSnapshot"
        BY <1>1, <1>4 DEF UploadSnapshot, PublisherAt, IntakeTypeOK, Pair
    <2> QED
        BY <1>2, <1>3, <2>1, <2>2 DEF IInv, PublisherFits, Chain
<1>5. CASE UploadDigest
    <2>1. disk.digest = s3.snapshot
        BY <1>5 DEF IInv, PublisherFits, UploadDigest, PublisherAt
    <2>2. IsPrefix(s3.snapshot, s3.snapshot)
        BY <1>1, PrefixReflexive DEF Pair
    <2>3. /\ publisher'.at = "idle"
          /\ s3'.digest = disk.digest /\ s3'.snapshot = s3.snapshot
          /\ UNCHANGED <<file, disk>>
        BY <1>1, <1>5 DEF UploadDigest, PublisherAt, Resting, IntakeTypeOK, Pair
    <2> QED
        BY <1>2, <1>3, <2>1, <2>2, <2>3 DEF IInv, PublisherFits, Chain
<1> QED
    BY <1>4, <1>5

LEMMA AbandonKeeps ==
    ASSUME IInv, Abandon
    PROVE  IInv'
<1>1. IntakeTypeOK /\ MaxIntakeFaults \in Nat /\ <<>> \in Seq(Event)
    BY IntakeAssumption, EmptySeq DEF IInv
<1>2. intakeFaults' \in 0..MaxIntakeFaults /\ intakeFaults' # 0
    BY <1>1 DEF Abandon, IntakeFault, IntakeTypeOK
<1>3. IntakeTypeOK'
    BY <1>1, <1>2 DEF Abandon, Resting, IntakeTypeOK, PublisherStep
<1>4. PublisherFits'
    BY DEF IInv, PublisherFits, Abandon, Resting, Chain
<1> QED
    BY <1>2, <1>3, <1>4, PublishingStays DEF IInv, Abandon

-----------------------------------------------------------------------------
\* Every step keeps the invariant.
LEMMA NextKeeps ==
    ASSUME IInv, [IntakeNext]_intakeVars
    PROVE  IInv'
<1>1. CASE UNCHANGED intakeVars
    BY <1>1 DEF intakeVars, IInv, IntakeTypeOK, FileFits, ServiceFits, PublisherFits, Chain,
                Acknowledged
<1> QED
    BY <1>1, StartKeeps, StopKeeps, RefuseKeeps, RepeatKeeps, WriteKeeps, FinishKeeps,
       DeriveKeeps, RenamesKeep, UploadsKeep, AbandonKeeps
       DEF IntakeNext, Deliver, Publish

LEMMA InvariantTells == IInv => LogTellsTheTruth
BY DEF IInv, FileFits, PublisherFits, Truthful, Acknowledged, LogTellsTheTruth,
       AcknowledgedIsDurable, UndisturbedIsReadable, KnownIsOrder, PublishedIsPrefix

\* FileEventStore, the receiver and the publisher: whatever writes fail, fall
\* short or are cut, a log that can be read holds all that was acknowledged,
\* once, in the order episodeKnownAtReceipt says; and every published snapshot
\* and digest is a beginning of it, the digest never ahead of its snapshot.
THEOREM IntakeTellsTheTruth == IntakeSpec => []LogTellsTheTruth
<1>1. IntakeSpec => []IInv
    BY InitFits, NextKeeps, PTL DEF IntakeSpec
<1> QED
    BY <1>1, InvariantTells, PTL

-----------------------------------------------------------------------------
\* Redelivery.

\* One event has an id, so get finds the event that was acknowledged.
LEMMA HeldIsTheOne ==
    ASSUME NEW store \in Seq(Event), Truthful(store), NEW e, NEW kind, NEW episode,
           InChain(e, store), Names(e, kind, episode)
    PROVE  HoldsEvent(store, kind, episode) /\ Held(store, kind, episode) = e
<1>1. HoldsEvent(store, kind, episode)
    BY DEF InChain, HoldsEvent
<1>2. InChain(Held(store, kind, episode), store) /\ Names(Held(store, kind, episode), kind, episode)
    BY <1>1, HeldIsThere
<1> QED
    BY <1>1, <1>2 DEF InChain, Truthful, Names

\* What the store holds for a message that was answered 200.
LEMMA GivenIsHeld ==
    ASSUME IInv, service.at # "down", NEW m \in Message, given[m] # NoEvent
    PROVE  /\ service.store \in Seq(Event)
           /\ HoldsEvent(service.store, Kind[m], EpisodeOf[m])
           /\ Held(service.store, Kind[m], EpisodeOf[m]) = given[m]
           /\ given[m].known => HoldsEvent(service.store, "episode", EpisodeOf[m])
<1>1. service.store \in Seq(Event) /\ given[m] \in Event
    BY DEF IInv, IntakeTypeOK
<1>2. /\ Truthful(service.store) /\ InChain(given[m], service.store)
      /\ Names(given[m], Kind[m], EpisodeOf[m])
      /\ (given[m].kind = "episode" => ~given[m].known)
    BY DEF IInv, ServiceFits, Acknowledged
<1>3. given[m].known => HoldsEvent(service.store, "episode", EpisodeOf[m])
    <2> SUFFICES ASSUME given[m].known PROVE HoldsEvent(service.store, "episode", EpisodeOf[m])
        OBVIOUS
    <2>1. given[m].kind = "manifest"
        BY <1>1, <1>2 DEF Event
    <2>2. PICK j \in DOMAIN service.store : service.store[j] = given[m]
        BY <1>2 DEF InChain
    <2>3. PICK i \in 1 .. (j - 1) : Names(service.store[i], "episode", given[m].of)
        BY <1>2, <2>1, <2>2 DEF Truthful
    <2>4. DOMAIN service.store = 1 .. Len(service.store) /\ Len(service.store) \in Nat
        BY <1>1, LenProperties
    <2>5. i \in DOMAIN service.store
        BY <2>2, <2>3, <2>4
    <2> QED
        BY <1>2, <2>3, <2>5 DEF HoldsEvent, Names
<1> QED
    BY <1>1, <1>2, <1>3, HeldIsTheOne

LEMMA StepIsStable ==
    ASSUME IInv, [IntakeNext]_intakeVars, NEW m \in Message, given[m] # NoEvent
    PROVE  /\ given'[m] = given[m]
           /\ answer'[m] = "conflict" /\ answer[m] # "conflict" => OutrunByEpisode(m)
<1> USE DEF Respond
<1>1. IntakeTypeOK
    BY DEF IInv
<1>2. ASSUME NEW n \in Message, Repeat(n)
      PROVE  /\ given'[m] = given[m]
             /\ answer'[m] = "conflict" /\ answer[m] # "conflict" => OutrunByEpisode(m)
    <2>1. CASE n # m
        BY <1>1, <1>2, <2>1 DEF Repeat, IntakeTypeOK
    <2>2. CASE n = m
        <3> DEFINE held == Held(service.store, Kind[m], EpisodeOf[m])
        <3>1. held = given[m] /\ given[m] \in Event
            BY <1>1, <1>2, GivenIsHeld DEF Repeat, IntakeTypeOK
        <3>2. held = Proposal(m, service.store) => given'[m] = given[m] /\ answer'[m] = "stored"
            BY <1>1, <1>2, <2>2, <3>1 DEF Repeat, IntakeTypeOK
        <3>3. ASSUME held # Proposal(m, service.store)
              PROVE  OutrunByEpisode(m) /\ given'[m] = given[m]
            <4>1. /\ Names(given[m], Kind[m], EpisodeOf[m]) /\ given[m].body = Body[m]
                  /\ (given[m].kind = "episode" => ~given[m].known)
                  /\ (given[m].known => HoldsEvent(service.store, "episode", EpisodeOf[m]))
                BY <1>2, GivenIsHeld DEF IInv, ServiceFits, Acknowledged, Repeat
            <4>2. given[m] # Proposal(m, service.store) /\ given'[m] = given[m]
                BY <1>2, <2>2, <3>1, <3>3 DEF Repeat
            <4>3. HoldsEvent(service.store, "episode", EpisodeOf[m]) \in BOOLEAN
                BY DEF HoldsEvent
            <4>4. ASSUME given[m].known = (Kind[m] = "manifest"
                                             /\ HoldsEvent(service.store, "episode", EpisodeOf[m]))
                  PROVE  FALSE
                BY <3>1, <4>1, <4>2, <4>4 DEF Event, Proposal, Names
            <4>5. /\ Kind[m] = "manifest" /\ ~given[m].known
                  /\ HoldsEvent(service.store, "episode", EpisodeOf[m])
                BY <3>1, <4>1, <4>3, <4>4, IntakeAssumption DEF Names, Event
            <4>6. PICK i \in DOMAIN service.store : service.store[i] = given[m]
                BY <1>2 DEF IInv, ServiceFits, Acknowledged, InChain, Repeat
            <4> QED
                BY <4>1, <4>2, <4>5, <4>6 DEF OutrunByEpisode, Names
        <3> QED
            BY <3>2, <3>3
    <2> QED
        BY <2>1, <2>2
<1>3. ASSUME NEW extent, Stored(extent)
      PROVE  given'[m] = given[m] /\ (answer'[m] = "conflict" => answer[m] = "conflict")
    <2>1. service.request # m
        BY <1>3, GivenIsHeld DEF IInv, ServiceFits, Stored
    <2> QED
        BY <1>1, <1>3, <2>1 DEF Stored, IntakeTypeOK
<1>4. ASSUME NEW extent, Throw(extent) \/ ReceiverDies(extent)
      PROVE  given'[m] = given[m] /\ (answer'[m] = "conflict" => answer[m] = "conflict")
    BY <1>1, <1>4 DEF Throw, ReceiverDies, IntakeTypeOK
<1>5. ASSUME NEW n \in Message, RefuseMessage(n) \/ Write(n)
      PROVE  given'[m] = given[m] /\ (answer'[m] = "conflict" => answer[m] = "conflict")
    BY <1>1, <1>5 DEF RefuseMessage, Write, IntakeTypeOK
<1>6. CASE Finish
    BY <1>3, <1>4, <1>6 DEF Finish, WriteWhole, FallShort
<1>7. CASE StartReceiver \/ Stop \/ Publish \/ Abandon \/ UNCHANGED intakeVars
    BY <1>7 DEF StartReceiver, Stop, Publish, Derive, RenameSnapshot, RenameDigest, UploadSnapshot,
                UploadDigest, PublisherAt, Abandon, intakeVars
<1> QED
    BY <1>2, <1>5, <1>6, <1>7 DEF IntakeNext, Deliver

\* appendIdempotent: a message that was answered 200 gets the same event ever
\* after, across failed writes and restarts; it conflicts only if it is a
\* manifest that came before its episode, once the episode is stored.
THEOREM RedeliveryStaysStable == IntakeSpec => RedeliveryIsStable
<1>1. IInv /\ [IntakeNext]_intakeVars =>
          [\A m \in Message : given[m] # NoEvent =>
             /\ given'[m] = given[m]
             /\ answer'[m] = "conflict" /\ answer[m] # "conflict" => OutrunByEpisode(m)]_intakeVars
    BY StepIsStable
<1>2. IntakeSpec => []IInv
    BY InitFits, NextKeeps, PTL DEF IntakeSpec
<1> QED
    BY <1>1, <1>2, PTL DEF IntakeSpec, RedeliveryIsStable
=============================================================================
