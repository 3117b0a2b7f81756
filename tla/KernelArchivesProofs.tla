------------------------- MODULE KernelArchivesProofs -------------------------
(***************************************************************************)
(* Proofs about KernelArchives for any missions, proposals, evidence,      *)
(* genes, admission ids and bounds.  The argument for incumbents is that   *)
(* memory and replay agree on a mission's incumbent, or memory has one     *)
(* that the log does not know (InStep): then no later mutation of it can   *)
(* be replayed, and the durable incumbent stays where it was.              *)
(***************************************************************************)
EXTENDS KernelArchives, SequenceTheorems, TLAPS

Leaf(v) == v[Len(v)]

\* Incumbents are of their mission.
OwnMission(a) ==
    \A m \in Mission : a.incumbent[m] # None => MissionOf[Leaf(a.incumbent[m])] = m

\* Versions have their parents, incumbents are versions, and a mission with a
\* version has an incumbent.
Whole(a) ==
    /\ None \notin a.versions
    /\ \A v \in a.versions : Len(v) > 1 => Parent(v) \in a.versions
    /\ \A m \in Mission : a.incumbent[m] \in a.versions \cup {None}
    /\ \A v \in a.versions : a.incumbent[MissionOf[Leaf(v)]] # None

\* A version that was promoted over its parent is not behind the incumbent.
Ahead(a) ==
    \A v \in a.versions :
        Len(v) > 1 /\ Judgement(Leaf(Parent(v)), Leaf(v)) = "objective-evidence-improved"
            => Len(a.incumbent[MissionOf[Leaf(v)]]) >= Len(v)

InStep ==
    \A m \in Mission :
        \/ archive.incumbent[m] = archived.incumbent[m]
        \/ archive.incumbent[m] \notin archived.versions \cup {None}

EvolutionInv ==
    OwnMission(archive) /\ OwnMission(archived) /\ Whole(archived) /\ Ahead(archived) /\ InStep

\* Ancestors are restored with a gene, and memory has no gene that is neither
\* restored nor known to be unwritten.
GenesInv ==
    /\ \A g \in pooled.genes : Parents[g] \subseteq pooled.genes
    /\ ~broken => pool.genes \subseteq pooled.genes \cup unwritten

\* What the log says is restored until a process goes astray.
Inherited ==
    ~astray =>
         /\ ~broken
         /\ archived.selections = evolutionLog.evaluated
         /\ pooled.outcomes = geneLog.outcomes

IInv ==
    /\ TypeOK
    /\ EvolutionInv
    /\ GenesInv
    /\ Inherited
    /\ RestartChangesNothing
    /\ AdmissionIsKept

-----------------------------------------------------------------------------
\* Sequences of proposals.

\* A first version.
LEMMA FirstVersion ==
    ASSUME NEW p \in Proposal
    PROVE  <<p>> \in Version /\ <<p>> # None /\ Len(<<p>>) = 1 /\ Leaf(<<p>>) = p
BY DEF Version, None, Leaf

\* A mutation of a version.
LEMMA MutationOf ==
    ASSUME NEW v \in Version, NEW p \in Proposal
    PROVE  /\ Append(v, p) \in Version
           /\ Append(v, p) # None
           /\ Len(Append(v, p)) = Len(v) + 1
           /\ Leaf(Append(v, p)) = p
           /\ Parent(Append(v, p)) = v
<1>1. /\ Append(v, p) \in Seq(Proposal)
      /\ Append(v, p) # <<>>
      /\ Len(Append(v, p)) = Len(v) + 1
      /\ \A i \in 1..Len(v) : Append(v, p)[i] = v[i]
      /\ Append(v, p)[Len(v) + 1] = p
    BY AppendProperties DEF Version
<1>2. Len(v) \in Nat /\ v = [i \in 1..Len(v) |-> v[i]]
    BY DEF Version
<1>3. Parent(Append(v, p)) = v
  <2>1. Len(Append(v, p)) - 1 = Len(v)
      BY <1>1, <1>2
  <2>2. SubSeq(Append(v, p), 1, Len(v)) = [i \in 1..Len(v) |-> Append(v, p)[i]]
      BY <1>1, <1>2
  <2> QED
      BY <1>1, <1>2, <2>1, <2>2 DEF Parent
<1> QED
    BY <1>1, <1>3 DEF Leaf, Version, None

\* The last proposal of a version.
LEMMA LeafOf ==
    ASSUME NEW v \in Version, v # None
    PROVE  Leaf(v) \in Proposal /\ MissionOf[Leaf(v)] \in Mission /\ Len(v) >= 1
<1>1. Len(v) \in Nat /\ Len(v) >= 1
    BY DEF Version, None
<1>2. v[Len(v)] \in Proposal
    BY <1>1 DEF Version
<1> QED
    BY <1>1, <1>2, CandidateAssumption DEF Leaf

\* The judgement is one of the four reasons.
LEMMA JudgementType ==
    ASSUME NEW p, NEW q
    PROVE  Judgement(p, q) \in Reason
BY DEF Judgement, Reason

\* A selection as consider makes it.
LEMMA SelectionType ==
    ASSUME NEW v \in Version, NEW p \in Proposal, NEW r \in Reason
    PROVE  LET s == [before |-> v, proposal |-> p, reason |-> r]
           IN  /\ s \in Selection
               /\ s.before = v /\ s.proposal = p /\ s.reason = r
               /\ Mutation(s) = Append(v, p)
BY DEF Selection, Mutation

-----------------------------------------------------------------------------
\* What an archive is after each operation.

LEMMA StartedFields ==
    ASSUME NEW a \in Archive, NEW p \in Proposal
    PROVE  /\ Started(a, p) \in Archive
           /\ Started(a, p).versions = a.versions \cup {<<p>>}
           /\ Started(a, p).selections = a.selections
           /\ Started(a, p).incumbent = [a.incumbent EXCEPT ![MissionOf[p]] = <<p>>]
BY FirstVersion, CandidateAssumption DEF Started, Archive

LEMMA SelectedFields ==
    ASSUME NEW a \in Archive, NEW s \in Selection
    PROVE  /\ Selected(a, s) \in Archive
           /\ Selected(a, s).versions = a.versions \cup {Mutation(s)}
           /\ Selected(a, s).selections = a.selections \cup {s}
           /\ Selected(a, s).incumbent =
                [a.incumbent EXCEPT ![MissionOf[s.proposal]] =
                    IF Promoted(s) THEN Mutation(s) ELSE a.incumbent[MissionOf[s.proposal]]]
<1>1. s.proposal \in Proposal /\ s.before \in Version
    BY DEF Selection
<1>2. Mutation(s) \in Version
    BY <1>1, MutationOf DEF Mutation
<1>3. MissionOf[s.proposal] \in Mission
    BY <1>1, CandidateAssumption
<1> QED
    BY <1>2, <1>3 DEF Selected, Archive

LEMMA RestoredFields ==
    ASSUME NEW a \in Archive, NEW s \in Selection
    PROVE  /\ Restored(a, s) \in Archive
           /\ Restored(a, s).versions = a.versions \cup {Mutation(s)}
           /\ Restored(a, s).selections = a.selections \cup {s}
           /\ Restored(a, s).incumbent =
                [a.incumbent EXCEPT ![MissionOf[s.proposal]] = After(s)]
<1>1. s.proposal \in Proposal /\ s.before \in Version
    BY DEF Selection
<1>2. Mutation(s) \in Version /\ After(s) \in Version
    BY <1>1, MutationOf DEF Mutation, After
<1>3. MissionOf[s.proposal] \in Mission
    BY <1>1, CandidateAssumption
<1> QED
    BY <1>2, <1>3 DEF Restored, Archive

-----------------------------------------------------------------------------
\* What each operation keeps of one archive.

OneArchive(a) == OwnMission(a) /\ Whole(a) /\ Ahead(a)

\* A first version for a mission without one.
LEMMA StartedKeeps ==
    ASSUME NEW a \in Archive, NEW p \in Proposal, OneArchive(a),
           a.incumbent[MissionOf[p]] = None
    PROVE  OneArchive(Started(a, p))
<1> DEFINE m == MissionOf[p]
           first == <<p>>
           b == Started(a, p)
<1>1. m \in Mission
    BY CandidateAssumption
<1>2. /\ b.versions = a.versions \cup {first}
      /\ b.incumbent = [a.incumbent EXCEPT ![m] = first]
    BY StartedFields
<1>3. a.incumbent \in [Mission -> Version] /\ a.versions \subseteq Version
    BY DEF Archive
<1>4. \A n \in Mission : b.incumbent[n] = IF n = m THEN first ELSE a.incumbent[n]
    BY <1>1, <1>2, <1>3
<1>5. /\ first # None /\ ~(Len(first) > 1) /\ Leaf(first) = p
    BY FirstVersion
<1> HIDE DEF first
<1>6. \A v \in a.versions : MissionOf[Leaf(v)] # m
    BY DEF OneArchive, Whole
<1>7. \A v \in a.versions : MissionOf[Leaf(v)] \in Mission
    BY <1>3, LeafOf DEF OneArchive, Whole
<1>8. OwnMission(b)
    BY <1>4, <1>5 DEF OneArchive, OwnMission
<1>9. Whole(b)
  <2>1. None \notin b.versions
      BY <1>2, <1>5 DEF OneArchive, Whole
  <2>2. \A v \in b.versions : Len(v) > 1 => Parent(v) \in b.versions
      BY <1>2, <1>5 DEF OneArchive, Whole
  <2>3. \A n \in Mission : b.incumbent[n] \in b.versions \cup {None}
      BY <1>2, <1>4 DEF OneArchive, Whole
  <2>4. \A v \in b.versions : b.incumbent[MissionOf[Leaf(v)]] # None
    <3> SUFFICES ASSUME NEW v \in b.versions
                 PROVE  b.incumbent[MissionOf[Leaf(v)]] # None
        OBVIOUS
    <3>1. CASE v = first
        BY <1>1, <1>4, <1>5, <3>1
    <3>2. CASE v \in a.versions
        BY <1>4, <1>6, <1>7, <3>2 DEF OneArchive, Whole
    <3> QED
        BY <1>2, <3>1, <3>2
  <2> QED
      BY <2>1, <2>2, <2>3, <2>4 DEF Whole
<1>10. Ahead(b)
  <2> SUFFICES ASSUME NEW v \in b.versions, Len(v) > 1,
                      Judgement(Leaf(Parent(v)), Leaf(v)) = "objective-evidence-improved"
               PROVE  Len(b.incumbent[MissionOf[Leaf(v)]]) >= Len(v)
      BY DEF Ahead
  <2>1. v \in a.versions
      BY <1>2, <1>5
  <2>2. Len(a.incumbent[MissionOf[Leaf(v)]]) >= Len(v)
      BY <2>1 DEF OneArchive, Ahead
  <2>3. b.incumbent[MissionOf[Leaf(v)]] = a.incumbent[MissionOf[Leaf(v)]]
      BY <1>4, <1>6, <1>7, <2>1
  <2> QED
      BY <2>2, <2>3
<1> QED
    BY <1>8, <1>9, <1>10 DEF OneArchive

\* The selection that consider makes from the incumbent of an archive.
Made(a, s) ==
    /\ s.before = a.incumbent[MissionOf[s.proposal]]
    /\ s.before # None
    /\ s.reason = Judgement(Leaf(s.before), s.proposal)

LEMMA RestoredKeeps ==
    ASSUME NEW a \in Archive, NEW s \in Selection, OneArchive(a), Made(a, s)
    PROVE  OneArchive(Restored(a, s))
<1> DEFINE m == MissionOf[s.proposal]
           b == Restored(a, s)
           v == Mutation(s)
<1>1. s.proposal \in Proposal /\ s.before \in Version /\ m \in Mission
    BY CandidateAssumption DEF Selection
<1>2. /\ v \in Version /\ v # None /\ Len(v) = Len(s.before) + 1
      /\ Leaf(v) = s.proposal /\ Parent(v) = s.before
    BY <1>1, MutationOf DEF Mutation
<1>3. /\ b.versions = a.versions \cup {v}
      /\ b.incumbent = [a.incumbent EXCEPT ![m] = After(s)]
    BY RestoredFields
<1>4. a.incumbent \in [Mission -> Version] /\ a.versions \subseteq Version
    BY DEF Archive
<1>5. \A n \in Mission : b.incumbent[n] = IF n = m THEN After(s) ELSE a.incumbent[n]
    BY <1>1, <1>3, <1>4
<1>6. \A w \in a.versions : MissionOf[Leaf(w)] \in Mission /\ Len(w) \in Nat
    BY <1>4, LeafOf DEF OneArchive, Whole, Version
<1>7. After(s) = v \/ After(s) = a.incumbent[m]
    BY DEF After, Made
<1>8. Len(s.before) \in Nat /\ Len(v) \in Nat
    BY <1>1, <1>2 DEF Version
<1>9. OwnMission(b)
    BY <1>1, <1>2, <1>5, <1>7 DEF OneArchive, OwnMission
<1>10. Whole(b)
  <2>1. s.before \in a.versions
      BY <1>1 DEF Made, OneArchive, Whole
  <2>2. None \notin b.versions
      BY <1>2, <1>3 DEF OneArchive, Whole
  <2>3. \A w \in b.versions : Len(w) > 1 => Parent(w) \in b.versions
      BY <1>2, <1>3, <2>1 DEF OneArchive, Whole
  <2>4. \A n \in Mission : b.incumbent[n] \in b.versions \cup {None}
      BY <1>3, <1>5, <1>7 DEF OneArchive, Whole
  <2>5. After(s) # None
      BY <1>2, <1>7 DEF Made
  <2>6. \A w \in b.versions : b.incumbent[MissionOf[Leaf(w)]] # None
      BY <1>1, <1>2, <1>3, <1>5, <1>6, <2>5 DEF OneArchive, Whole
  <2> QED
      BY <2>2, <2>3, <2>4, <2>6 DEF Whole
<1>11. Ahead(b)
  <2> SUFFICES ASSUME NEW w \in b.versions, Len(w) > 1,
                      Judgement(Leaf(Parent(w)), Leaf(w)) = "objective-evidence-improved"
               PROVE  Len(b.incumbent[MissionOf[Leaf(w)]]) >= Len(w)
      BY DEF Ahead
  <2>1. CASE w = v
      <3>1. Promoted(s)
          BY <1>2, <2>1 DEF Promoted, Made
      <3>2. b.incumbent[m] = v
          BY <1>1, <1>5, <3>1 DEF After
      <3> QED
          BY <1>2, <1>8, <2>1, <3>2
  <2>2. CASE w \in a.versions
      <3>1. Len(a.incumbent[MissionOf[Leaf(w)]]) >= Len(w)
          BY <2>2 DEF OneArchive, Ahead
      <3>2. CASE MissionOf[Leaf(w)] = m
          <4>1. Len(s.before) >= Len(w)
              BY <3>1, <3>2 DEF Made
          <4>2. After(s) = v \/ After(s) = s.before
              BY DEF After
          <4>3. Len(After(s)) >= Len(w)
              BY <1>2, <1>6, <1>8, <2>2, <4>1, <4>2
          <4> QED
              BY <1>1, <1>5, <3>2, <4>3
      <3>3. CASE MissionOf[Leaf(w)] # m
          BY <1>5, <1>6, <2>2, <3>1, <3>3
      <3> QED
          BY <3>2, <3>3
  <2> QED
      BY <1>3, <2>1, <2>2
<1> QED
    BY <1>9, <1>10, <1>11 DEF OneArchive

\* A mutation of a version that is not restored is not restored either, nor is
\* a promoted mutation of the incumbent.
LEMMA NewMutation ==
    ASSUME NEW a \in Archive, NEW s \in Selection, OneArchive(a),
           s.before # None,
           \/ s.before \notin a.versions
           \/ /\ s.before = a.incumbent[MissionOf[s.proposal]]
              /\ s.reason = Judgement(Leaf(s.before), s.proposal)
              /\ Promoted(s)
    PROVE  Mutation(s) \notin a.versions \cup {None}
<1>1. s.proposal \in Proposal /\ s.before \in Version
    BY DEF Selection
<1>2. /\ Mutation(s) # None /\ Len(Mutation(s)) = Len(s.before) + 1
      /\ Leaf(Mutation(s)) = s.proposal /\ Parent(Mutation(s)) = s.before
    BY <1>1, MutationOf DEF Mutation
<1>3. Len(s.before) \in Nat /\ Len(s.before) >= 1
    BY <1>1, LeafOf DEF Version
<1>4. SUFFICES ASSUME Mutation(s) \in a.versions
               PROVE  FALSE
    BY <1>2
<1>5. s.before \in a.versions
    BY <1>2, <1>3, <1>4 DEF OneArchive, Whole
<1>6. Len(a.incumbent[MissionOf[s.proposal]]) >= Len(Mutation(s))
    BY <1>2, <1>3, <1>4, <1>5 DEF OneArchive, Ahead, Promoted
<1> QED
    BY <1>2, <1>3, <1>5, <1>6

\* What memory keeps, which may be ahead of the log.
LEMMA StartedOwn ==
    ASSUME NEW a \in Archive, NEW p \in Proposal, OwnMission(a)
    PROVE  OwnMission(Started(a, p))
<1>1. Started(a, p).incumbent = [a.incumbent EXCEPT ![MissionOf[p]] = <<p>>]
    BY StartedFields
<1>2. a.incumbent \in [Mission -> Version] /\ Leaf(<<p>>) = p
    BY FirstVersion DEF Archive
<1> QED
    BY <1>1, <1>2 DEF OwnMission

LEMMA SelectedOwn ==
    ASSUME NEW a \in Archive, NEW s \in Selection, OwnMission(a)
    PROVE  OwnMission(Selected(a, s))
<1>1. Selected(a, s).incumbent =
        [a.incumbent EXCEPT ![MissionOf[s.proposal]] =
            IF Promoted(s) THEN Mutation(s) ELSE a.incumbent[MissionOf[s.proposal]]]
    BY SelectedFields
<1>2. Leaf(Mutation(s)) = s.proposal
    BY MutationOf DEF Mutation, Selection
<1>3. a.incumbent \in [Mission -> Version]
    BY DEF Archive
<1> QED
    BY <1>1, <1>2, <1>3 DEF OwnMission

\* Where memory and log agree on the incumbent, replay and consider do the same.
LEMMA ReplayRepeats ==
    ASSUME NEW a, NEW s, s.before = a.incumbent[MissionOf[s.proposal]]
    PROVE  Restored(a, s) = Selected(a, s)
BY DEF Restored, Selected, After

\* What a promotion was judged by.
LEMMA ImprovedBy ==
    ASSUME NEW p, NEW q, Judgement(q, p) = "objective-evidence-improved"
    PROVE  /\ Source[p] = Content[q]
           /\ ~Regressed(Evidence[q], Evidence[p])
           /\ Exceeds(Evidence[p].quality, Evidence[q].quality)
BY DEF Judgement

\* A promotion improves.
LEMMA PromotionImproves ==
    ASSUME NEW s \in Selection, Promoted(s),
           s.reason = Judgement(Leaf(s.before), s.proposal)
    PROVE  Improves(s.before, Mutation(s))
<1>1. s.proposal \in Proposal /\ s.before \in Version
    BY DEF Selection
<1>2. Leaf(Mutation(s)) = s.proposal /\ Parent(Mutation(s)) = s.before
    BY <1>1, MutationOf DEF Mutation
<1>3. Judgement(Leaf(s.before), s.proposal) = "objective-evidence-improved"
    BY DEF Promoted
<1>4. /\ Source[s.proposal] = Content[Leaf(s.before)]
      /\ ~Regressed(Evidence[Leaf(s.before)], Evidence[s.proposal])
      /\ Exceeds(Evidence[s.proposal].quality, Evidence[Leaf(s.before)].quality)
    BY <1>3, ImprovedBy
<1> QED
    BY <1>2, <1>4 DEF Improves, Leaf

-----------------------------------------------------------------------------
\* The steps of the candidate archive.

\* The incumbents of one archive after a step are those of before, or better.
NotWeaker(a, b) == \A m \in Mission : Replaced(a.incumbent[m], b.incumbent[m])

\* What a step does that the other archive does not notice.
EvolutionStep ==
    /\ EvolutionTypeOK' /\ StoreTypeOK' /\ EvolutionInv'
    /\ NotWeaker(archive, archive') /\ NotWeaker(archived, archived')
    /\ ~thrown' => ~thrown /\ ~broken' /\ archive' = archived'
    /\ ~astray' => ~astray /\ ~broken' /\ archived'.selections = evolutionLog'.evaluated
    /\ broken => broken'

LEMMA InitializeStep ==
    ASSUME IInv, NEW p \in Proposal, Initialize(p)
    PROVE  EvolutionStep
<1> DEFINE m == MissionOf[p]
           first == <<p>>
<1>1. /\ {archive, archived} \subseteq Archive /\ StoreTypeOK /\ m \in Mission
      /\ evolutionLog \in [initialized : SUBSET Version, evaluated : SUBSET Selection]
    BY CandidateAssumption DEF IInv, TypeOK, EvolutionTypeOK
<1>2. OwnMission(archive) /\ OneArchive(archived) /\ InStep
    BY DEF IInv, EvolutionInv, OneArchive
<1>3. /\ archive.incumbent[m] = None
      /\ archive' = Started(archive, p)
      /\ Started(archive, p).incumbent = [archive.incumbent EXCEPT ![m] = first]
    BY <1>1, StartedFields DEF Initialize
<1>4. archived.incumbent[m] = None
    BY <1>1, <1>2, <1>3 DEF InStep
<1>5. first \in Version /\ first # None /\ Leaf(first) = p
    BY FirstVersion
<1>6. archive.incumbent \in [Mission -> Version] /\ archived.incumbent \in [Mission -> Version]
    BY <1>1 DEF Archive
<1> HIDE DEF first
<1>7. archive' \in Archive /\ OwnMission(archive')
    BY <1>1, <1>2, <1>3, StartedFields, StartedOwn
<1>8. NotWeaker(archive, archive')
    BY <1>3, <1>6 DEF NotWeaker, Replaced
<1>9. CASE /\ evolutionLog' = [evolutionLog EXCEPT !.initialized = @ \cup {<<p>>}]
           /\ archived' = Started(archived, p)
           /\ Persists(TRUE)
  <2>1. /\ archived' \in Archive /\ OneArchive(archived')
        /\ archived'.versions = archived.versions \cup {first}
        /\ archived'.selections = archived.selections
        /\ archived'.incumbent = [archived.incumbent EXCEPT ![m] = first]
      BY <1>1, <1>2, <1>4, <1>9, StartedFields, StartedKeeps DEF first
  <2>2. /\ evolutionLog' \in [initialized : SUBSET Version, evaluated : SUBSET Selection]
        /\ evolutionLog'.evaluated = evolutionLog.evaluated
      BY <1>1, <1>5, <1>9 DEF first
  <2>3. InStep'
    <3> SUFFICES ASSUME NEW n \in Mission
                 PROVE  \/ archive'.incumbent[n] = archived'.incumbent[n]
                        \/ archive'.incumbent[n] \notin archived'.versions \cup {None}
        BY DEF InStep
    <3>1. CASE n = m
        BY <1>1, <1>3, <1>6, <2>1, <3>1
    <3>2. CASE n # m
      <4>1. /\ archive'.incumbent[n] = archive.incumbent[n]
            /\ archived'.incumbent[n] = archived.incumbent[n]
          BY <1>3, <1>6, <2>1, <3>2
      <4>2. archive.incumbent[n] # first
          BY <1>2, <1>5, <3>2 DEF OwnMission
      <4> QED
          BY <1>2, <2>1, <4>1, <4>2 DEF InStep
    <3> QED
        BY <3>1, <3>2
  <2>4. NotWeaker(archived, archived')
      BY <1>4, <1>6, <2>1 DEF NotWeaker, Replaced
  <2>5. StoreTypeOK' /\ thrown' = thrown /\ broken' = broken /\ astray' = (astray \/ thrown)
      BY <1>1, <1>9 DEF Persists, StoreTypeOK
  <2>6. ~thrown' => ~thrown /\ ~broken' /\ archive' = archived'
      BY <1>3, <1>9, <2>5 DEF IInv, RestartChangesNothing
  <2>7. ~astray' => ~astray /\ ~broken' /\ archived'.selections = evolutionLog'.evaluated
      BY <2>1, <2>2, <2>5 DEF IInv, Inherited
  <2> QED
      BY <1>7, <1>8, <2>1, <2>2, <2>3, <2>4, <2>5, <2>6, <2>7
      DEF EvolutionStep, EvolutionTypeOK, EvolutionInv, OneArchive
<1>10. CASE Throws(<<p>> \in evolutionLog.initialized) /\ UNCHANGED <<archived, evolutionLog>>
  <2>1. first \notin archived.versions
      BY <1>2, <1>4, <1>5 DEF OneArchive, Whole
  <2>2. InStep'
      BY <1>2, <1>3, <1>5, <1>6, <1>10, <2>1 DEF InStep
  <2>3. StoreTypeOK' /\ thrown' /\ broken' = broken /\ astray' = astray
      BY <1>1, <1>10, StoreAssumption DEF Throws, StoreTypeOK
  <2>4. NotWeaker(archived, archived')
      BY <1>10 DEF NotWeaker, Replaced
  <2>5. ~astray' => ~astray /\ ~broken' /\ archived'.selections = evolutionLog'.evaluated
      BY <1>10, <2>3 DEF IInv, Inherited
  <2> QED
      BY <1>1, <1>2, <1>7, <1>8, <1>10, <2>2, <2>3, <2>4, <2>5
      DEF EvolutionStep, EvolutionTypeOK, EvolutionInv, OneArchive
<1> QED
    BY <1>9, <1>10 DEF Initialize

LEMMA ConsiderStep ==
    ASSUME IInv, NEW p \in Proposal, Consider(p)
    PROVE  EvolutionStep
<1> DEFINE m == MissionOf[p]
           incumbent == archive.incumbent[m]
           s == [before |-> incumbent, proposal |-> p,
                 reason |-> Judgement(incumbent[Len(incumbent)], p)]
           appended == /\ evolutionLog' = [evolutionLog EXCEPT !.evaluated = @ \cup {s}]
                       /\ archived' = IF Restores(archived, s) THEN Restored(archived, s)
                                      ELSE archived
                       /\ Persists(Restores(archived, s))
           failed == Throws(s \in evolutionLog.evaluated) /\ UNCHANGED <<archived, evolutionLog>>
<1>1. /\ {archive, archived} \subseteq Archive /\ StoreTypeOK /\ m \in Mission
      /\ evolutionLog \in [initialized : SUBSET Version, evaluated : SUBSET Selection]
    BY CandidateAssumption DEF IInv, TypeOK, EvolutionTypeOK
<1>2. OwnMission(archive) /\ OneArchive(archived) /\ InStep
    BY DEF IInv, EvolutionInv, OneArchive
<1>3. archive.incumbent \in [Mission -> Version] /\ archived.incumbent \in [Mission -> Version]
    BY <1>1 DEF Archive
<1>4. /\ s \in Selection
      /\ s.before = archive.incumbent[m] /\ s.proposal = p
      /\ s.reason = Judgement(Leaf(s.before), s.proposal)
    BY <1>1, <1>3, JudgementType DEF Selection, Leaf
<1>5. s.before # None /\ archive' = Selected(archive, s) /\ (appended \/ failed)
    BY DEF Consider
<1> HIDE DEF s
<1>6. /\ Mutation(s) \in Version /\ Mutation(s) # None /\ Leaf(Mutation(s)) = p
    BY <1>1, <1>3, <1>4, MutationOf DEF Mutation
<1>7. /\ archive' \in Archive /\ OwnMission(archive')
      /\ archive'.incumbent = [archive.incumbent EXCEPT ![m] =
                                  IF Promoted(s) THEN Mutation(s) ELSE archive.incumbent[m]]
    BY <1>1, <1>2, <1>4, <1>5, SelectedFields, SelectedOwn
<1>8. /\ archive'.incumbent[m] = After(s)
      /\ \A n \in Mission : n # m => archive'.incumbent[n] = archive.incumbent[n]
    BY <1>1, <1>3, <1>4, <1>7 DEF After
<1>9. Promoted(s) => Improves(s.before, After(s))
    BY <1>4, PromotionImproves DEF After
<1>10. After(s) # s.before => Improves(s.before, After(s))
    BY <1>9 DEF After
<1>11. NotWeaker(archive, archive')
    BY <1>4, <1>8, <1>10 DEF NotWeaker, Replaced
<1>12. CASE Restores(archived, s) /\ appended
  <2>1. s.before = archived.incumbent[m]
      BY <1>1, <1>2, <1>4, <1>12 DEF InStep, Restores
  <2>2. Made(archived, s)
      BY <1>4, <1>5, <2>1 DEF Made
  <2>3. /\ archived' \in Archive /\ OneArchive(archived')
        /\ archived'.versions = archived.versions \cup {Mutation(s)}
        /\ archived'.selections = archived.selections \cup {s}
        /\ archived'.incumbent = [archived.incumbent EXCEPT ![m] = After(s)]
      BY <1>1, <1>2, <1>4, <1>12, <2>2, RestoredFields, RestoredKeeps
  <2>4. /\ archived'.incumbent[m] = After(s)
        /\ \A n \in Mission : n # m => archived'.incumbent[n] = archived.incumbent[n]
      BY <1>1, <1>3, <2>3
  <2>5. NotWeaker(archived, archived')
      BY <1>10, <2>1, <2>4 DEF NotWeaker, Replaced
  <2>6. InStep'
    <3> SUFFICES ASSUME NEW n \in Mission
                 PROVE  \/ archive'.incumbent[n] = archived'.incumbent[n]
                        \/ archive'.incumbent[n] \notin archived'.versions \cup {None}
        BY DEF InStep
    <3>1. CASE n = m
        BY <1>8, <2>4, <3>1
    <3>2. CASE n # m
      <4>1. archive.incumbent[n] # Mutation(s)
          BY <1>2, <1>6, <3>2 DEF OwnMission
      <4> QED
          BY <1>2, <1>8, <2>3, <2>4, <3>2, <4>1 DEF InStep
    <3> QED
        BY <3>1, <3>2
  <2>7. /\ evolutionLog' \in [initialized : SUBSET Version, evaluated : SUBSET Selection]
        /\ evolutionLog'.evaluated = evolutionLog.evaluated \cup {s}
      BY <1>1, <1>4, <1>12
  <2>8. StoreTypeOK' /\ thrown' = thrown /\ broken' = broken /\ astray' = (astray \/ thrown)
      BY <1>1, <1>12 DEF Persists, StoreTypeOK
  <2>9. ~thrown' => ~thrown /\ ~broken' /\ archive' = archived'
    <3>1. ~thrown => archive = archived /\ ~broken
        BY DEF IInv, RestartChangesNothing
    <3>2. Restored(archived, s) = Selected(archived, s)
        BY <1>4, <2>1, ReplayRepeats
    <3> QED
        BY <1>5, <1>12, <2>8, <3>1, <3>2
  <2>10. ~astray' => ~astray /\ ~broken' /\ archived'.selections = evolutionLog'.evaluated
      BY <2>3, <2>7, <2>8 DEF IInv, Inherited
  <2> QED
      BY <1>7, <1>11, <2>3, <2>5, <2>6, <2>7, <2>8, <2>9, <2>10
      DEF EvolutionStep, EvolutionTypeOK, EvolutionInv, OneArchive
<1>13. CASE ~(Restores(archived, s) /\ appended)
  <2>1. archived' = archived
      BY <1>5, <1>13
  <2>2. NotWeaker(archived, archived')
      BY <2>1 DEF NotWeaker, Replaced
  <2>3. Promoted(s) => Mutation(s) \notin archived.versions \cup {None}
      BY <1>1, <1>2, <1>4, <1>5, NewMutation DEF InStep
  <2>4. InStep'
    <3>1. After(s) = archive.incumbent[m] \/ After(s) \notin archived.versions \cup {None}
        BY <1>4, <2>3 DEF After
    <3> QED
        BY <1>2, <1>8, <2>1, <3>1 DEF InStep
  <2>5. evolutionLog' \in [initialized : SUBSET Version, evaluated : SUBSET Selection]
      BY <1>1, <1>4, <1>5
  <2>6. thrown'
    <3>1. CASE failed
        BY <3>1 DEF Throws
    <3>2. CASE appended
      <4>1. archive # archived
          BY <1>1, <1>2, <1>3, <1>4, <1>5, <1>13, <3>2 DEF Restores, OneArchive, Whole
      <4> QED
          BY <3>2, <4>1 DEF IInv, RestartChangesNothing, Persists
    <3> QED
        BY <1>5, <3>1, <3>2
  <2>7. StoreTypeOK' /\ (broken => broken')
    <3>1. CASE failed
        BY <1>1, <3>1, StoreAssumption DEF Throws, StoreTypeOK
    <3>2. CASE appended
        BY <1>1, <3>2 DEF Persists, StoreTypeOK
    <3> QED
        BY <1>5, <3>1, <3>2
  <2>8. ~astray' => ~astray /\ ~broken' /\ archived'.selections = evolutionLog'.evaluated
    <3>1. CASE failed
        BY <3>1 DEF Throws, IInv, Inherited
    <3>2. CASE appended
        BY <2>6, <3>2 DEF Persists
    <3> QED
        BY <1>5, <3>1, <3>2
  <2> QED
      BY <1>1, <1>2, <1>7, <1>11, <2>1, <2>2, <2>4, <2>5, <2>6, <2>7, <2>8
      DEF EvolutionStep, EvolutionTypeOK, EvolutionInv, OneArchive
<1> QED
    BY <1>12, <1>13

-----------------------------------------------------------------------------
\* The steps of the gene archive.

GenesStep ==
    /\ GenesTypeOK' /\ StoreTypeOK' /\ GenesInv' /\ AdmissionIsKept'
    /\ ~thrown' => ~thrown /\ ~broken' /\ pool' = pooled'
    /\ ~astray' => ~astray /\ ~broken' /\ pooled'.outcomes = geneLog'.outcomes

\* The pools after an admission and after a verdict.
LEMMA PoolFields ==
    ASSUME NEW a \in Pool
    PROVE  /\ \A g \in Gene : /\ Admitted(a, g) \in Pool
                              /\ Admitted(a, g).genes = a.genes \cup {g}
                              /\ Admitted(a, g).outcomes = a.outcomes
           /\ \A o \in Gene \X Verdict : /\ Recorded(a, o) \in Pool
                                         /\ Recorded(a, o).genes = a.genes
                                         /\ Recorded(a, o).outcomes = a.outcomes \cup {o}
BY DEF Admitted, Recorded, Pool

\* A gene that is in memory is not admitted again.
LEMMA AdmittedOnce ==
    ASSUME NEW a \in Pool, NEW g \in a.genes
    PROVE  Admitted(a, g) = a
<1>1. a.genes \cup {g} = a.genes
    OBVIOUS
<1> QED
    BY <1>1 DEF Admitted, Pool

LEMMA RegisterStep ==
    ASSUME IInv, NEW g \in Gene, Register(g)
    PROVE  GenesStep
<1> DEFINE known == /\ g \in pool.genes
                    /\ acknowledged' = acknowledged \cup ({g} \ unwritten)
                    /\ UNCHANGED <<pooled, geneLog, unwritten, store>>
           written == /\ g \notin pool.genes /\ Writes(g)
                      /\ acknowledged' = acknowledged \cup {g}
                      /\ UNCHANGED unwritten
           failed == /\ g \notin pool.genes /\ Throws(AdmissionId[g] \in geneLog.admitted)
                     /\ unwritten' = unwritten \cup {g}
                     /\ UNCHANGED <<pooled, geneLog, acknowledged>>
<1>1. /\ pool \in Pool /\ pooled \in Pool /\ StoreTypeOK
      /\ geneLog \in [admitted : SUBSET {AdmissionId[h] : h \in Gene},
                      outcomes : SUBSET (Gene \X Verdict)]
      /\ acknowledged \subseteq Gene /\ unwritten \subseteq Gene
    BY DEF IInv, TypeOK, GenesTypeOK
<1>2. /\ \A h \in pooled.genes : Parents[h] \subseteq pooled.genes
      /\ ~broken => pool.genes \subseteq pooled.genes \cup unwritten
      /\ ~broken => acknowledged \subseteq pooled.genes
      /\ ~thrown => ~broken /\ pool = pooled
      /\ ~astray => ~broken /\ pooled.outcomes = geneLog.outcomes
    BY DEF IInv, GenesInv, AdmissionIsKept, RestartChangesNothing, Inherited
<1>3. /\ pool' = Admitted(pool, g) /\ Parents[g] \subseteq pool.genes
      /\ pool' \in Pool /\ pool'.genes = pool.genes \cup {g}
    BY <1>1, PoolFields DEF Register
<1>4. CASE known
  <2>1. pool' = pool
      BY <1>1, <1>3, <1>4, AdmittedOnce
  <2>2. GenesTypeOK' /\ StoreTypeOK'
      BY <1>1, <1>3, <1>4 DEF GenesTypeOK, StoreTypeOK, store
  <2> QED
      BY <1>2, <1>4, <2>1, <2>2 DEF GenesStep, GenesInv, AdmissionIsKept, store
<1>5. CASE written
  <2> DEFINE accepted == Parents[g] \subseteq pooled.genes
  <2>1. /\ geneLog' \in [admitted : SUBSET {AdmissionId[h] : h \in Gene},
                         outcomes : SUBSET (Gene \X Verdict)]
        /\ geneLog'.outcomes = geneLog.outcomes
      BY <1>1, <1>5 DEF Writes
  <2>2. /\ pooled' \in Pool /\ pooled'.outcomes = pooled.outcomes
        /\ accepted => pooled'.genes = pooled.genes \cup {g}
        /\ ~accepted => pooled' = pooled
      BY <1>1, <1>5, PoolFields DEF Writes
  <2>3. /\ broken' = (broken \/ ~accepted) /\ thrown' = thrown
        /\ astray' = (astray \/ thrown) /\ faults' = faults
      BY <1>5 DEF Writes, Persists
  <2>4. GenesTypeOK' /\ StoreTypeOK'
      BY <1>1, <1>3, <1>5, <2>1, <2>2, <2>3 DEF GenesTypeOK, StoreTypeOK
  <2>5. GenesInv' /\ AdmissionIsKept'
      BY <1>2, <1>3, <1>5, <2>2, <2>3 DEF GenesInv, AdmissionIsKept
  <2>6. ~thrown' => ~thrown /\ ~broken' /\ pool' = pooled'
      BY <1>2, <1>3, <1>5, <2>3 DEF Writes
  <2> QED
      BY <1>2, <2>1, <2>2, <2>3, <2>4, <2>5, <2>6 DEF GenesStep
<1>6. CASE failed
  <2>1. thrown' /\ broken' = broken /\ astray' = astray
      BY <1>6 DEF Throws
  <2>2. GenesTypeOK' /\ StoreTypeOK'
      BY <1>1, <1>3, <1>6, StoreAssumption DEF Throws, GenesTypeOK, StoreTypeOK
  <2> QED
      BY <1>2, <1>3, <1>6, <2>1, <2>2 DEF GenesStep, GenesInv, AdmissionIsKept
<1> QED
    BY <1>4, <1>5, <1>6 DEF Register

LEMMA VerdictStep ==
    ASSUME IInv, NEW o \in Judged, RecordVerdict(o)
    PROVE  GenesStep
<1> DEFINE appended == /\ geneLog' = [geneLog EXCEPT !.outcomes = @ \cup {o}]
                       /\ pooled' = RestoredOutcome(pooled, o)
                       /\ Persists(TRUE)
           failed == Throws(o \in geneLog.outcomes) /\ UNCHANGED <<pooled, geneLog>>
<1>1. /\ pool \in Pool /\ pooled \in Pool /\ StoreTypeOK /\ o \in Gene \X Verdict
      /\ geneLog \in [admitted : SUBSET {AdmissionId[h] : h \in Gene},
                      outcomes : SUBSET (Gene \X Verdict)]
      /\ acknowledged \subseteq Gene /\ unwritten \subseteq Gene
    BY GeneAssumption DEF IInv, TypeOK, GenesTypeOK
<1>2. /\ \A h \in pooled.genes : Parents[h] \subseteq pooled.genes
      /\ ~broken => pool.genes \subseteq pooled.genes \cup unwritten
      /\ ~broken => acknowledged \subseteq pooled.genes
      /\ ~thrown => ~broken /\ pool = pooled
      /\ ~astray => ~broken /\ pooled.outcomes = geneLog.outcomes
    BY DEF IInv, GenesInv, AdmissionIsKept, RestartChangesNothing, Inherited
<1>3. /\ pool' = Recorded(pool, o) /\ o[1] \in pool.genes
      /\ pool' \in Pool /\ pool'.genes = pool.genes
      /\ acknowledged' = acknowledged /\ unwritten' = unwritten
    BY <1>1, PoolFields DEF RecordVerdict
<1>4. CASE appended
  <2>1. /\ geneLog' \in [admitted : SUBSET {AdmissionId[h] : h \in Gene},
                         outcomes : SUBSET (Gene \X Verdict)]
        /\ geneLog'.outcomes = geneLog.outcomes \cup {o}
      BY <1>1, <1>4
  <2>2. /\ pooled' \in Pool /\ pooled'.genes = pooled.genes
        /\ o[1] \in pooled.genes => /\ pooled' = Recorded(pooled, o)
                                    /\ pooled'.outcomes = pooled.outcomes \cup {o}
      BY <1>1, <1>4, PoolFields DEF RestoredOutcome
  <2>3. broken' = broken /\ thrown' = thrown /\ astray' = (astray \/ thrown) /\ faults' = faults
      BY <1>1, <1>4 DEF Persists, StoreTypeOK
  <2>4. GenesTypeOK' /\ StoreTypeOK'
      BY <1>1, <1>3, <2>1, <2>2, <2>3 DEF GenesTypeOK, StoreTypeOK
  <2>5. GenesInv' /\ AdmissionIsKept'
      BY <1>2, <1>3, <2>2, <2>3 DEF GenesInv, AdmissionIsKept
  <2>6. ~thrown' => ~thrown /\ ~broken' /\ pool' = pooled'
      BY <1>2, <1>3, <2>2, <2>3
  <2> QED
      BY <1>2, <1>3, <2>1, <2>2, <2>3, <2>4, <2>5, <2>6 DEF GenesStep
<1>5. CASE failed
  <2>1. thrown' /\ broken' = broken /\ astray' = astray
      BY <1>5 DEF Throws
  <2>2. GenesTypeOK' /\ StoreTypeOK'
      BY <1>1, <1>3, <1>5, StoreAssumption DEF Throws, GenesTypeOK, StoreTypeOK
  <2> QED
      BY <1>2, <1>3, <1>5, <2>1, <2>2 DEF GenesStep, GenesInv, AdmissionIsKept
<1> QED
    BY <1>4, <1>5 DEF RecordVerdict

-----------------------------------------------------------------------------
\* The archives together.

LEMMA InitIInv == Init => IInv
<1> SUFFICES ASSUME Init PROVE IInv
    OBVIOUS
<1>1. /\ archive = Empty /\ archived = Empty
      /\ evolutionLog = [initialized |-> {}, evaluated |-> {}]
      /\ pool = [genes |-> {}, outcomes |-> {}] /\ pooled = pool
      /\ geneLog = [admitted |-> {}, outcomes |-> {}]
      /\ acknowledged = {} /\ unwritten = {}
      /\ broken = FALSE /\ thrown = FALSE /\ astray = FALSE /\ faults = 0
    BY DEF Init, StoreInit, EvolutionInit, GenesInit
<1>2. Empty \in Archive
    BY DEF Empty, Archive, Version, None
<1>3. OwnMission(Empty) /\ OneArchive(Empty)
    BY DEF Empty, OwnMission, OneArchive, Whole, Ahead
<1>4. EvolutionTypeOK
    BY <1>1, <1>2 DEF EvolutionTypeOK
<1>5. GenesTypeOK /\ StoreTypeOK
  <2>1. pool \in Pool /\ pooled \in Pool
      BY <1>1 DEF Pool
  <2>2. geneLog \in [admitted : SUBSET {AdmissionId[g] : g \in Gene},
                    outcomes : SUBSET (Gene \X Verdict)]
      BY <1>1
  <2>3. StoreTypeOK
    <3>1. {broken, thrown, astray} \subseteq BOOLEAN
        BY <1>1
    <3>2. faults \in 0..MaxFaults
      <4>1. faults = 0
          BY <1>1
      <4> QED
          BY <4>1, StoreAssumption
    <3> QED
        BY <3>1, <3>2 DEF StoreTypeOK
  <2> QED
      BY <1>1, <2>1, <2>2, <2>3 DEF GenesTypeOK
<1>6. EvolutionInv
    BY <1>1, <1>3 DEF EvolutionInv, OneArchive, InStep
<1>7. GenesInv /\ AdmissionIsKept /\ RestartChangesNothing
    BY <1>1 DEF GenesInv, AdmissionIsKept, RestartChangesNothing
<1>8. Inherited
    BY <1>1 DEF Inherited, Empty
<1> QED
    BY <1>4, <1>5, <1>6, <1>7, <1>8 DEF IInv, TypeOK

\* The next process starts with what the log yields.
LEMMA RestartStep ==
    ASSUME IInv, Restart
    PROVE  IInv' /\ NotWeaker(archived, archived')
<1>1. /\ archive' = archived /\ archived' = archived /\ evolutionLog' = evolutionLog
      /\ pool' = pooled /\ pooled' = pooled /\ geneLog' = geneLog
      /\ acknowledged' = acknowledged /\ unwritten' = {}
      /\ ~broken /\ broken' = broken /\ thrown' = FALSE /\ astray' = astray /\ faults' = faults
    BY DEF Restart, Reopens, EvolutionReplay, GenesReplay
<1>2. TypeOK'
    BY <1>1 DEF IInv, TypeOK, StoreTypeOK, EvolutionTypeOK, GenesTypeOK
<1>3. EvolutionInv'
    BY <1>1 DEF IInv, EvolutionInv, InStep
<1>4. GenesInv' /\ AdmissionIsKept' /\ RestartChangesNothing' /\ Inherited'
    BY <1>1 DEF IInv, GenesInv, AdmissionIsKept, RestartChangesNothing, Inherited
<1>5. NotWeaker(archived, archived')
    BY <1>1 DEF NotWeaker, Replaced
<1> QED
    BY <1>2, <1>3, <1>4, <1>5 DEF IInv

LEMMA NextIInv ==
    ASSUME IInv, [Next]_vars
    PROVE  IInv'
<1>1. CASE EvolutionNext /\ UNCHANGED inheritance
  <2>1. EvolutionStep
      BY <1>1, InitializeStep, ConsiderStep DEF EvolutionNext
  <2>2. GenesTypeOK' /\ GenesInv' /\ AdmissionIsKept'
      BY <1>1, <2>1
      DEF IInv, TypeOK, GenesTypeOK, GenesInv, AdmissionIsKept, inheritance, EvolutionStep
  <2>3. RestartChangesNothing' /\ Inherited'
      BY <1>1, <2>1
      DEF IInv, RestartChangesNothing, Inherited, inheritance, EvolutionStep
  <2> QED
      BY <2>1, <2>2, <2>3 DEF EvolutionStep, IInv, TypeOK
<1>2. CASE GenesNext /\ UNCHANGED evolution
  <2>1. GenesStep
      BY <1>2, RegisterStep, VerdictStep DEF GenesNext
  <2>2. EvolutionTypeOK' /\ EvolutionInv'
      BY <1>2 DEF IInv, TypeOK, EvolutionTypeOK, EvolutionInv, InStep, evolution
  <2>3. RestartChangesNothing' /\ Inherited'
      BY <1>2, <2>1 DEF IInv, RestartChangesNothing, Inherited, evolution, GenesStep
  <2> QED
      BY <2>1, <2>2, <2>3 DEF GenesStep, IInv, TypeOK
<1>3. CASE Restart
    BY <1>3, RestartStep
<1>4. CASE UNCHANGED vars
    BY <1>4 DEF vars, store, evolution, inheritance, IInv, TypeOK, StoreTypeOK, EvolutionTypeOK,
        GenesTypeOK, EvolutionInv, InStep, GenesInv, Inherited, RestartChangesNothing,
        AdmissionIsKept
<1> QED
    BY <1>1, <1>2, <1>3, <1>4 DEF Next

LEMMA SpecIInv == Spec => []IInv
BY InitIInv, NextIInv, PTL DEF Spec

-----------------------------------------------------------------------------
\* The death of a process in which no append has thrown changes nothing: every
\* kernel that is constructed from its log has the same candidates, selections,
\* incumbents, genes and verdicts.
\* (replay in src/candidateEvolution.ts and src/strategyGenes.ts)
THEOREM RestartIsHarmless == Spec => []RestartChangesNothing
<1>1. IInv => RestartChangesNothing
    BY DEF IInv
<1> QED
    BY <1>1, SpecIInv, PTL

\* What a replay yields is whole, of the declared types, and all that the log
\* says, unless a process appended after an append had thrown.
\* (src/candidateEvolution.ts, src/strategyGenes.ts, src/organism.ts)
THEOREM InheritanceIsWhole == Spec => []LogIsInherited
<1>1. IInv => LogIsInherited
    BY DEF IInv, LogIsInherited, EvolutionInv, Whole, GenesInv, Inherited
<1> QED
    BY <1>1, SpecIInv, PTL

\* A gene whose registration returned to its caller is restored in every later
\* kernel, repeated calls after a throw excepted.
\* (register, src/strategyGenes.ts:142-179)
THEOREM AdmissionsAreKept == Spec => []AdmissionIsKept
<1>1. IInv => AdmissionIsKept
    BY DEF IInv
<1> QED
    BY <1>1, SpecIInv, PTL

\* Neither memory nor the log ever replaces an incumbent by anything but a
\* mutation of it that is better and loses nothing: even when appends throw,
\* the process goes on and dies, and a later one goes on from the log.
\* (consider and replay, src/candidateEvolution.ts:126-219)
THEOREM IncumbentsNeverWeaken == Spec => IncumbentNeverWeakens
<1> DEFINE kept == \A m \in Mission :
                     /\ Replaced(archived.incumbent[m], archived'.incumbent[m])
                     /\ \/ Replaced(archive.incumbent[m], archive'.incumbent[m])
                        \/ thrown /\ archive' = archived
<1>1. ASSUME IInv, [Next]_vars
      PROVE  [kept]_vars
  <2>1. CASE EvolutionNext /\ UNCHANGED inheritance
    <3>1. EvolutionStep
        BY <1>1, <2>1, InitializeStep, ConsiderStep DEF EvolutionNext
    <3> QED
        BY <3>1 DEF EvolutionStep, NotWeaker
  <2>2. CASE GenesNext /\ UNCHANGED evolution
      BY <2>2 DEF evolution, Replaced
  <2>3. CASE Restart
    <3>1. NotWeaker(archived, archived') /\ archive' = archived
        BY <1>1, <2>3, RestartStep DEF Restart, EvolutionReplay
    <3>2. ~thrown => archive' = archive
        BY <1>1, <3>1 DEF IInv, RestartChangesNothing
    <3> QED
        BY <3>1, <3>2 DEF NotWeaker, Replaced
  <2> QED
      BY <1>1, <2>1, <2>2, <2>3 DEF Next
<1> QED
    BY <1>1, SpecIInv, PTL DEF Spec, IncumbentNeverWeakens
=============================================================================
