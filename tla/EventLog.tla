------------------------------ MODULE EventLog ------------------------------
(***************************************************************************)
(* The JSONL hash chain of src/eventStore.ts, byte by byte as far as a     *)
(* reader can tell: whole lines, and a last line that is cut or has no     *)
(* newline.  A process holds the events it has read or appended; the line  *)
(* it writes is numbered and chained from that memory, not from the file.  *)
(***************************************************************************)
EXTENDS Naturals, Sequences, SequencesExt

CONSTANTS
    Event,      \* what an event says
    NoEvent,    \* the predecessor of the first line
    Torn        \* a line that is not JSON

Lines == [seq : Nat, prev : Event \cup {NoEvent}, event : Event]
Files == [lines : Seq(Lines \cup {Torn}), ended : BOOLEAN]
EmptyFile == [lines |-> <<>>, ended |-> TRUE]

\* The head of a chain of events.
HeadOf(events) == IF events = <<>> THEN NoEvent ELSE Last(events)

\* The line that append writes for an event, given the events in memory.
LineFor(events, event) ==
    [seq |-> Len(events) + 1, prev |-> HeadOf(events), event |-> event]

\* Bytes added at the end of the file: after a line without its newline they
\* make one unreadable line with it.
Put(file, line, ended) ==
    [lines |-> IF file.ended THEN Append(file.lines, line)
               ELSE [file.lines EXCEPT ![Len(file.lines)] = Torn],
     ended |-> ended]

\* How much of a line reaches the file.
Extent == {"none", "part", "unended", "whole"}
Written(file, line, extent) ==
    CASE extent = "none"    -> file
      [] extent = "part"    -> Put(file, Torn, FALSE)
      [] extent = "unended" -> Put(file, line, FALSE)
      [] extent = "whole"   -> Put(file, line, TRUE)

\* Every line is JSON.
IsJson(file) == \A i \in DOMAIN file.lines : file.lines[i] # Torn

\* readAndVerify accepts the file: JSON, sequence and predecessor of each line.
Readable(file) ==
    /\ IsJson(file)
    /\ \A i \in DOMAIN file.lines :
         /\ file.lines[i].seq = i
         /\ file.lines[i].prev = IF i = 1 THEN NoEvent ELSE file.lines[i - 1].event

\* The events readAndVerify returns.
Read(file) == [i \in DOMAIN file.lines |-> file.lines[i].event]
=============================================================================
