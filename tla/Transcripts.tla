---------------------------- MODULE Transcripts ----------------------------
(***************************************************************************)
(* The transcript store of transcript-mcp: one file of records per source, *)
(* and beside it a sidecar with the source's raw name, as two names may    *)
(* have the same file name.  Tool calls read and write the files step by   *)
(* step; the server may be killed between two steps, a write may fail with *)
(* part of it done, and files of a version without sidecars may be there.  *)
(*                                                                         *)
(* A query and the statistics are operators on the files: they read only.  *)
(***************************************************************************)
EXTENDS Integers, Sequences, FiniteSets, SequencesExt, FiniteSetsExt

CONSTANTS
  Callers,     \* tool calls that run at once: one, unless the server's tools run in threads
  Sources,     \* the raw names, none of them blank
  Safe,        \* raw name -> its file name
  Strip,       \* raw name -> the name without surrounding white space
  Stem,        \* bound: file name -> the stems of the two files, of the suffixes tried
  ByName,      \* the stems in the order of their paths
  Legacy,      \* stems that may have a file of records without sidecar
  Timestamps,  \* of records
  MaxAdds,     \* bound: add_transcript calls
  MaxFaults    \* bound: kills and failed writes

VARIABLES
  identity,   \* stem -> the raw name in the sidecar, or NoFile
  records,    \* stem -> the file of records
  toolCalls,  \* caller -> the call it is in, or Idle
  acked,      \* history: the records of calls that returned ok
  adds,       \* history: calls of add_transcript
  faults      \* history: kills and failed writes

storeVars == <<identity, records, toolCalls, acked, adds, faults>>

Stems  == Range(ByName)
NoFile == "no file"
Empty  == ""                 \* a sidecar that is open and not yet written
Absent0 == [there |-> FALSE, lines |-> <<>>, torn |-> FALSE]

\* A line that does not parse, and a record of the version before.
Corrupt == [n |-> 0, source |-> Empty, ts |-> 0]
Old     == [n |-> -1, source |-> NoFile, ts |-> 1]
Records == [n : 1 .. MaxAdds, source : Sources, ts : Timestamps]
Idle    == [at |-> "idle"]

CallOf(r, at, suffix) == [at |-> at, record |-> r, suffix |-> suffix]
StemsFor(source) == Stem[Safe[source]]
StemOf(call) == StemsFor(call.record.source)[call.suffix]

ASSUME StoreAssumption ==
  /\ MaxAdds \in Nat /\ MaxFaults \in Nat /\ Timestamps \subseteq Int
  /\ NoFile \notin Sources \union Stems /\ Empty \notin Sources
  /\ \A source \in Sources :
       StemsFor(source) \in Seq(Stems) /\ StemsFor(source) # <<>>
  /\ \A i, j \in DOMAIN ByName : ByName[i] = ByName[j] => i = j
  /\ ByName \in Seq(Range(ByName))

StoreTypeOK ==
  /\ identity \in [Stems -> Sources \union {NoFile, Empty}]
  /\ \A s \in Stems : Range(records[s].lines) \subseteq Records \union {Corrupt, Old}
  /\ acked \subseteq Records /\ adds \in 0 .. MaxAdds /\ faults \in 0 .. MaxFaults

StoreInit ==
  /\ identity = [s \in Stems |-> NoFile]
  /\ \E old \in SUBSET Legacy :
       records = [s \in Stems |->
         IF s \in old THEN [there |-> TRUE, lines |-> <<Old>>, torn |-> FALSE] ELSE Absent0]
  /\ toolCalls = [c \in Callers |-> Idle]
  /\ acked = {} /\ adds = 0 /\ faults = 0

ResumeCall(c, at) == toolCalls' = [toolCalls EXCEPT ![c].at = at]

-----------------------------------------------------------------------------
(* add_transcript.                                                         *)

\* The tool, with a text that is not empty.
AddTranscript(c) ==
  /\ toolCalls[c] = Idle /\ adds < MaxAdds
  /\ adds' = adds + 1
  /\ \E source \in Sources, ts \in Timestamps :
       toolCalls' = [toolCalls EXCEPT ![c] =
         CallOf([n |-> adds + 1, source |-> source, ts |-> ts], "resolve", 1)]
  /\ UNCHANGED <<identity, records, acked, faults>>

SameIdentity(held, source) == held = source

\* _resolve_or_create, one turn of its loop: a free stem or a file from before
\* the sidecars gets a sidecar, a sidecar of this source ends the search.
Resolve(c) ==
  /\ toolCalls[c].at = "resolve"
  /\ LET call   == toolCalls[c]
         source == call.record.source
         s      == StemOf(call)
         there  == records[s].there
         free   == identity[s] = NoFile /\ ~there
         mine   == identity[s] # NoFile /\ SameIdentity(identity[s], source)
         legacy == identity[s] = NoFile /\ there /\ source = Safe[source] /\ call.suffix = 1
     IN \/ (free \/ legacy) /\ ResumeCall(c, "sidecar")
        \/ mine /\ ResumeCall(c, "append")
        \/ /\ ~free /\ ~legacy /\ ~mine
           /\ call.suffix < Len(StemsFor(source))
           /\ toolCalls' = [toolCalls EXCEPT ![c].suffix = @ + 1]
  /\ UNCHANGED <<identity, records, acked, adds, faults>>

\* write_text: the sidecar is opened, which empties it, and written.
OpenSidecar(c) ==
  /\ toolCalls[c].at = "sidecar"
  /\ identity' = [identity EXCEPT ![StemOf(toolCalls[c])] = Empty]
  /\ ResumeCall(c, "name")
  /\ UNCHANGED <<records, acked, adds, faults>>

WriteSidecar(c) ==
  /\ toolCalls[c].at = "name"
  /\ identity' = [identity EXCEPT ![StemOf(toolCalls[c])] = toolCalls[c].record.source]
  /\ ResumeCall(c, "append")
  /\ UNCHANGED <<records, acked, adds, faults>>

\* What follows a line without its end becomes part of that line.
Written(file, line) ==
  [there |-> TRUE, torn |-> FALSE,
   lines |-> IF file.torn THEN Append(Front(file.lines), Corrupt) ELSE Append(file.lines, line)]

\* Part of a line: none of it, some, or all but its end.
PartWritten(file, line) ==
  {[file EXCEPT !.there = TRUE]} \union {[Written(file, l) EXCEPT !.torn = TRUE] : l \in {Corrupt, line}}

\* mutant: the file is opened for writing, not for appending
Rewrite(c) ==
  /\ toolCalls[c].at = "append"
  /\ LET call == toolCalls[c]
     IN /\ records' = [records EXCEPT ![StemOf(call)] = Written(Absent0, call.record)]
        /\ acked' = acked \union {call.record}
  /\ toolCalls' = [toolCalls EXCEPT ![c] = Idle]
  /\ UNCHANGED <<identity, adds, faults>>

\* append writes the record and the tool returns ok.
AppendRecord(c) ==
  /\ toolCalls[c].at = "append"
  /\ LET call == toolCalls[c]
     IN /\ records' = [records EXCEPT ![StemOf(call)] = Written(@, call.record)]
        /\ acked' = acked \union {call.record}
  /\ toolCalls' = [toolCalls EXCEPT ![c] = Idle]
  /\ UNCHANGED <<identity, adds, faults>>

\* The disk is full: the write raises with part of it done.
WriteFails(c) ==
  /\ faults < MaxFaults /\ faults' = faults + 1
  /\ \/ toolCalls[c].at = "name" /\ UNCHANGED records
     \/ /\ toolCalls[c].at = "append"
        /\ \E file \in PartWritten(records[StemOf(toolCalls[c])], toolCalls[c].record) :
             records' = [records EXCEPT ![StemOf(toolCalls[c])] = file]
  /\ toolCalls' = [toolCalls EXCEPT ![c] = Idle]
  /\ UNCHANGED <<identity, acked, adds>>

\* The server is killed between two steps, and started again.
KillServer ==
  /\ faults < MaxFaults /\ faults' = faults + 1
  /\ toolCalls' = [c \in Callers |-> Idle]
  /\ UNCHANGED <<identity, records, acked, adds>>

StoreNext ==
  \/ KillServer
  \/ \E c \in Callers :
       \/ AddTranscript(c) \/ Resolve(c) \/ OpenSidecar(c) \/ WriteSidecar(c)
       \/ AppendRecord(c) \/ WriteFails(c)

StoreSpec == StoreInit /\ [][StoreNext]_storeVars

-----------------------------------------------------------------------------
(* query_transcripts, get_transcript_stats, list_sources.                  *)

\* The lookup compares names without the white space around them.
SameStripped(held, source) == held # Empty /\ Strip[held] = Strip[source]

NamedStems(source) == {s \in Stems : identity[s] # NoFile /\ SameStripped(identity[s], source)}

\* _resolve_existing: the file of that name, else the first sidecar that holds it.
ResolveExisting(source) ==
  LET canonical == StemsFor(source)[1]
  IN IF /\ records[canonical].there
        /\ IF identity[canonical] # NoFile
             THEN SameStripped(identity[canonical], source)
             ELSE source = Safe[source]
       THEN canonical
       ELSE LET named == NamedStems(source)
                found == {i \in 1 .. Len(ByName) : ByName[i] \in named}
            IN IF found # {} /\ records[ByName[Min(found)]].there
                 THEN ByName[Min(found)] ELSE NoFile

LinesOf(source) ==
  LET s == ResolveExisting(source) IN IF s = NoFile THEN <<>> ELSE records[s].lines

Query(source, start, end) ==
  {r \in Range(LinesOf(source)) : r # Corrupt /\ start <= r.ts /\ r.ts <= end}

\* stats, for one line: zero stands for no earliest timestamp yet.
CountRecords(sum, r) ==
  IF r = Corrupt THEN sum
  ELSE [count    |-> sum.count + 1,
        earliest |-> IF sum.earliest = 0 \/ r.ts < sum.earliest THEN r.ts ELSE sum.earliest,
        latest   |-> IF r.ts > sum.latest THEN r.ts ELSE sum.latest]

NoRecords == [count |-> 0, earliest |-> 0, latest |-> 0]

Stats(source) ==
  LET lines == LinesOf(source)
      sum[n \in 0 .. Len(lines)] ==
        IF n = 0 THEN NoRecords ELSE CountRecords(sum[n - 1], lines[n])
  IN sum[Len(lines)]

ListSources ==
  {identity[s] : s \in {t \in Stems : identity[t] # NoFile}}
    \union {s \in Stems : records[s].there /\ identity[s] = NoFile}

-----------------------------------------------------------------------------
(* Properties.                                                             *)

\* A name that differs from this one in white space only has a sidecar.
HasTwin(source) ==
  \E s \in Stems : /\ identity[s] \in Sources \ {source}
                   /\ Strip[identity[s]] = Strip[source]

Everything(source) == Query(source, Min(Timestamps), Max(Timestamps))

Lost == {r \in acked : ~HasTwin(r.source) /\ r \notin Query(r.source, r.ts, r.ts)}

\* Every acknowledged record is found under its source by a query about its own
\* moment, whichever names share a file name and whatever files were there before;
\* each kill or failed write may cost one.
LossesNeedFaults == Cardinality(Lost) <= faults

\* A source is never answered with another's records, white space apart.
OwnRecordsOnly ==
  \A source \in Sources : \A r \in Everything(source) :
    r = Old \/ Strip[r.source] = Strip[source]

\* The statistics count the records that parse, and a query from earliest to latest
\* finds them all; for timestamps after 1970, as zero stands for none yet.
StatsSpanRecords ==
  Timestamps \subseteq Nat \ {0} =>
    \A source \in Sources :
      LET lines == LinesOf(source)
          stats == Stats(source)
      IN /\ stats.count = Cardinality({n \in 1 .. Len(lines) : lines[n] # Corrupt})
         /\ Query(source, stats.earliest, stats.latest) = Range(lines) \ {Corrupt}

\* What the code does not keep: "all source IDs that have at least one stored
\* transcript"; a record is not lost to another call's failed write; a source is
\* answered with its own records only, white space included.
ListedHaveRecords == \A source \in ListSources \intersect Sources :
                       toolCalls = [c \in Callers |-> Idle] => Everything(source) # {}
NothingLost       == Lost = {}
ExactlyItsOwn     == \A source \in Sources : \A r \in Everything(source) :
                       r = Old \/ r.source = source
=============================================================================
