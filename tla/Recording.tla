-------------------------------- MODULE Recording --------------------------------
(***************************************************************************)
(* The hub's video recorder and the video-mcp server that reads what it    *)
(* wrote.  The recorder encodes a participant's camera into chunks, writes *)
(* each as a .264 file and then a .json file, and evicts the oldest chunks *)
(* of all participants when there are too many bytes.  The hub awaits each *)
(* frame, so the recorder does one thing at a time; video-mcp is another   *)
(* process, and its file operations fall between any two of the            *)
(* recorder's.  The identities here share one sanitized directory name.    *)
(***************************************************************************)
EXTENDS Integers, Sequences, SequencesExt, FiniteSets, FiniteSetsExt

CONSTANTS
  Pids,           \* participants with a camera each
  Plain,          \* those whose identity needs no sanitizing
  Sizes,          \* per participant, the resolutions of its frames
  ChunkFrames,    \* chunk_frames
  MaxBytes,       \* max_total_bytes, with a frame for a byte
  MinInterval,    \* 1 / sample_fps
  MaxTime,        \* bound: the clock
  MaxEncoders,    \* bound: tracks begun
  Instants,       \* times video-mcp is asked for a frame of
  Queries,        \* windows of time it is asked for the video of
  RecorderFaults  \* what may fail: "disk", "encoder", "end" of an encoding, "stop"

ASSUME RecordingAssumption ==
  /\ Plain \subseteq Pids /\ ChunkFrames \in Nat \ {0} /\ MinInterval \in Nat \ {0}
  /\ MaxBytes \in Nat /\ MaxTime \in Nat /\ MaxEncoders \in Nat
  /\ Instants \subseteq 0 .. MaxTime /\ Queries \subseteq (0 .. MaxTime) \X (0 .. MaxTime)
  /\ RecorderFaults \subseteq {"disk", "encoder", "end", "stop"}
  /\ "none" \notin Pids /\ \A p \in Pids : "none" \notin Sizes[p]

Time == 0 .. MaxTime
NoTrack == [enc |-> FALSE, failed |-> FALSE, buf |-> <<>>, frames |-> 0, start |-> 0,
            size |-> "none", last |-> -MinInterval, dir |-> 0]
NoJob == [at |-> "idle"]
NoReader == [at |-> "idle"]

VARIABLES
  clock,     \* wall clock and monotonic clock
  encoders,  \* _encoders: per participant, NoTrack if there is none
  dirs,      \* dirs[k]: the .identity of the k-th directory, "none" if it has none
  files,     \* the chunk files
  job,       \* the flush in progress, and what comes after it
  reader,    \* the tool call in progress at video-mcp
  begun,     \* tracks begun so far
  recorded,  \* history: participant and time of every frame encoded
  started,   \* history: participant and start of every chunk begun
  wentWrong  \* history: what has gone wrong

recorder == <<encoders, dirs, files, job, begun>>
history  == <<recorded, started, wentWrong>>
recorderVars == <<clock, recorder, reader, history>>

Dirs == DOMAIN dirs
\* A chunk: its name is dir and start; data: the .264 is complete, meta: so is the .json.
Files == [pid : Pids, dir : 1 .. Cardinality(Pids) + 1, start : Time, frames : Seq(Time),
          data : BOOLEAN, meta : BOOLEAN, end : Time, num : Nat]

RecorderTypeOK ==
  /\ clock \in Time /\ begun \in 0 .. MaxEncoders
  /\ \A p \in Pids : LET t == encoders[p] IN
       /\ t.frames \in 0 .. ChunkFrames /\ Len(t.buf) <= ChunkFrames
       /\ t.size \in Sizes[p] \union {"none"} /\ t.dir \in Dirs \union {0}
  /\ \A k \in Dirs : dirs[k] \in Pids \union {"none"}
  /\ files \subseteq Files
  /\ \A f, g \in files : f.dir = g.dir /\ f.start = g.start => f = g
  /\ job.at \in {"idle", "data", "fill", "meta", "prune"}
  /\ reader.at \in {"idle", "load", "read"}
  /\ recorded \subseteq Pids \X Time /\ started \subseteq Pids \X Time

RecorderInit ==
  /\ clock = 0
  /\ encoders = [p \in Pids |-> NoTrack]
  /\ dirs \in {<<>>, <<"none">>} \* a directory of a version without .identity
  /\ files = {} /\ job = NoJob /\ begun = 0 /\ reader = NoReader
  /\ recorded = {} /\ started = {} /\ wentWrong = {}

Tick == clock < MaxTime /\ clock' = clock + 1 /\ UNCHANGED <<recorder, reader, history>>

-----------------------------------------------------------------------------
(* Encoding.                                                               *)

\* mutant: the canonical directory, whoever it belongs to
ResolveCanonical(p) == <<1, IF dirs = <<>> THEN <<p>> ELSE dirs>>

\* _resolve_or_create_subdir: the directory of p, and the directories after that.
Resolve(p) ==
  LET ok(k) == dirs[k] = p \/ (k = 1 /\ dirs[k] = "none" /\ p \in Plain)
      k     == IF \E i \in Dirs : ok(i) THEN Min({i \in Dirs : ok(i)}) ELSE Len(dirs) + 1
  IN  <<k, IF k \in Dirs THEN [dirs EXCEPT ![k] = p] ELSE Append(dirs, p)>>

\* bound: one thing goes wrong
Fault(f) == f \in RecorderFaults /\ wentWrong = {} /\ wentWrong' = {f}

\* A track with a new encoder that has taken the frame of time now.
Started(t, size, now) ==
  [t EXCEPT !.enc = TRUE, !.size = size, !.start = clock, !.buf = <<now>>, !.frames = 1]

\* The clock counts microseconds: no two chunks of p start in the same one.
Fresh(p) == <<p, clock>> \notin started /\ started' = started \union {<<p, clock>>}

\* _make_track, and the first frame is encoded.
NewTrack(p, s) ==
  /\ job.at = "idle" /\ encoders[p] = NoTrack /\ begun < MaxEncoders /\ begun' = begun + 1
  /\ Fresh(p) /\ <<p, clock>> \notin recorded
  /\ dirs' = Resolve(p)[2]
  /\ encoders' = [encoders EXCEPT ![p] = Started([NoTrack EXCEPT !.dir = Resolve(p)[1], !.last = clock], s, clock)]
  /\ recorded' = recorded \union {<<p, clock>>}
  /\ UNCHANGED <<clock, files, job, reader, wentWrong>>

\* _make_track raises: there is a directory, and the next frame tries again.
NewTrackFails(p) ==
  /\ job.at = "idle" /\ encoders[p] = NoTrack
  /\ dirs' = Resolve(p)[2] /\ Fault("encoder")
  /\ UNCHANGED <<clock, begun, encoders, files, job, reader, recorded, started>>

Sampled(p) ==
  /\ job.at = "idle" /\ encoders[p] # NoTrack /\ ~encoders[p].failed
  /\ clock - encoders[p].last >= MinInterval

Encode(p, s) ==
  /\ Sampled(p) /\ encoders[p].size = s /\ encoders[p].frames < ChunkFrames
  /\ IF encoders[p].enc
     THEN /\ encoders' = [encoders EXCEPT ![p].buf = Append(@, clock), ![p].frames = @ + 1, ![p].last = clock]
          /\ recorded' = recorded \union {<<p, clock>>}
     ELSE encoders' = [encoders EXCEPT ![p].last = clock] /\ UNCHANGED recorded
  /\ UNCHANGED <<clock, begun, dirs, files, job, reader, started, wentWrong>>

\* EndEncode gives what the encoder held back, or raises and that is lost.
EndEncode(t, buf) ==
  \/ buf = t.buf /\ UNCHANGED wentWrong
  \/ t.enc /\ Fault("end") /\ \E k \in 1 .. Len(t.buf) - 1 : buf = SubSeq(t.buf, 1, k)

\* CreateEncoder, and the frame that was waiting is encoded; or the track is
\* out of use from now on.
Reopen(p, t, size, now) ==
  \/ /\ Fresh(p) /\ encoders' = [encoders EXCEPT ![p] = Started(t, size, now)]
     /\ recorded' = recorded \union {<<p, now>>} /\ UNCHANGED wentWrong
  \/ /\ encoders' = [encoders EXCEPT ![p] = [t EXCEPT !.enc = FALSE, !.failed = TRUE, !.size = size]]
     /\ UNCHANGED <<recorded, started>> /\ Fault("encoder")

FlushJob(p, t, size) == [at |-> "data", pid |-> p, chunk |-> t, size |-> size, now |-> clock]

\* A new resolution, or a full chunk: the chunk is closed and a new one will be
\* begun.  The old encoder of a track that is resized is gone whatever comes.
Close(p, s) ==
  /\ Sampled(p)
  /\ encoders[p].size # s \/ encoders[p].frames >= ChunkFrames
  /\ \E k \in DOMAIN encoders[p].buf :
       LET t == [encoders[p] EXCEPT !.buf = SubSeq(@, 1, k), !.last = clock, !.enc = @ /\ encoders[p].size = s] IN
       /\ EndEncode(encoders[p], t.buf)
       /\ encoders' = [encoders EXCEPT ![p] = t]
       /\ job' = FlushJob(p, t, s)
  /\ UNCHANGED <<clock, begun, dirs, files, reader, recorded, started>>

\* mutant: what the encoder held is not flushed
LeaveDrops(p) ==
  /\ job.at = "idle" /\ encoders[p] # NoTrack
  /\ encoders' = [encoders EXCEPT ![p] = NoTrack]
  /\ UNCHANGED <<clock, begun, dirs, files, job, reader, history>>

\* close_participant
Leave(p) ==
  /\ job.at = "idle" /\ encoders[p] # NoTrack
  /\ encoders' = [encoders EXCEPT ![p] = NoTrack]
  /\ IF encoders[p].buf = <<>> THEN UNCHANGED <<job, wentWrong>>
     ELSE \E k \in DOMAIN encoders[p].buf :
            LET t == [encoders[p] EXCEPT !.buf = SubSeq(@, 1, k)] IN
            EndEncode(encoders[p], t.buf) /\ job' = FlushJob(p, t, "none")
  /\ UNCHANGED <<clock, begun, dirs, files, reader, recorded, started>>

\* The hub stops and is started again: nothing closes the tracks.
Restart ==
  /\ job.at = "idle" /\ Fault("stop")
  /\ encoders' = [p \in Pids |-> NoTrack]
  /\ UNCHANGED <<clock, begun, dirs, files, job, reader, recorded, started>>

-----------------------------------------------------------------------------
(* Flushing a chunk.                                                       *)

Named(f) == f.dir = job.chunk.dir /\ f.start = job.chunk.start
Step(at) == job' = [job EXCEPT !.at = at]

\* open() of the .264 file: end_us is taken, an older file of the name is overwritten
OpenData ==
  /\ job.at = "data" /\ Step("fill")
  /\ files' = {f \in files : ~Named(f)} \union
              {[pid |-> job.pid, dir |-> job.chunk.dir, start |-> job.chunk.start, frames |-> job.chunk.buf,
                data |-> FALSE, meta |-> \E f \in files : Named(f) /\ f.meta,
                end |-> clock, num |-> job.chunk.frames]}
  /\ UNCHANGED <<clock, begun, encoders, dirs, reader, history>>

Mark(f, field, value) == (files \ {f}) \union {[f EXCEPT ![field] = value]}

FillData ==
  /\ job.at = "fill" /\ Step("meta")
  /\ \E f \in files : Named(f) /\ files' = Mark(f, "data", TRUE)
  /\ UNCHANGED <<clock, begun, encoders, dirs, reader, history>>

\* The .json file; half of it is as good as none to a reader.  The buffer is
\* cleared once both files are there.
WriteMeta ==
  /\ job.at = "meta" /\ Step("prune")
  /\ \E f \in files : Named(f) /\ files' = Mark(f, "meta", TRUE)
  /\ encoders' = IF job.size = "none" THEN encoders ELSE [encoders EXCEPT ![job.pid].buf = <<>>]
  /\ UNCHANGED <<clock, begun, dirs, reader, history>>

\* A write raises: the exception ends the call, and the frame is dropped.
WriteFails ==
  /\ job.at \in {"data", "fill", "meta"} /\ Fault("disk")
  /\ job' = NoJob
  /\ UNCHANGED <<clock, begun, encoders, dirs, files, reader, recorded, started>>

Total == MapThenSumSet(LAMBDA f : Len(f.frames), files)

OverLimit == MaxBytes > 0 /\ Total > MaxBytes

Oldest == CHOOSE f \in files : \A g \in files : f.start <= g.start

\* _prune_by_total_bytes
Prune ==
  /\ job.at = "prune" /\ OverLimit
  /\ files' = files \ {Oldest}
  /\ UNCHANGED <<clock, begun, encoders, dirs, job, reader, history>>

\* The flush is over, and the frame that closed the chunk is encoded.
Flushed ==
  /\ job.at = "prune" /\ ~OverLimit
  /\ job' = NoJob
  /\ IF job.size = "none" THEN UNCHANGED <<encoders, history>>
     ELSE Reopen(job.pid, encoders[job.pid], job.size, job.now)
  /\ UNCHANGED <<clock, begun, dirs, files, reader>>

FlushChunk == OpenData \/ FillData \/ WriteMeta \/ WriteFails \/ Prune \/ Flushed

-----------------------------------------------------------------------------
(* video-mcp: get_frame_from_time and query_video.                         *)

\* _pid_dir
PidDir(p) ==
  LET ok == {i \in Dirs : dirs[i] = p \/ (i = 1 /\ dirs[i] = "none" /\ p \in Plain)} IN
  IF ok = {} THEN 0 ELSE Min(ok)

InDir(d) == {f \in files : f.dir = d}
Overlaps(m, from, to) == m.start <= to /\ m.end >= from

\* _sorted_chunks of the directory of p: the chunks are taken in the order of their starts
Ask(p, op, from, to) ==
  LET d == PidDir(p) IN
  /\ reader.at = "idle"
  /\ InDir(d) # {} \* otherwise the call answers that there is no video
  /\ reader' = [at |-> "load", op |-> op, pid |-> p, dir |-> d, from |-> from, to |-> to,
                 left |-> {f.start : f \in InDir(d)}, metas |-> {}, got |-> <<>>,
                 sure |-> {f \in InDir(d) : f.data /\ f.meta /\ Overlaps(f, from, to)}]
  /\ UNCHANGED <<clock, recorder, history>>

\* _load_meta of the next chunk; without its .json, or with half of one, a chunk
\* ends when it starts.
LoadMeta ==
  LET next  == Min(reader.left)
      found == {f \in files : f.dir = reader.dir /\ f.start = next}
      meta(f) == IF f.meta THEN [start |-> f.start, end |-> f.end, num |-> f.num]
                 ELSE [start |-> f.start, end |-> f.start, num |-> 0]
  IN
  /\ reader.at = "load" /\ reader.left # {}
  /\ IF found # {}
     THEN \E f \in found : reader' = [reader EXCEPT !.left = @ \ {next}, !.metas = @ \union {meta(f)}]
     ELSE reader' = NoReader \* stat() raises
  /\ UNCHANGED <<clock, recorder, history>>

Abs(x) == IF x < 0 THEN -x ELSE x

First(metas)  == CHOOSE m \in metas : \A o \in metas : m.start <= o.start
Latest(metas) == CHOOSE m \in metas : \A o \in metas : m.start >= o.start

\* find_chunk_at: the first chunk that contains the time, or the one that starts nearest
ChunkAt(metas, ts) ==
  LET in   == {m \in metas : Overlaps(m, ts, ts)}
      near == {m \in metas : \A o \in metas : Abs(m.start - ts) <= Abs(o.start - ts)}
  IN  {First(IF in # {} THEN in ELSE near)}

\* mutant: chunks that only touch the window are left out
WindowStrict(metas, from, to) ==
  LET in     == {m \in metas : m.start < to /\ m.end > from}
      before == {m \in metas : m.start < from}
  IN  IF in # {} THEN in ELSE IF before # {} THEN {Latest(before)} ELSE {}

\* ChunkStore.query: what overlaps, or else the last chunk before the window
Window(metas, from, to) ==
  LET in     == {m \in metas : Overlaps(m, from, to)}
      before == {m \in metas : m.start < from}
  IN  IF in # {} THEN in ELSE IF before # {} THEN {Latest(before)} ELSE {}

Select ==
  /\ reader.at = "load" /\ reader.left = {}
  /\ LET sel == IF reader.op = "frame" THEN ChunkAt(reader.metas, reader.from)
                ELSE Window(reader.metas, reader.from, reader.to)
     IN  reader' = IF sel = {} THEN NoReader ELSE [reader EXCEPT !.at = "read", !.left = sel]
  /\ UNCHANGED <<clock, recorder, history>>

RoundHalfEven(a, b) ==
  LET q == a \div b  r == a % b IN
  IF 2 * r > b \/ (2 * r = b /\ q % 2 = 1) THEN q + 1 ELSE q

\* get_frame_from_time: which frame of the chunk, counted from 0, ...
Index(m, num, ts) ==
  IF num <= 1 \/ m.end <= m.start THEN 0
  ELSE Max({0, Min({num - 1, RoundHalfEven((ts - m.start) * (num - 1), m.end - m.start)})})

\* ... and the timestamp it is given
StampOf(m, num, i) == IF num > 1 THEN m.start + (i * (m.end - m.start)) \div (num - 1) ELSE m.start

FrameAnswer(f, m, frames) ==
  LET num == IF m.num > 0 THEN m.num ELSE Len(frames)
      i   == Min({Index(m, num, reader.from), Len(frames) - 1})
  IN  [kind |-> "frame", chunk |-> f, time |-> frames[i + 1], stamp |-> StampOf(m, num, i), meta |-> m]

\* read_chunk: a file that is being written gives some of its frames.
Contents(f) == IF f.data THEN {f.frames} ELSE {SubSeq(f.frames, 1, k) : k \in 0 .. Len(f.frames)}
Due      == First(reader.left)
LastOne  == reader.left = {Due}
NextFile == {f \in files : f.dir = reader.dir /\ f.start = Due.start}

\* What the call may return at its next step.
Answers ==
  IF reader.at # "read" \/ ~LastOne THEN {}
  ELSE UNION {IF reader.op = "frame" THEN {FrameAnswer(f, Due, c) : c \in Contents(f) \ {<<>>}}
              ELSE {[kind |-> "video", frames |-> reader.got \o c] : c \in Contents(f)} : f \in NextFile}

\* The call returns, with an answer or, if the chunk is gone or empty, an error.  What
\* becomes of the file the answer is in is left out: its name is made of the sanitized
\* identity and the times asked for, so a later call may write over it.
Return ==
  /\ reader.at = "read"
  /\ LastOne \/ NextFile = {}
  /\ reader' = NoReader
  /\ UNCHANGED <<clock, recorder, history>>

Read ==
  /\ reader.at = "read" /\ ~LastOne
  /\ \E f \in NextFile : \E c \in Contents(f) : reader' = [reader EXCEPT !.left = @ \ {Due}, !.got = @ \o c]
  /\ UNCHANGED <<clock, recorder, history>>

-----------------------------------------------------------------------------
RecorderNext ==
  \/ Tick \/ FlushChunk \/ Restart \/ LoadMeta \/ Select \/ Read \/ Return
  \/ \E p \in Pids : NewTrackFails(p) \/ Leave(p)
  \/ \E p \in Pids : \E s \in Sizes[p] : NewTrack(p, s) \/ Encode(p, s) \/ Close(p, s)
  \/ \E p \in Pids : (\E t \in Instants : Ask(p, "frame", t, t)) \/ \E q \in Queries : Ask(p, "query", q[1], q[2])

RecorderSpec == RecorderInit /\ [][RecorderNext]_recorderVars

-----------------------------------------------------------------------------
InFiles == UNION {{<<f.pid, f.frames[k]>> : k \in DOMAIN f.frames} : f \in files}
InMemory == UNION {{<<p, encoders[p].buf[k]>> : k \in DOMAIN encoders[p].buf} : p \in Pids}
InFlush == IF job.at = "idle" THEN {} ELSE {<<job.pid, job.chunk.buf[k]>> : k \in DOMAIN job.chunk.buf}

(* Until a write fails, EndEncode fails or the hub stops, what was encoded *)
(* of a participant is kept from some moment on: in the encoder's buffer   *)
(* or on disk, with nothing missing in between or at the end.              *)
Kept == InMemory \union InFlush \union InFiles
NoHoles ==
  wentWrong \subseteq {"encoder"} => \A e \in recorded \ Kept : \A g \in Kept : e[1] = g[1] => e[2] < g[2]

(* After a flush the chunks of all participants together are within the   *)
(* limit, unless a write has failed.                                       *)
WithinLimit == job.at = "idle" /\ "disk" \notin wentWrong /\ MaxBytes > 0 => Total <= MaxBytes

(* A tool call never returns what another participant's camera saw, though *)
(* the two share a sanitized name.                                         *)
OwnFramesOnly == reader.at = "read" => \A f \in NextFile : f.pid = reader.pid

(* A chunk that was complete when the call began, covers the time asked    *)
(* for and has not been evicted since is found: the answer is from such a  *)
(* chunk, or has all of them.                                              *)
CompleteChunksFound ==
  \A a \in Answers : \A f \in reader.sure \intersect files :
    IF a.kind = "frame" THEN Overlaps(a.chunk, reader.from, reader.to)
    ELSE ToSet(f.frames) \subseteq ToSet(a.frames)

(* The frame of a chunk recorded at a steady rate is no more than one and  *)
(* a half intervals from the time asked for, and the timestamp it is given *)
(* within one of its own.  The half is due to the index, which spreads     *)
(* num - 1 frames over num intervals.  A pause of the camera within a      *)
(* chunk is enough to break this.                                          *)
Steady(f) ==
  /\ Len(f.frames) = f.num /\ f.end = f.start + f.num * MinInterval
  /\ \A k \in DOMAIN f.frames : f.frames[k] = f.start + (k - 1) * MinInterval

SteadyIsNear ==
  \A a \in Answers :
    a.kind = "frame" /\ Steady(a.chunk) /\ a.meta.num = a.chunk.num /\ Overlaps(a.chunk, reader.from, reader.from) =>
      /\ 2 * Abs(a.time - reader.from) <= 3 * MinInterval
      /\ Abs(a.time - a.stamp) <= MinInterval

(* The comment of _TrackEncoder.failed: a track without an encoder is      *)
(* marked failed, so that not every frame becomes a silent drop.           *)
EncoderOrFailed == \A p \in Pids : job.at = "idle" /\ encoders[p] # NoTrack => encoders[p].enc \/ encoders[p].failed

(* get_frame_from_time: "Unix us of the actual frame returned".            *)
StampIsOfFrame == \A a \in Answers : a.kind = "frame" => Abs(a.time - a.stamp) <= MinInterval
===============================================================================
