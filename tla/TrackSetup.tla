------------------------------- MODULE TrackSetup -------------------------------
(***************************************************************************)
(* How a run of src/srt2dvbsub.c gets its streams and tracks: ctx_init     *)
(* opens the input and mirrors its streams, ctx_parse_tracks adds a        *)
(* subtitle track for each file and language, onto a new stream or onto    *)
(* one that --overwrite replaces, apply_custom_pids assigns the PIDs of    *)
(* --pid, and srt2dvbsub_run_cli then sets the flags and refuses tracks    *)
(* it could not tell apart.  Every failure ends in ctx_cleanup.            *)
(*                                                                         *)
(* A batch calls srt2dvbsub_run_cli once per file, so the setup may begin  *)
(* again when a run is over.                                               *)
(***************************************************************************)
EXTENDS CommandLine

CONSTANTS
  MaxTargets,    \* MAX_OVERWRITE_TARGETS, 16 in the code
  MaxFaults      \* bound on the library calls and allocations that fail

ASSUME SetupAssumption == MaxTargets \in Nat /\ MaxFaults \in Nat

VARIABLES
  stage,      \* where the setup is
  input,      \* the input: whether it opens, its programs, its streams
  opt,        \* the options of this run
  outs,       \* the output streams: PID (0: libavformat picks one), language and flags
  targets,    \* ctx->overwrite_targets
  max_pid,    \* ctx->max_input_pid
  tracks,     \* the tracks parsed so far
  counted,    \* ctx->ntracks, the tracks ctx_cleanup releases
  held,       \* what is allocated: <<track, or 0 for the context; what>>
  ret,        \* what the run returns
  faults      \* calls that failed so far

setup == <<stage, input, opt, outs, targets, max_pid, tracks, counted, held, ret, faults>>

Stages == {"idle", "open", "mirror", "lists", "tracks", "pids", "flags", "ready", "failed"}

\* A transport stream: whether it opens, its programs and streams, the height of
\* its video and its muxrate (0 when unknown).  Its streams have PIDs of their own.
Stream == [sub : BOOLEAN, lang : [code : STRING, upper : BOOLEAN], pid : Nat]
Inputs ==
  {in \in [opens : BOOLEAN, programs : Nat, streams : Seq(Stream), height : Nat, rate : Nat] :
     \A i \in DOMAIN in.streams, j \in DOMAIN in.streams :
        i # j => in.streams[i].pid # in.streams[j].pid}

\* A subtitle file: whether it parses, and whether it ends in .ass or .ssa.
File == [name : STRING, good : BOOLEAN, ass : BOOLEAN]
Piece == [kind : STRING, val : Int]
Settings ==
  [srt : Seq(File), lang : Seq([code : STRING, upper : BOOLEAN]), pids : Seq(Piece),
   forced : Seq(Piece), hi : Seq(Piece), delay : Seq(Piece), preserve : BOOLEAN,
   overwrite : BOOLEAN, only : Seq([code : STRING, upper : BOOLEAN]), ass : BOOLEAN,
   preview : BOOLEAN]

NoInput == [opens |-> TRUE, programs |-> 0, streams |-> <<>>, height |-> 0, rate |-> 0]
NoOptions == [srt |-> <<>>, lang |-> <<>>, pids |-> <<>>, forced |-> <<>>, hi |-> <<>>,
              delay |-> <<>>, preserve |-> FALSE, overwrite |-> FALSE, only |-> <<>>,
              ass |-> FALSE, preview |-> FALSE]

Init ==
  /\ stage = "idle"
  /\ input = NoInput
  /\ opt = NoOptions
  /\ outs = <<>> /\ targets = <<>> /\ max_pid = 0
  /\ tracks = <<>> /\ counted = 0
  /\ held = {}
  /\ ret = 0
  /\ faults = 0

\* ctx_cleanup releases what the context holds and the tracks it counts.
Cleaned(h, n) == {r \in h : r[1] > n}

\* A failing stage: the context is cleaned up and the run returns code.
Fail(h, n, code) ==
  /\ stage' = "failed"
  /\ held' = Cleaned(h, n)
  /\ outs' = <<>> /\ targets' = <<>> /\ tracks' = <<>> /\ counted' = 0
  /\ ret' = code
  /\ UNCHANGED <<input, opt, max_pid>>

\* A call of a library or of the allocator fails.
Fault == faults < MaxFaults /\ faults' = faults + 1

InInput == <<0, "in_fmt">>
InOutput == <<0, "out_fmt">>

-----------------------------------------------------------------------------
(* ctx_init.                                                               *)

\* srt2dvbsub_run_cli starts with an empty context.  The preview of --png-only
\* needs no input: it goes to the tracks without ctx_init, so PIDs are not
\* preserved and nothing is overwritten.
Begin(in, o) ==
  /\ stage \in {"idle", "failed"}
  /\ stage' = IF o.preview THEN "lists" ELSE "open"
  /\ input' = in
  /\ opt' = o
  /\ outs' = <<>> /\ targets' = <<>> /\ tracks' = <<>> /\ counted' = 0
  /\ max_pid' = 0
  /\ held' = IF o.preview THEN {InOutput} ELSE {}
  /\ ret' = 0
  /\ UNCHANGED faults

\* Overwriting works on a single program only.
Refused == ~input.opens \/ (opt.overwrite /\ input.programs > 1)

OpenInput ==
  /\ stage = "open"
  /\ ~Refused
  /\ stage' = "mirror"
  /\ max_pid' = IF opt.preserve THEN MinPid - 1 ELSE 0
  /\ held' = held \cup {InInput, InOutput}
  /\ UNCHANGED <<input, opt, outs, targets, tracks, counted, ret, faults>>

OpenFails ==
  /\ stage = "open"
  /\ \/ Refused /\ UNCHANGED faults
     \/ ~Refused /\ Fault                     \* no output context
  /\ Fail(IF input.opens THEN held \cup {InInput} ELSE held, counted, -1)

\* Subtitle streams with a language are candidates for overwriting.
Candidate(st) ==
  opt.overwrite /\ Len(targets) < MaxTargets /\ st.sub /\ st.lang # NoLang

\* A candidate the filter leaves out is skipped, and its PID is not preserved.
Skipped(st) == Candidate(st) /\ ~overwrite_lang_allowed(opt.only, st.lang)

Preserved(st) == opt.preserve /\ st.pid > 0 /\ ~Skipped(st)

Target(i, st) == [in |-> i, out |-> i, pid |-> st.pid, lang |-> st.lang, used |-> FALSE]

\* Mutant: max_input_pid follows the last stream instead of the largest.
MaxPidWith_Last(st) == IF Preserved(st) THEN st.pid ELSE max_pid

MaxPidWith(st) == IF Preserved(st) /\ st.pid > max_pid THEN st.pid ELSE max_pid

MirrorStream ==
  /\ stage = "mirror"
  /\ Len(outs) < Len(input.streams)
  /\ LET i == Len(outs) + 1
         st == input.streams[i]
     IN  /\ outs' = Append(outs, [id |-> IF Preserved(st) THEN st.pid ELSE 0, lang |-> st.lang,
                                  forced |-> 0, hi |-> 0])
         /\ targets' = IF Candidate(st) /\ ~Skipped(st) THEN Append(targets, Target(i, st))
                       ELSE targets
         /\ max_pid' = MaxPidWith(st)
  /\ UNCHANGED <<stage, input, opt, tracks, counted, held, ret, faults>>

MirrorFails ==
  /\ stage = "mirror"
  /\ Len(outs) < Len(input.streams)
  /\ Fault
  /\ Fail(held, counted, -1)

AllMirrored ==
  /\ stage = "mirror"
  /\ Len(outs) = Len(input.streams)
  /\ stage' = "lists"
  /\ UNCHANGED <<input, opt, outs, targets, max_pid, tracks, counted, held, ret, faults>>

\* The encoder is looked up and the delay list parsed.
Delays == parse_delay_list(opt.delay)

\* Service names are copied for the muxer in ctx_init only.
ListsParsed ==
  /\ stage = "lists"
  /\ Delays.ok
  /\ stage' = "tracks"
  /\ \E services \in (IF opt.preview THEN {{}} ELSE SUBSET {<<0, "service_name">>, <<0, "provider">>}) :
        held' = held \cup services \cup (IF Delays.vals = <<>> THEN {} ELSE {<<0, "delay_vals">>})
  /\ UNCHANGED <<input, opt, outs, targets, max_pid, tracks, counted, ret, faults>>

ListsFail ==
  /\ stage = "lists"
  /\ IF Delays.ok THEN Fault ELSE UNCHANGED faults
  /\ Fail(held, counted, IF opt.preview THEN 1 ELSE -1)

-----------------------------------------------------------------------------
(* ctx_parse_tracks.                                                       *)

\* strtok_r passes over empty names.
FileTokens(list) == SelectSeq(list, LAMBDA f : f.name # "")

Files == FileTokens(opt.srt)
Langs == LangTokens(opt.lang)

cur == Len(tracks) + 1      \* the next track
More == cur <= Len(Files) /\ cur <= Len(Langs) /\ cur <= MaxTracks

UseAss(f) == opt.ass /\ f.ass

\* Mutant: a target stays available after it was taken.
find_overwrite_target_Again(lang) ==
  LET m == {i \in DOMAIN targets : targets[i].lang.code = lang.code}
  IN  IF opt.overwrite /\ m # {} THEN First(m) ELSE 0

\* The first unused target of the language, 0 when there is none.
find_overwrite_target(lang) ==
  LET m == {i \in DOMAIN targets : ~targets[i].used /\ targets[i].lang.code = lang.code}
  IN  IF opt.overwrite /\ m # {} THEN First(m) ELSE 0

\* Mutant: the packets of every target are dropped, replaced or not.
is_overwrite_stream_Any(i) == opt.overwrite /\ \E t \in DOMAIN targets : targets[t].in = i

\* Whether the loop drops the packets of input stream i.
is_overwrite_stream(i) == opt.overwrite /\ \E t \in DOMAIN targets : targets[t].used /\ targets[t].in = i

\* A new stream gets a PID above all others, unless --pid or libavformat picks it.
Allocates == opt.preserve /\ ~opt.preview /\ opt.pids = <<>>

NextPid == (IF max_pid < MinPid - 1 THEN MinPid - 1 ELSE max_pid) + 1

\* Mutant: the upper end of the PIDs is not looked at.
Exhausted_Never(lang) == FALSE

Exhausted(lang) == find_overwrite_target(lang) = 0 /\ Allocates /\ NextPid > MaxPid

NewId == IF Allocates THEN NextPid ELSE 0

\* What a track allocates, in the order of the code; the stream is out_fmt's.
Parts(f) ==
  <<"lang", "filename">>
  \o (IF UseAss(f) THEN <<"ass_lib", "ass_renderer", "ass_track">> ELSE <<>>)
  \o <<"entries", "stream", "codec_ctx">>

Owned(p) == IF p \in {"ass_lib", "ass_renderer"} THEN <<0, p>> ELSE <<cur, p>>
HeldParts(f, n) == {Owned(Parts(f)[i]) : i \in 1..n} \ {Owned("stream")}

\* The delay list is indexed by track; beyond its end the single value applies.
DelayOf(t) ==
  IF t \in DOMAIN Delays.vals THEN Delays.vals[t]
  ELSE IF opt.delay = <<>> THEN 0 ELSE opt.delay[1].val

NewTrack(s, f, lang) ==
  [stream |-> s, lang |-> lang, forced |-> 0, hi |-> 0, delay |-> DelayOf(cur),
   ass |-> UseAss(f), parsed |-> f.good]

\* A stream's metadata takes the flags its track has at this point: --forced and
\* --hi have not been parsed yet.
Marked(id, track) == [id |-> id, lang |-> track.lang, forced |-> track.forced, hi |-> track.hi]

\* The streams with the track on target t, or on a stream of its own.
Placed(t, track) ==
  IF t = 0 THEN Append(outs, Marked(NewId, track))
  ELSE [outs EXCEPT ![targets[t].out] =
          Marked(IF targets[t].pid > 0 THEN targets[t].pid ELSE @.id, track)]

\* A file that --ass renders may fail to parse: the track then has no cues.
AddTrack ==
  /\ stage = "tracks" /\ More
  /\ LET f == Files[cur]
         lang == Langs[cur]
         t == find_overwrite_target(lang)
         track == NewTrack(IF t = 0 THEN Len(outs) + 1 ELSE targets[t].out, f, lang)
     IN  /\ UseAss(f) \/ f.good
         /\ ~Exhausted(lang)
         /\ targets' = IF t = 0 THEN targets ELSE [targets EXCEPT ![t].used = TRUE]
         /\ outs' = Placed(t, track)
         /\ max_pid' = IF t = 0 /\ Allocates THEN NextPid ELSE max_pid
         /\ tracks' = Append(tracks, track)
         /\ held' = held \cup HeldParts(f, Len(Parts(f)))
  /\ counted' = cur
  /\ UNCHANGED <<stage, input, opt, ret, faults>>

\* The file does not parse, or no PID is left.
BadTrack ==
  /\ stage = "tracks" /\ More
  /\ LET f == Files[cur]
         bad == ~UseAss(f) /\ ~f.good
     IN  /\ bad \/ Exhausted(Langs[cur])
         /\ Fail(held \cup HeldParts(f, IF bad THEN 2 ELSE Len(Parts(f)) - 1), cur,
                 IF bad THEN 1 ELSE -1)
  /\ UNCHANGED faults

\* Mutant: the track is counted only when it is complete.
CountedAt_End(n) == counted

\* ctx->ntracks includes the track as soon as it has its language.
CountedAt(n) == IF n = 1 THEN counted ELSE cur

\* The library is shared by the tracks, a target brings its stream, and the
\* parser is not asked for the result of a file that --ass renders.
MayFail(p, f, lang) ==
  CASE p \in {"ass_lib", "ass_renderer"} -> <<0, "ass_lib">> \notin held
    [] p = "entries"                     -> ~UseAss(f)
    [] p = "stream"                      -> find_overwrite_target(lang) = 0
    [] OTHER                             -> TRUE

TrackFails ==
  /\ stage = "tracks" /\ More
  /\ LET f == Files[cur]
     IN  \E n \in DOMAIN Parts(f) :
           /\ MayFail(Parts(f)[n], f, Langs[cur])
           /\ Fail(held \cup HeldParts(f, n - 1), CountedAt(n),
                   IF Parts(f)[n] \in {"lang", "filename", "entries"} THEN 1 ELSE -1)
  /\ Fault

TracksDone ==
  /\ stage = "tracks" /\ ~More
  /\ stage' = IF opt.preview THEN "flags" ELSE "pids"
  /\ UNCHANGED <<input, opt, outs, targets, max_pid, tracks, counted, held, ret, faults>>

-----------------------------------------------------------------------------
(* apply_custom_pids, the flags and the check of equal languages.          *)

ntracks == Len(tracks)
TrackStreams == {tracks[t].stream : t \in DOMAIN tracks}

\* One PID counts up from track to track.
Assigned ==
  LET p == parse_pid_list(opt.pids).pids
  IN  [t \in 1..ntracks |-> IF Len(p) = 1 THEN p[1] + (t - 1) ELSE p[t]]

Conflict ==
  \E s \in DOMAIN outs \ TrackStreams :
    outs[s].id > 0 /\ \E t \in 1..ntracks : Assigned[t] = outs[s].id

\* What apply_custom_pids returns; a start so high that the count would touch
\* MaxPid is refused.
PidsRefused ==
  LET r == parse_pid_list(opt.pids)
  IN  IF ntracks = 0 THEN -1
      ELSE IF r.code # 0 THEN r.code
      ELSE IF Len(r.pids) = 1 /\ r.pids[1] + ntracks > MaxPid THEN 1
      ELSE IF Len(r.pids) # 1 /\ Len(r.pids) # ntracks THEN 1
      ELSE IF Conflict THEN 1
      ELSE 0

\* A null or empty list leaves the PIDs as they are.
NoPids == opt.pids \in {<<>>, <<Nothing>>}

TrackAt(s) == CHOOSE t \in DOMAIN tracks : tracks[t].stream = s

Repid ==
  [s \in DOMAIN outs |->
     IF s \in TrackStreams THEN [outs[s] EXCEPT !.id = Assigned[TrackAt(s)]] ELSE outs[s]]

ApplyPids ==
  /\ stage = "pids"
  /\ NoPids \/ PidsRefused = 0
  /\ stage' = "flags"
  /\ outs' = IF NoPids THEN outs ELSE Repid
  /\ UNCHANGED <<input, opt, targets, max_pid, tracks, counted, held, ret, faults>>

PidsFail ==
  /\ stage = "pids"
  /\ ~NoPids
  /\ \/ PidsRefused # 0 /\ Fail(held, counted, PidsRefused) /\ UNCHANGED faults
     \/ PidsRefused = 0 /\ Fault /\ Fail(held, counted, -1)

Flagged ==
  LET fo == parse_flag_list(opt.forced, ntracks).flags
      hi == parse_flag_list(opt.hi, ntracks).flags
  IN  [t \in DOMAIN tracks |-> [tracks[t] EXCEPT !.forced = fo[t], !.hi = hi[t]]]

\* Tracks a receiver could not tell apart; languages are compared as written.
Alike(a, b) == a.lang = b.lang /\ a.forced = b.forced /\ a.hi = b.hi

\* The preview does not compare the tracks.
FlagsRefused ==
  \/ parse_flag_list(opt.forced, ntracks).code # 0
  \/ ~opt.preview /\ \E a \in DOMAIN tracks, b \in DOMAIN tracks :
                        a < b /\ Alike(Flagged[a], Flagged[b])

ApplyFlags ==
  /\ stage = "flags"
  /\ ~FlagsRefused
  /\ stage' = "ready"
  /\ tracks' = Flagged
  /\ UNCHANGED <<input, opt, outs, targets, max_pid, counted, held, ret, faults>>

FlagsFail ==
  /\ stage = "flags"
  /\ \/ FlagsRefused /\ UNCHANGED faults
     \/ ~FlagsRefused /\ Fault
  /\ Fail(held, counted, 1)

\* The run is over and ctx_cleanup releases everything.
Finish ==
  /\ stage = "ready"
  /\ stage' = "idle"
  /\ held' = Cleaned(held, counted)
  /\ outs' = <<>> /\ targets' = <<>> /\ tracks' = <<>> /\ counted' = 0
  /\ UNCHANGED <<input, opt, max_pid, ret, faults>>

SetupSteps ==
  \/ OpenInput \/ OpenFails
  \/ MirrorStream \/ MirrorFails \/ AllMirrored
  \/ ListsParsed \/ ListsFail
  \/ AddTrack \/ BadTrack \/ TrackFails \/ TracksDone
  \/ ApplyPids \/ PidsFail
  \/ ApplyFlags \/ FlagsFail

SetupNext ==
  \/ input' \in Inputs /\ opt' \in Settings /\ Begin(input', opt')
  \/ SetupSteps
  \/ Finish

SetupSpec == Init /\ [][SetupNext]_setup

-----------------------------------------------------------------------------
(* What the setup promises.                                                *)

\* No two output streams are given the same PID, however preserved PIDs, PIDs of
\* overwritten streams, allocated ones and those of --pid come together.
DistinctPids ==
  \A a \in DOMAIN outs, b \in DOMAIN outs :
    a # b /\ outs[a].id # 0 => outs[a].id # outs[b].id

\* Tracks never share a stream, and a track on a mirrored stream replaces a
\* subtitle of its own language that the filter of --overwrite allows.  Its PID is
\* left to libavformat, lies in the allowed range, or is that of the stream it
\* replaces.  The loop drops the packets of exactly the input streams that a track
\* replaces: none is lost without a replacement, none is muxed twice.
StreamsOwned ==
  /\ \A t \in DOMAIN tracks, u \in DOMAIN tracks : t # u => tracks[t].stream # tracks[u].stream
  /\ \A t \in DOMAIN tracks :
       LET s == tracks[t].stream
       IN  s \in DOMAIN input.streams /\ ~opt.preview =>
             /\ opt.overwrite /\ input.streams[s].sub
             /\ input.streams[s].lang.code = tracks[t].lang.code
             /\ overwrite_lang_allowed(opt.only, input.streams[s].lang)
  /\ \A t \in DOMAIN tracks :
       \/ outs[tracks[t].stream].id \in {0} \cup MinPid..MaxPid
       \/ \E i \in DOMAIN targets :
            /\ targets[i].used /\ targets[i].out = tracks[t].stream
            /\ outs[tracks[t].stream].id = targets[i].pid
  /\ stage \in {"tracks", "pids", "flags", "ready"} /\ ~opt.preview =>
       \A i \in DOMAIN input.streams :
         is_overwrite_stream(i) <=> \E t \in DOMAIN tracks : tracks[t].stream = i

\* The streams of a finished setup carry the flags of --forced and --hi: the
\* comment on ctx_parse_tracks says that it applies them.
FlagsSignalled ==
  stage = "ready" /\ ~opt.preview =>
    \A t \in DOMAIN tracks : /\ outs[tracks[t].stream].forced = tracks[t].forced
                              /\ outs[tracks[t].stream].hi = tracks[t].hi
-----------------------------------------------------------------------------
(* The inductive invariant behind DistinctPids and StreamsOwned.           *)

OverOwn(s) == s \in Seq({s[i] : i \in DOMAIN s})

\* Output stream s mirrors the input stream of the same index.
Mirrors(s) == ~opt.preview /\ s \in DOMAIN input.streams

SetupTypes ==
  /\ stage \in Stages
  /\ input \in Inputs /\ opt \in Settings
  /\ max_pid \in Nat
  /\ OverOwn(outs) /\ OverOwn(targets) /\ OverOwn(tracks)
  /\ \A s \in DOMAIN outs : "id" \in DOMAIN outs[s] /\ outs[s].id \in Nat
  /\ \A t \in DOMAIN tracks : {"stream", "lang"} \subseteq DOMAIN tracks[t]

\* The output streams are the mirrored ones and then those of new tracks.
StreamsMirrored ==
  /\ stage \in {"idle", "open", "failed"} => outs = <<>>
  /\ stage \notin {"tracks", "pids", "flags", "ready"} => tracks = <<>>
  /\ stage = "mirror" => ~opt.preview /\ Len(outs) <= Len(input.streams)
  /\ stage = "open" => ~opt.preview
  /\ stage \in {"lists", "tracks", "pids", "flags", "ready"} /\ ~opt.preview =>
       Len(input.streams) <= Len(outs)

\* A target is a mirrored subtitle that may be overwritten, and listed once.
TargetsSound ==
  /\ \A i \in DOMAIN targets :
       LET g == targets[i]
           st == input.streams[g.out]
       IN  /\ DOMAIN g = {"in", "out", "pid", "lang", "used"}
           /\ g.in = g.out /\ g.out \in DOMAIN outs /\ Mirrors(g.out)
           /\ g.pid = st.pid /\ g.lang = st.lang /\ st.sub /\ opt.overwrite
           /\ overwrite_lang_allowed(opt.only, st.lang)
           /\ g.used \in BOOLEAN
  /\ \A i, j \in DOMAIN targets : i # j => targets[i].out # targets[j].out

\* The tracks on mirrored streams are those that took a target over.
TracksPlaced ==
  /\ \A t \in DOMAIN tracks : tracks[t].stream \in DOMAIN outs
  /\ \A t, u \in DOMAIN tracks : t # u => tracks[t].stream # tracks[u].stream
  /\ \A t \in DOMAIN tracks : Mirrors(tracks[t].stream) =>
       \E i \in DOMAIN targets : /\ targets[i].used /\ targets[i].out = tracks[t].stream
                                  /\ targets[i].lang.code = tracks[t].lang.code
  /\ \A i \in DOMAIN targets : targets[i].used =>
       \E t \in DOMAIN tracks : tracks[t].stream = targets[i].out

\* Where the PIDs come from until those of --pid are applied.
PidsGiven ==
  stage \in {"mirror", "lists", "tracks", "pids"} =>
    /\ \A s \in DOMAIN outs :
         /\ Mirrors(s) => outs[s].id \in {0, input.streams[s].pid}
         /\ ~Mirrors(s) => \/ outs[s].id = 0
                           \/ opt.preserve /\ ~opt.preview /\ outs[s].id \in MinPid..MaxPid
         /\ opt.preserve /\ ~opt.preview => outs[s].id <= max_pid
    /\ \A i \in DOMAIN targets :
         opt.preserve \/ targets[i].used => outs[targets[i].out].id = targets[i].pid

\* The PIDs of the tracks, once those of --pid are applied.
PidsFinal ==
  stage \in {"flags", "ready"} =>
    \A t \in DOMAIN tracks :
      \/ outs[tracks[t].stream].id \in {0} \cup MinPid..MaxPid
      \/ \E i \in DOMAIN targets :
           /\ targets[i].used /\ targets[i].out = tracks[t].stream
           /\ outs[tracks[t].stream].id = targets[i].pid

\* Streams, targets and tracks belong together, and no PID is given twice.
SetupInv ==
  /\ SetupTypes /\ StreamsMirrored /\ TargetsSound /\ TracksPlaced
  /\ PidsGiven /\ PidsFinal /\ DistinctPids

==============================================================================
