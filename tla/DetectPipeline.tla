---------------------------- MODULE DetectPipeline ----------------------------
(***************************************************************************)
(* POST /detect, from the entities of a frame to the coloured answer       *)
(* (server.py), over the per-session stores it reads and writes: tracker,  *)
(* temporal memory, semantic labels, primary risk focus, cached draft.     *)
(* Frames of one session follow each other and mix with the frames of a    *)
(* stream, the answers of the reasoner, in time or too late, the end of    *)
(* the temporal jobs and the passing of time.                              *)
(*                                                                         *)
(* Abstractions: a question or a job may be refused whenever the code asks *)
(* for one (the intervals, back-offs and caps that refuse are the subject  *)
(* of VlmReasoner and AsyncReasoner).  A request turned away (shutting     *)
(* down, not ready, bad image, failed inference) changes nothing here: it  *)
(* is a stuttering step.                                                   *)
(***************************************************************************)
EXTENDS SceneMemory, RequestPath

CONSTANTS
  Sessions,    \* every session id
  Callers,     \* those of /detect
  Kinds,       \* the requests they send (Payload of RequestPath)
  Streams,     \* those of /ws/vision (its camera ids)
  FrameSet,    \* the frames: sequences of entities
  Setups,      \* records [mode, risk, ids, applied, frames]: how the worker is configured
  Decisions,   \* records [hazard, level, primary, label]: what the model may say of a box
  SlowAnswer,  \* ghost: an answer this many ticks after its question is slow
  MaxTicks     \* bound of the model, as is frames, the frames of a setup

ASSUME PipelineAssumption ==
  /\ \A E \in FrameSet : E \in Seq([class : STRING, box : [x : Int, y : Int, w : Int, h : Int],
                                    low : BOOLEAN])
  /\ Callers \cup Streams \subseteq Sessions
  /\ Kinds \subseteq [mode : STRING, hint : STRING, tasks : SUBSET STRING, prefs : SUBSET STRING]
  /\ Setups \subseteq [mode : {"off", "mock", "gemini"}, risk : {"on", "off", "broken"},
                         ids : BOOLEAN, applied : SUBSET {"labels", "focus"}, frames : Nat]
  /\ \A c \in Setups : c.ids => c.mode = "gemini"
  /\ Decisions \subseteq [hazard : STRING, level : {Levels[k] : k \in DOMAIN Levels},
                            primary : BOOLEAN, label : BOOLEAN]
  /\ {SlowAnswer, MaxTicks} \subseteq Nat

VARIABLES
  setup,     \* the configuration: chosen once
  tracker,   \* risk/tracking.py: session -> None or its tracks
  memory,    \* temporal_reasoning/session_memory.py: session -> None or its memory
  labels,    \* risk/semantic_memory.py: session -> labels
  focus,     \* risk/primary_risk_focus.py: session -> focus entries
  draft,     \* risk/vlm_reasoner.py: session -> None or [risks, age, of]
  asked,     \* session -> None or the question in flight
  late,      \* the questions whose thread was abandoned: <<session, question>>
  jobs,      \* session -> the running temporal job and the latest pending one
  reply,     \* the answer sent in this step, or None
  used,      \* bounds: [frames, ticks]
  life,      \* ghost: how often the tracker began the session
  given,     \* ghost: the track ids given out in this life
  mixed      \* ghost: the tracker was evicted while other stores know its ids, the memory
             \* was kept for the moment between the two clocks, or a slow answer came

stores == <<tracker, memory, labels, focus, draft>>
ghosts == <<life, given, mixed>>
vars == <<setup, stores, asked, late, jobs, reply, used, ghosts>>

TypeOK ==
  /\ setup \in Setups
  /\ \A s \in Sessions :
       /\ tracker[s] = None \/ (/\ tracker[s].next \in Nat \ {0}
                                /\ Cardinality(DOMAIN tracker[s].tracks) <= MaxTracks
                                /\ tracker[s].idle <= SessionTTL + 1)
       /\ memory[s] = None \/ \A t \in DOMAIN memory[s].hist : Len(memory[s].hist[t]) \in 1..Window
       /\ Cardinality(DOMAIN labels[s]) <= MaxLabels
       /\ Len(jobs[s]) <= 2
       /\ life[s] \in Nat /\ mixed[s] \in BOOLEAN
  /\ Cardinality(Live(tracker)) <= MaxActive
  /\ Cardinality(Live(memory)) <= MaxMemories
  /\ used.frames \in 0..setup.frames /\ used.ticks \in 0..MaxTicks

Init ==
  /\ setup \in Setups
  /\ tracker = [s \in Sessions |-> None]
  /\ memory = [s \in Sessions |-> None]
  /\ labels = [s \in Sessions |-> <<>>]
  /\ focus = [s \in Sessions |-> {}]
  /\ draft = [s \in Sessions |-> None]
  /\ asked = [s \in Sessions |-> None]
  /\ late = {}
  /\ jobs = [s \in Sessions |-> <<>>]
  /\ reply = None
  /\ used = [frames |-> 0, ticks |-> 0]
  /\ life = [s \in Sessions |-> 0]
  /\ given = [s \in Sessions |-> {}]
  /\ mixed = [s \in Sessions |-> FALSE]

------------------------------------------------------------------------------
(* The tracker's part of a frame *)

Begun(entry, new) == IF entry = None THEN new ELSE entry

\* The stores after the sweep and, when session s is new, an eviction.
Rooms(store, s, ttl, cap) == WithRoom(SweptStore(store, ttl), s, cap)

\* The tracks session s has when a frame comes, and the life that frame belongs to.
Known(s) == Begun(SweptStore(tracker, SessionTTL)[s], NewTracker)
LifeOf(s) == IF SweptStore(tracker, SessionTTL)[s] = None THEN life[s] + 1 ELSE life[s]

Track(s, room, k, over) ==
  LET anew == LifeOf(s) # life[s]
      lost(o) == tracker[o] # None /\ tracker[o].idle <= SessionTTL /\ room[o] = None
  IN /\ tracker' = [room EXCEPT ![s] = k]
     /\ life' = [life EXCEPT ![s] = LifeOf(s)]
     /\ given' = [given EXCEPT ![s] = DOMAIN k.tracks \cup IF anew THEN {} ELSE @]
     /\ mixed' = [o \in Sessions |-> mixed[o] \/ lost(o) \/ (o = s /\ over)]

\* The frame's entities with their tracks.
Pairings(s, E, matched) == Assigned(E, Known(s), matched)

\* A switched-off engine does not track; a broken matrix raises after the tracking.
TrackFrame(s, E, matched, of, over) ==
  IF setup.risk = "off" THEN UNCHANGED <<tracker, ghosts>>
  ELSE \E room \in Rooms(tracker, s, SessionTTL, MaxActive) :
         Track(s, room, Tracked(E, Known(s), matched, of), over)

\* The tracks the rest of /detect is given.
TracksOf(s, E, of) == IF setup.risk # "on" THEN <<>> ELSE Visible(E, of, LifeOf(s))

\* The track ids the entities themselves carry.
EntityIds(E, tracks) ==
  [i \in DOMAIN E |->
     IF setup.ids THEN {tracks[k].id : k \in {k \in DOMAIN tracks : tracks[k].box = E[i].box}}
     ELSE {}]

RisksOf(E, tracks) == IF setup.risk = "on" THEN Scored(E, tracks) ELSE {}

------------------------------------------------------------------------------
(* The reasoner's part of a frame *)

Reasoning == setup.mode # "off" /\ setup.risk # "off"

\* The scene is told when the reasoner is on and the engine or the request asks for it,
\* or when the request asks for it.
TellsScene(kind) == Reasoning \/ WantsHse(kind)

\* The draft served with the frame.  A poll gets it without the time it was stored: its
\* age then counts as nothing.
Served(s, kind) ==
  IF \/ ~(setup.mode # "off" /\ TellsScene(kind))
     \/ draft[s] = None \/ draft[s].age > CacheTTL
  THEN None
  ELSE IF PollOnly(kind) THEN [draft[s] EXCEPT !.age = 0] ELSE draft[s]

MayAsk(s, kind, level) ==
  /\ setup.mode # "off" /\ TellsScene(kind)
  /\ ~PollOnly(kind)
  /\ WantsHse(kind) \/ Forced(kind) \/ Rank(level) >= Rank("YELLOW")
  /\ asked[s] = None

\* The mock's answer is in the question; the model is asked about the selected boxes.
Question(E, ids, risks, of) ==
  [of |-> of, age |-> 0,
   told |-> IF setup.mode = "mock" THEN MockDrafts(risks) ELSE {},
   boxes |-> IF setup.mode = "mock" THEN {} ELSE {ids[i] : i \in Selected(E, ids, risks)}]

\* A job takes the frame along; while one runs the latest frame waits.
MayStart(kind, reasons) == setup.mode # "off" /\ reasons # {} /\ ~PollOnly(kind)
Submitted(queue, ctx) == IF queue = <<>> THEN <<ctx>> ELSE <<Head(queue), ctx>>

Mode(kind) == DegradationMode(setup.risk = "broken", setup.mode = "off" /\ WantsHse(kind))

------------------------------------------------------------------------------
(* POST /detect *)

\* The scene of the frame, before the focus filter.
SceneOf(s, kind, tracks, risks) ==
  IF TellsScene(kind) THEN SceneRisks(risks, Served(s, kind), tracks) ELSE {}

\* The reasoner may be asked.  Its thread is given the very list of the engine's risks, if
\* there are any, and may read it after the edge risks have been added.
Ask(s, E, kind, ids, risks, edges) ==
  \/ UNCHANGED asked
  \/ /\ MayAsk(s, kind, Highest({r.level : r \in risks}))
     /\ \E read \in {risks, IF risks = {} THEN {} ELSE risks \cup edges} :
          asked' = [asked EXCEPT ![s] = Question(E, ids, read, LifeOf(s))]

\* The temporal layer: memory m already has the frame, edges are its risks.
Remember(s, E, kind, tracks, risks, room, m, edges, level) ==
  /\ memory' = [room EXCEPT ![s] = m]
  /\ \/ UNCHANGED jobs
     \/ /\ MayStart(kind, Reasons(m, E, risks, edges, level, Forced(kind)))
        /\ jobs' = [jobs EXCEPT ![s] = Submitted(@, [E |-> E, tracks |-> tracks])]

\* What the focus filter marks, and the labels of the answer: none unless the worker is
\* told to apply them.
Suppressed(s, scene, ids, risks) ==
  IF "focus" \in setup.applied THEN Context(scene, focus[s], ids, risks) ELSE {}

LabelsOf(s, ids) == IF "labels" \in setup.applied THEN Applied(labels[s], ids) ELSE <<>>

\* The focus filter, the colours and the labels.
Respond(s, E, kind, tracks, ids, risks, edges, level, m, scene, context) ==
  LET told == Filtered(scene, context)
  IN reply' = [session |-> s, kind |-> kind, E |-> E, ids |-> ids, tracks |-> tracks,
               risks |-> risks, edges |-> edges, level |-> level, mode |-> Mode(kind),
               scene |-> told, context |-> context, colours |-> Stamped(told, E, ids),
               labels |-> LabelsOf(s, ids), corrections |-> m.corrections]

\* The reasoner, the temporal layer and the answer; memory m already has the frame, and
\* room was made for it.  (\E x \in {e} names the value of e.)
Judge(s, E, kind, tracks, room, m, edges) ==
  \E ids \in {EntityIds(E, tracks)}, risks \in {RisksOf(E, tracks)} :
  \E scene \in {SceneOf(s, kind, tracks, risks)},
     level \in {Highest({r.level : r \in risks \cup edges})} :
  \E context \in {Suppressed(s, scene, ids, risks \cup edges)} :
    /\ Ask(s, E, kind, ids, risks, edges)
    /\ Remember(s, E, kind, tracks, risks, room, m, edges, level)
    /\ Respond(s, E, kind, tracks, ids, risks, edges, level, m, scene, context)

\* Everything after the tracking, with the memory's room.
Compose(s, E, kind, tracks, room) ==
  \E rows \in {Rows(E, tracks)} :
  \E m \in {Remembered(Begun(room[s], NewMemory), rows)} :
  \E edges \in {EdgeRisks(m, E, rows)} : Judge(s, E, kind, tracks, room, m, edges)

\* The memory reads the time a moment after the tracker, and did so in earlier frames: at
\* its limit it finds the session expired or not whatever the tracker found.
MemoryRooms(s) ==
  UNION {Rooms(memory, s, MemoryTTL + lag, MaxMemories) : lag \in {-1, 0, 1}}

\* The memory is kept although the tracker's clock is past the memory's limit.
Overstayed(s, room) == room[s] # None /\ room[s].idle > MemoryTTL

\* The whole handler.
Detect(s, E, kind) ==
  /\ used.frames < setup.frames
  /\ used' = [used EXCEPT !.frames = @ + 1]
  /\ \E matched \in {Match(Candidates(E, Known(s).tracks))}, room \in MemoryRooms(s) :
     \E of \in {Pairings(s, E, matched)} :
       /\ TrackFrame(s, E, matched, of, Overstayed(s, room))
       /\ \E tracks \in {TracksOf(s, E, of)} : Compose(s, E, kind, tracks, room)
  /\ UNCHANGED <<setup, labels, focus, draft, late>>

\* A frame of a stream: the risk hook only, so only the tracker hears of it.
StreamFrame(s, E) ==
  /\ setup.risk # "off"
  /\ used.frames < setup.frames
  /\ used' = [used EXCEPT !.frames = @ + 1]
  /\ \E matched \in {Match(Candidates(E, Known(s).tracks))} :
       TrackFrame(s, E, matched, Pairings(s, E, matched), FALSE)
  /\ reply' = None
  /\ UNCHANGED <<setup, memory, labels, focus, draft, asked, late, jobs>>

------------------------------------------------------------------------------
(* The reasoner answers *)

\* What the model says: a decision on each of some of the boxes it was asked about.
Verdicts(q) == UNION {[boxes -> Decisions] : boxes \in SUBSET q.boxes}

\* What a verdict leaves in the label and focus memories, whoever waits for it.
Opinion(s, q, v) ==
  /\ \E kept \in LabelStored(labels[s], UNION {id \in DOMAIN v : v[id].label}, q.of) :
       labels' = [labels EXCEPT ![s] = kept]
  /\ LET primary == {id \in DOMAIN v : v[id].primary}
         news == UNION {{[hazard |-> v[id].hazard, level |-> v[id].level, tid |-> t] : t \in id} :
                          id \in primary}
     IN focus' = [focus EXCEPT ![s] = FocusStored(@, news, q.of)]

Cached(s, q, risks) == draft' = [draft EXCEPT ![s] = [risks |-> risks, age |-> 0, of |-> q.of]]

Answered(s, q) ==
  /\ mixed' = [mixed EXCEPT ![s] = @ \/ q.age >= SlowAnswer]
  /\ UNCHANGED <<life, given>>

\* An answer in time: the verdict of the model or, from the mock, the engine's own risks.
Answer(s) ==
  /\ asked[s] # None
  /\ asked' = [asked EXCEPT ![s] = None]
  /\ \E v \in Verdicts(asked[s]) :
       /\ Opinion(s, asked[s], v)
       /\ Cached(s, asked[s], asked[s].told \cup
                   {BoxDraft(v[id].hazard, v[id].level, id) : id \in DOMAIN v})
  /\ Answered(s, asked[s])
  /\ reply' = None
  /\ UNCHANGED <<setup, tracker, memory, late, jobs, used>>

\* No answer, or none in time: an earlier good draft stays.  The thread of a timed-out
\* request goes on.
GiveUp(s) ==
  /\ asked[s] # None
  /\ asked' = [asked EXCEPT ![s] = None]
  /\ late' \in {late, IF asked[s].boxes = {} THEN late ELSE late \cup {<<s, asked[s]>>}}
  /\ reply' = None
  /\ UNCHANGED <<setup, stores, jobs, used, ghosts>>

\* Also what POST /reason leaves when a client asks about a frame it has the answer to: the
\* memories learn of it, the draft does not.
LateAnswer(p) ==
  /\ late' = late \ {p}
  /\ \E v \in Verdicts(p[2]) : Opinion(p[1], p[2], v)
  /\ Answered(p[1], p[2])
  /\ reply' = None
  /\ UNCHANGED <<setup, tracker, memory, draft, asked, jobs, used>>

------------------------------------------------------------------------------
(* A temporal job starts and ends *)

\* The corrections a job may come to.  (The mock would prefer an id the entity carries.)
Results(job) ==
  IF setup.mode = "mock" THEN {MockCorrections(job.E, job.tracks)}
  ELSE {{}} \cup {KeptCorrections({Correction({job.tracks[k].id}, job.E[i].class)}) :
                    k \in DOMAIN job.tracks, i \in DOMAIN job.E}

\* A job says that it waits or runs: the session's memory is found or begun.
JobStarts(s) ==
  /\ jobs[s] # <<>>
  /\ \E room \in Rooms(memory, s, MemoryTTL, MaxMemories) :
       memory' = [room EXCEPT ![s] = Begun(room[s], NewMemory)]
  /\ reply' = None
  /\ UNCHANGED <<setup, tracker, labels, focus, draft, asked, late, jobs, used, ghosts>>

\* With a result or without: the session's memory is found or begun either way.
JobEnds(s) ==
  /\ jobs[s] # <<>>
  /\ jobs' \in {[jobs EXCEPT ![s] = Tail(@)], [jobs EXCEPT ![s] = <<>>]}
  /\ \E room \in Rooms(memory, s, MemoryTTL, MaxMemories) :
       LET m == Begun(room[s], NewMemory)
       IN memory' \in {[room EXCEPT ![s] = m]} \cup
                      {[room EXCEPT ![s] = StoredResult(m, r)] : r \in Results(Head(jobs[s]))}
  /\ reply' = None
  /\ UNCHANGED <<setup, tracker, labels, focus, draft, asked, late, used, ghosts>>

------------------------------------------------------------------------------
(* Time *)

Older(age, limit) == IF age < limit THEN age + 1 ELSE limit
Waiting(q) == [q EXCEPT !.age = Older(@, SlowAnswer)]
AgedContext(c) == IF c = None THEN None ELSE [c EXCEPT !.age = Older(@, RefreshTTL)]
AgedMemory(m) ==
  [m EXCEPT !.idle = Older(@, MemoryTTL + 2), !.context = AgedContext(m.context)]

\* Ages stop where they no longer matter; what has expired is dropped when next read.
Tick ==
  /\ used.ticks < MaxTicks
  /\ used' = [used EXCEPT !.ticks = @ + 1]
  /\ tracker' = [s \in Sessions |-> IF tracker[s] = None THEN None
                   ELSE [tracker[s] EXCEPT !.idle = Older(@, SessionTTL + 1)]]
  /\ memory' = [s \in Sessions |-> IF memory[s] = None THEN None ELSE AgedMemory(memory[s])]
  /\ labels' = [s \in Sessions |->
                  [t \in DOMAIN labels[s] |->
                     [labels[s][t] EXCEPT !.age = Older(@, LabelTTL)]]]
  /\ focus' = [s \in Sessions |-> {[f EXCEPT !.age = Older(@, FocusTTL)] : f \in focus[s]}]
  /\ draft' = [s \in Sessions |-> IF draft[s] = None THEN None
                 ELSE [draft[s] EXCEPT !.age = Older(@, CacheTTL + 1)]]
  /\ asked' = [s \in Sessions |-> IF asked[s] = None THEN None ELSE Waiting(asked[s])]
  /\ late' = {<<p[1], Waiting(p[2])>> : p \in late}
  /\ reply' = None
  /\ UNCHANGED <<setup, jobs, ghosts>>

Next ==
  \/ \E s \in Callers, E \in FrameSet, kind \in Kinds : Detect(s, E, kind)
  \/ \E s \in Streams, E \in FrameSet : StreamFrame(s, E)
  \/ \E s \in Callers : Answer(s) \/ GiveUp(s) \/ JobStarts(s) \/ JobEnds(s)
  \/ \E p \in late : LateAnswer(p)
  \/ Tick

Spec == Init /\ [][Next]_vars

------------------------------------------------------------------------------
(* Properties *)

\* A track id names one track for as long as the tracker keeps the session: an id once
\* given is never given to another track, through drops, gaps and the cap
\* (tracking.py:114-179, next_id).
IdsNeverReused ==
  [][\A s \in Sessions :
       tracker[s] # None /\ tracker'[s] # None /\ life'[s] = life[s] =>
         DOMAIN tracker'[s].tracks \cap given[s] \subseteq DOMAIN tracker[s].tracks]_vars

\* A history of the temporal memory is of one track, although the memory and the tracker
\* keep, sweep and evict their sessions apart (session_memory.py:108-131, tracking.py:67-89):
\* only an eviction, or a frame at the very limit, can mix two.
HistoryOfOneTrack ==
  \A s \in Sessions : memory[s] # None /\ ~mixed[s] =>
    \A t \in DOMAIN memory[s].hist : t > 0 =>
      \A i, j \in DOMAIN memory[s].hist[t] : memory[s].hist[t][i].of = memory[s].hist[t][j].of

\* A label is shown on the track it was said of, never on one that got the same id after
\* the tracker began anew (semantic_memory.py:379-509).
LabelsOfTheirTrack ==
  reply # None /\ ~mixed[reply.session] =>
    \A i \in DOMAIN reply.labels : reply.labels[i].of = life[reply.session]

\* A draft that is shown on a track was said of that track, and is still fresh: at most
\* LinkedTTL old, except in a poll, which does not know its age (server.py:916-1004,
\* vlm_reasoner.py:164-172).
LinkedDraftsFresh ==
  reply # None =>
    LET s == reply.session IN
      (\E r \in reply.scene : r.by = "vlm" /\ ~r.candidate) =>
        /\ PollOnly(reply.kind) \/ draft[s].age <= LinkedTTL
        /\ mixed[s] \/ draft[s].of = life[s]

\* No filter hides an alert: the entity an ORANGE or RED risk of the engine is shown on,
\* and the entity of a track such a linked draft names, have at least its colour
\* (primary_risk_focus.py:492-494, server.py:1050-1127).
AlertsNotHidden ==
  reply # None /\ reply.scene # {} =>
    \A r \in {r \in reply.scene \cup reply.risks : Rank(r.level) >= Rank("ORANGE") /\ r.box # None} :
      \A i \in DOMAIN reply.E : reply.E[i].box = r.box =>
        reply.colours[i] \in {Levels[k] : k \in Rank(r.level)..4}

\* A risk is taken for the context of a primary one only in a frame that shows the
\* primary: the very track the model named is there, and the frame's own rules find that
\* hazard about it (primary_risk_focus.py:298-378).
SuppressionJustified ==
  reply # None =>
    \A r \in reply.context :
      \E i \in DOMAIN reply.E, f \in focus[reply.session] :
        /\ f.tid \in reply.ids[i] /\ f.hazard = r.hazard
        /\ mixed[reply.session] \/ f.of = life[reply.session]
        /\ \E own \in reply.risks \cup reply.edges : own.hazard = r.hazard /\ f.tid \in own.tids

\* Not so: the correction of one object never names the track of a protected one
\* (semantic_corrections.py:11-14, 66-78).
ProtectedNeverCorrected ==
  reply # None =>
    \A c \in reply.corrections : \A k \in DOMAIN reply.tracks :
      reply.tracks[k].id \in c.tids => reply.tracks[k].class \notin Protected
===============================================================================
