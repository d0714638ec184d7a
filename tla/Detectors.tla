------------------------------ MODULE Detectors ------------------------------
(***************************************************************************)
(* The detectors beside the YOLO26 cache, and what the detectors give:     *)
(* the checkpoints and engines of EdgeCrafter (edgecrafter_loader.py), the *)
(* two models of the DEIMv2 back end (deimv2_infer.py), and the boxes,     *)
(* poses and masks they all normalise (also yolo26_loader.py).             *)
(*                                                                         *)
(* A load is one function of the state before it and of how its parts end; *)
(* loads follow each other.  What two loads at once do to the same files   *)
(* is described in the README.                                             *)
(***************************************************************************)
EXTENDS Integers, Sequences

LOCAL INSTANCE FiniteSetsExt
LOCAL INSTANCE SequencesExt

------------------------------------------------------------------------------
(* A checkpoint on the volume: the file and the .part beside it, each "absent",         *)
(* "empty", "partial" or "whole"                                                        *)

NoFile == [path |-> "absent", part |-> "absent"]

OnDisk(file) == file.path \in {"partial", "whole"}

\* download is how far it comes: "unreachable" before a byte, "cut" amid the bytes, "unseen"
\* when they end early and the server had not said how many to expect, which urlretrieve()
\* takes for the end, "kept" when the process dies before the file gets its name, or "ok".
EnsureCheckpoint(file, download) ==
  IF OnDisk(file) THEN file
  ELSE CASE download = "unreachable" -> file
         [] download = "cut"    -> [file EXCEPT !.part = "partial"]
         [] download = "unseen" -> [path |-> "partial", part |-> "absent"]
         [] download = "kept"   -> [file EXCEPT !.part = "whole"]
         [] download = "ok"     -> [path |-> "whole", part |-> "absent"]

------------------------------------------------------------------------------
(* A worker: [files, path, models, loaded].  path are the subtrees on sys.path, the     *)
(* latest first; models maps the tasks built to the subtree whose engine built them     *)

Subtree == [det |-> "ecdetseg", pose |-> "ecpose"]

NewProcess(files) ==
  [files |-> files, path |-> <<>>, models |-> [t \in {} |-> ""], loaded |-> FALSE]

\* A subtree already on the path stays where it is.
AddSubtreeToPath(path, subtree) ==
  IF subtree \in ToSet(path) THEN path ELSE <<subtree>> \o path

\* The engine is imported anew, from the first subtree on the path; then the model is
\* built with it, or not.
BuildModel(w, t, builds) ==
  LET path == AddSubtreeToPath(w.path, Subtree[t])
  IN [w EXCEPT !.path = path,
               !.models = IF builds
                          THEN [k \in DOMAIN @ \cup {t} |-> IF k = t THEN Head(path) ELSE @[k]]
                          ELSE @]

\* One task of a load r = [worker, raised], unless an earlier one raised; ends maps it to
\* [download, builds].  A checkpoint that is not whole does not load.
LoadTask(r, t, ends) ==
  LET file == EnsureCheckpoint(r.worker.files[t], ends[t].download)
      fetched == [r.worker EXCEPT !.files[t] = file]
      builds == ends[t].builds /\ file.path = "whole"
  IN IF r.raised THEN r
     ELSE [worker |-> IF OnDisk(file) THEN BuildModel(fetched, t, builds) ELSE fetched,
           raised |-> ~builds]

\* A load that raised leaves what it has changed, and the next one builds every model again.
Load(w, tasks, ends) ==
  LET begun == [worker |-> w, raised |-> FALSE]
      det == IF "det" \in tasks THEN LoadTask(begun, "det", ends) ELSE begun
      end == IF "pose" \in tasks THEN LoadTask(det, "pose", ends) ELSE det
  IN IF w.loaded THEN w ELSE [end.worker EXCEPT !.loaded = ~end.raised]

\* The process dies: the volume stays.
Restarted(w) == NewProcess(w.files)

\* The tasks of a frame that run.
InferTasks(w, tasks) == tasks \cap DOMAIN w.models

------------------------------------------------------------------------------
(* The DEIMv2 back end: [model, backend], each "none", "official" or "fallback"; end is *)
(* "ok", "unbuilt" or, for the fallback, "unmoved": built, but not moved to its device  *)

DeimLoad(d, kind, end) ==
  IF d.model # "none" THEN d
  ELSE CASE end = "ok" -> [model |-> kind, backend |-> kind]
         [] end = "unmoved" /\ kind = "fallback" -> [d EXCEPT !.model = kind]
         [] OTHER -> d

DeimReady(d) == d.model # "none"

\* The inference a frame gets.
DeimPath(d) == IF d.backend = "fallback" THEN "fallback" ELSE "official"

------------------------------------------------------------------------------
(* What a detector gives, pixels to hundredths of the frame                             *)

InFrame(v) == Max({0, Min({100, v})})

\* The width is that of the whole box, also of one that begins outside the frame.
NormalSide(a, b, size) ==
  LET start == InFrame((100 * a) \div size)
  IN [start |-> start, length |-> Max({0, Min({100 - start, (100 * (b - a)) \div size})})]

NormalizeBox(x1, y1, x2, y2, w, h) ==
  LET across == NormalSide(x1, x2, w)
      down == NormalSide(y1, y2, h)
  IN [x |-> across.start, y |-> down.start, w |-> across.length, h |-> down.length]

\* A detection is [class, score]; no filter takes every class.  YOLO26 has applied the
\* score itself, DEIMv2 keeps a score equal to the threshold, EdgeCrafter does not.
Kept(backend, found, conf, filter) ==
  SelectSeq(found, LAMBDA d :
    /\ (filter.given => d.class \in filter.classes)
    /\ CASE backend = "edgecrafter" -> d.score > conf
         [] backend = "deimv2" -> d.score >= conf
         [] backend = "yolo26" -> TRUE)

\* The rows and columns of a flat array of keypoints: triples before pairs.
DecodeKeypoints(size) ==
  IF size % 3 = 0 THEN <<size \div 3, 3>>
  ELSE IF size % 2 = 0 THEN <<size \div 2, 2>> ELSE <<0, 0>>

Keypoints == 17

MaxContour == 120

\* The points kept of a mask: every so-manieth, none of fewer than three.
ContourPoints(points, most) ==
  LET stride == Max({1, points \div most})
  IN IF points < 3 THEN 0 ELSE (points + stride - 1) \div stride
===============================================================================
