------------------------------ MODULE AnswerText ------------------------------
(***************************************************************************)
(* From a call of the model to a reasoner status: the retries of the       *)
(* adapter (risk/gemini_reasoner.py) and what is made of the text that     *)
(* comes back (risk/vlm_reasoner.py).                                      *)
(*                                                                         *)
(* A text is a sequence of tokens: "{", "}", a double quote, a backslash   *)
(* and anything else.                                                      *)
(***************************************************************************)
EXTENDS RequestPath

LOCAL INSTANCE FiniteSetsExt
LOCAL INSTANCE SequencesExt

------------------------------------------------------------------------------
(* The call *)

\* attempts are what each would come to: "valid", "text", "busy" (503) or "fails".  The
\* first that answers ends it; without one, a single 503 makes the service unavailable.
Generated(attempts, retries) ==
  LET tried == SubSeq(attempts, 1, retries + 1)
      answers == {i \in DOMAIN tried : tried[i] \in {"valid", "text"}}
  IN IF answers # {} THEN tried[Min(answers)]
     ELSE IF \E i \in DOMAIN tried : tried[i] = "busy" THEN "unavailable" ELSE "error"

------------------------------------------------------------------------------
(* The objects in a text *)

\* The walk of _json_candidates: a quote hides the braces up to the next one, also in the
\* prose before an object.  spans are the outermost pairs of braces, in order.
JsonCandidates(text) ==
  LET Step(w, i) ==
        LET t == text[i] IN
        CASE w.quoted /\ w.escaped -> [w EXCEPT !.escaped = FALSE]
          [] w.quoted /\ ~w.escaped ->
               [w EXCEPT !.escaped = (t = "\\"), !.quoted = (t # "\"")]
          [] ~w.quoted /\ t = "\"" -> [w EXCEPT !.quoted = TRUE]
          [] ~w.quoted /\ t = "{" ->
               [w EXCEPT !.start = IF w.depth = 0 THEN i ELSE @, !.depth = @ + 1]
          [] ~w.quoted /\ t = "}" /\ w.depth > 0 ->
               [w EXCEPT !.depth = @ - 1,
                         !.spans = IF w.depth = 1 THEN Append(@, <<w.start, i>>) ELSE @]
          [] OTHER -> w
      walk == FoldLeft(Step, [quoted |-> FALSE, escaped |-> FALSE, depth |-> 0, start |-> 0,
                              spans |-> <<>>],
                       [i \in 1..Len(text) |-> i])
  IN walk.spans

\* What an answer gives: the whole text when it is an object, else the fenced block, else
\* the first of the objects found that has a known key, else the first.  Each is "known",
\* "other" or "none"; found are the candidates of the block, or of the text without any.
Extracted(whole, fenced, found) ==
  LET objects == SelectSeq(found, LAMBDA o : o # "none")
  IN FirstOf(<<Case(whole # "none", whole), Case(fenced # "none", fenced),
               Case("known" \in ToSet(objects), "known"),
               Case(objects # <<>>, "other")>>, "none")

------------------------------------------------------------------------------
(* The status *)

\* An object the schema rejects: too many updates, an unknown hazard, a number out of
\* range.  A valid answer has passed it.  (The matrix loads: otherwise every answer errs.)
GeminiStatus(available, generated, extracted, accepted) ==
  FirstOf(<<Case(~available, "unavailable"),
            Case(generated \in {"unavailable", "error"}, generated),
            Case(generated = "valid", "ok"),
            Case(extracted = "none", "json_parse_error"),
            Case(~accepted, "schema_error")>>, "ok")

\* The reasoner, in every mode.
ReasonStatus(enabled, mode, gemini) ==
  FirstOf(<<Case(~enabled \/ mode = "disabled", "disabled"),
            Case(mode = "mock", "ok"),
            Case(mode = "gemini", gemini)>>, "unavailable")

\* POST /reason: shutting down, a bad frame, the wait run out, or what the reasoner says.
RouteStatus(accepting, frameError, inTime, status) ==
  FirstOf(<<Case(~accepting, <<503, "shutting_down">>),
            Case(frameError # "none", <<StatusFor(frameError), "error">>),
            Case(~inTime, <<200, "timeout">>)>>, <<200, status>>)

------------------------------------------------------------------------------
(* The open-vocabulary scanner; last maps the sessions scanned before to the time of    *)
(* the last scan                                                                        *)

\* A scan counts when it begins, whatever comes of it; a forced one is never throttled.
ScanThrottled(last, s, now, interval, force) ==
  ~force /\ now - (IF s \in DOMAIN last THEN last[s] ELSE 0) < interval

ScanBegins(last, s, now, interval, force) ==
  IF ScanThrottled(last, s, now, interval, force) THEN last
  ELSE [k \in DOMAIN last \cup {s} |-> IF k = s THEN now ELSE last[k]]

\* frame is "missing", "broken" or "good".
ScanStatus(enabled, throttled, backend, frame, modelRuns) ==
  FirstOf(<<Case(~enabled, "disabled"), Case(throttled, "throttled"),
            Case(backend # "grounding_dino", "unavailable"),
            Case(frame # "good", "error"),
            Case(~modelRuns, "unavailable")>>, "ok")

\* POST /scan turns a bad frame away before the scanner, and never fails.
ScanRoute(frameError, status) ==
  IF frameError # "none" THEN <<StatusFor(frameError), "error">> ELSE <<200, status>>
===============================================================================
