--------------------------- MODULE StreamActions ---------------------------
(***************************************************************************)
(* JPStreamSemanticActions.mm: the events of the parser (parser.hpp) sent  *)
(* to a delegate that implements some of them, below the synchronous front *)
(* end (JPJsonParser.mm, runWithBytes) or the asynchronous one             *)
(* (JPAsyncJsonParser.mm, the worker's block).  The delegate may set an    *)
(* error or refuse an object, and a subclass may cancel at any time: the   *)
(* class itself has neither cancel nor clear.                              *)
(***************************************************************************)
EXTENDS Naturals, Sequences

CONSTANTS Implementations,   \* the sets of events a delegate implements
          MaxElements, MaxDepth

VARIABLES front,         \* "sync" or "async"
          implemented,   \* the events whose methods parse_begin found
          frames,        \* the open containers, each with the number of its elements
          step,          \* what the parser does next
          failed,        \* its state_: "no", "silent" while no error was reported, "yes"
          code,          \* error_
          canceled,
          reports,       \* history: the codes the error handler was sent, in order
          sent,          \* history: the other notifications of the delegate
          late           \* history: the calls of the delegate after an error or a cancel

vars == <<front, implemented, frames, step, failed, code, canceled, reports, sent, late>>

\* the events the parser sends that a delegate may leave out
Events == {"array begin", "array end", "object begin", "object end", "value begin", "value end",
           "pair begin", "pair end", "value"}

\* what the proofs need
ActionsConstants == Implementations \subseteq SUBSET Events /\ MaxDepth \in Nat \ {0}

Stopped == canceled \/ code # "none"   \* not ok()
Top == frames[Len(frames)]
EndOfElement == IF Top.kind = "array" THEN "value end" ELSE "pair end"
BeginOf == [array |-> "array begin", object |-> "object begin"]
EndOf == [array |-> "array end", object |-> "object end"]
Open(kind) == frames' = Append(frames, [kind |-> kind, elements |-> 0])

\* semantic_actions_base::error: a canceled run has no other error
Report(c) ==
  /\ code' = IF canceled THEN "canceled" ELSE c
  /\ reports' = Append(reports, code')

NoReport == UNCHANGED <<code, reports>>

\* the NSError a caller is given
makeError == IF code = "none" THEN "nil" ELSE code

\* Mutant: the state of the actions is not looked at behind the event
Event_unchecked(event, next) ==
  /\ step' = next
  /\ late' = IF event \in implemented /\ Stopped THEN late + 1 ELSE late
  /\ \/ NoReport
     \/ event \in implemented /\ Report("delegate")

\* One event.  Only a delegate that implements it is called, and may set an
\* error; only then the state is looked at, and thrown.
Event(event, next) ==
  /\ late' = IF event \in implemented /\ Stopped THEN late + 1 ELSE late
  /\ \/ NoReport
     \/ event \in implemented /\ Report("delegate")
  /\ step' = IF event \in implemented /\ (canceled \/ code' # "none") THEN "thrown" ELSE next
-----------------------------------------------------------------------------
\* the error of an earlier run, and its cancel, may be left
Init ==
  /\ front \in {"sync", "async"} /\ implemented \in Implementations
  /\ frames = <<>> /\ step = "begin" /\ failed = "no" /\ reports = <<>> /\ sent = {} /\ late = 0
  /\ code \in {"none", "syntax"} /\ canceled \in BOOLEAN

parse_begin ==
  /\ step = "begin" /\ step' = "text"
  /\ code' = "none" /\ sent' = {"begin"}
  /\ UNCHANGED <<front, implemented, frames, failed, canceled, reports, late>>

Fails(next) ==
  /\ failed' = "yes" /\ step' = next /\ Report("syntax")
  /\ UNCHANGED <<frames, late>>

parse_text ==
  /\ step = "text"
  /\ \/ Fails("finish")
     \/ /\ ~canceled /\ UNCHANGED failed
        /\ \E kind \in {"array", "object"} : Open(kind) /\ Event(BeginOf[kind], "inside")
  /\ UNCHANGED <<front, implemented, canceled, sent>>

\* in a container, or behind a comma
NextElement ==
  /\ step = "inside"
  /\ \/ Fails("leave")
     \/ /\ Top.elements = 0 /\ step' = "close"
        /\ UNCHANGED <<frames, failed, code, reports, late>>
     \/ /\ Top.elements < MaxElements /\ UNCHANGED failed
        /\ frames' = [frames EXCEPT ![Len(frames)].elements = @ + 1]
        /\ Event(IF Top.kind = "array" THEN "value begin" ELSE "pair begin", "value")
  /\ UNCHANGED <<front, implemented, canceled, sent>>

\* an ill-formed character reference stops the parser without a report
parse_value ==
  /\ step = "value"
  /\ \/ Fails("element")
     \/ /\ failed' = "silent" /\ step' = "element" /\ UNCHANGED <<frames, code, reports, late>>
     \/ UNCHANGED <<frames, failed>> /\ Event("value", "element")
     \/ /\ Len(frames) < MaxDepth /\ UNCHANGED failed
        /\ \E kind \in {"array", "object"} : Open(kind) /\ Event(BeginOf[kind], "inside")
  /\ UNCHANGED <<front, implemented, canceled, sent>>

\* the end of an element is sent whether or not it was read
EndElement ==
  /\ step = "element" /\ Event(EndOfElement, "behind")
  /\ UNCHANGED <<front, implemented, frames, failed, canceled, sent>>

\* an array leaves a failed element's error alone, an object reports it again
Behind ==
  /\ step = "behind"
  /\ \/ failed # "no" /\ Top.kind = "object" /\ Fails("leave")
     \/ /\ failed # "no" /\ Top.kind = "array" /\ step' = "leave"
        /\ UNCHANGED <<frames, failed, code, reports, late>>
     \/ failed = "no" /\ Fails("leave")
     \/ /\ failed = "no" /\ step' \in {"inside", "close"}
        /\ UNCHANGED <<frames, failed, code, reports, late>>
  /\ UNCHANGED <<front, implemented, canceled, sent>>

\* end_object may refuse the object for a key it has twice
Close ==
  /\ step = "close"
  /\ \/ UNCHANGED <<frames, failed>> /\ Event(EndOf[Top.kind], "leave")
     \/ /\ Top.kind = "object" /\ "object end" \in implemented /\ ~Stopped
        /\ Fails("leave")
  /\ UNCHANGED <<front, implemented, canceled, sent>>

Leave ==
  /\ step = "leave"
  /\ frames' = SubSeq(frames, 1, Len(frames) - 1)
  /\ step' = IF Len(frames) > 1 THEN "element" ELSE IF failed = "no" THEN "end" ELSE "finish"
  /\ UNCHANGED <<front, implemented, failed, code, canceled, reports, sent, late>>

\* parse_end is required, and nobody looks at the state behind it
parse_end ==
  /\ step = "end" /\ step' = "finish" /\ sent' = sent \cup {"end"}
  /\ UNCHANGED <<front, implemented, frames, failed, code, canceled, reports, late>>

finished ==
  /\ step = "finish" /\ step' = "done" /\ sent' = sent \cup {"finished"}
  /\ UNCHANGED <<front, implemented, frames, failed, code, canceled, reports, late>>

\* runWithBytes takes the state for the error; the worker does not know the
\* exception and reports another error.
Catch ==
  /\ step = "thrown" /\ step' = "done" /\ failed' = "yes"
  /\ IF front = "sync" THEN NoReport ELSE Report("unknown")
  /\ UNCHANGED <<front, implemented, frames, canceled, sent, late>>

cancel ==
  /\ ~canceled /\ step # "done" /\ canceled' = TRUE
  /\ UNCHANGED <<front, implemented, frames, step, failed, code, reports, sent, late>>

Next == \/ parse_begin \/ parse_text \/ NextElement \/ parse_value \/ EndElement
        \/ Behind \/ Close \/ Leave \/ parse_end \/ finished \/ Catch \/ cancel

Spec == Init /\ [][Next]_vars
-----------------------------------------------------------------------------
Codes == {"none", "syntax", "delegate", "canceled", "unknown"}

TypeOK ==
  /\ implemented \subseteq Events /\ Len(frames) <= MaxDepth /\ failed \in {"no", "silent", "yes"}
  /\ code \in Codes /\ canceled \in BOOLEAN /\ sent \subseteq {"begin", "end", "finished"}

\* The delegate is called once at most after an error or a cancel.  A run that
\* succeeds reported nothing; one that fails has an error, unless it was
\* canceled, and below the synchronous front end the error its delegate set
\* first.  Without the completion an exception ended it.
Notifies ==
  /\ late <= 1
  /\ step = "done" =>
       /\ failed = "no" => makeError = "nil" /\ reports = <<>> /\ sent = {"begin", "end", "finished"}
       /\ failed = "yes" => makeError # "nil" \/ (canceled /\ front = "sync")
       /\ reports # <<>> /\ reports[1] = "delegate" /\ front = "sync" => code = "delegate"
       /\ "finished" \notin sent /\ front = "async" => code \in {"unknown", "canceled"}
=============================================================================
