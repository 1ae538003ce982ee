------------------------ MODULE StreamActionsProofs ------------------------
(***************************************************************************)
(* Proofs about StreamActions: what the delegate and the caller of a run   *)
(* are told, whatever events the delegate implements, however deep and     *)
(* long the text is, and wherever it sets an error or a cancel comes in.   *)
(* And about ParserOptions: that the actions' settings are those that the  *)
(* calls asked for, whatever sequence of calls configures them.            *)
(***************************************************************************)
EXTENDS StreamActions, FiniteSetTheorems, TLAPS

Steps == {"begin", "text", "inside", "value", "element", "behind", "close", "leave", "end", "finish", "thrown", "done"}
Inside == {"inside", "value", "element", "behind", "close", "leave"}   \* a container

TypeInv ==
  /\ front \in {"sync", "async"} /\ implemented \subseteq Events
  /\ frames \in Seq([kind : {"array", "object"}, elements : Nat])
  /\ step \in Steps /\ failed \in {"no", "silent", "yes"} /\ code \in Codes /\ canceled \in BOOLEAN
  /\ reports \in Seq(Codes) /\ sent \subseteq {"begin", "end", "finished"} /\ late \in Nat

FramesInv ==
  /\ Len(frames) <= MaxDepth
  /\ step \in {"begin", "text"} => frames = <<>>
  /\ step \in Inside => Len(frames) >= 1

\* a call of the delegate after an error or a cancel ends the run
LateInv == late \in {0, 1} /\ (late = 1 => step \in {"thrown", "done"})

\* a run that did not fail has told nobody of an error, unless it is just being left
QuietInv ==
  /\ failed = "no" /\ step \notin {"begin", "thrown"} => code = "none" /\ reports = <<>>
  /\ step = "begin" => reports = <<>>

\* a run that failed has an error, and so has one that is left, unless it was canceled
ErrorInv ==
  /\ failed = "yes" => code # "none" \/ (canceled /\ front = "sync")
  /\ step = "thrown" => canceled \/ code # "none"

\* an error of the delegate that is the first ends the run, and stays below the synchronous front end
FirstInv == reports # <<>> /\ reports[1] = "delegate" =>
              step \in {"thrown", "done"} /\ (front = "sync" => code = "delegate")

SentInv ==
  /\ step \in {"begin", "end"} => failed = "no"
  /\ step = "end" => sent = {"begin"}
  /\ step \in Inside \cup {"text"} => sent = {"begin"}
  /\ step = "finish" /\ failed = "no" => sent = {"begin", "end"}
  /\ step = "done" /\ failed = "no" => sent = {"begin", "end", "finished"}
  /\ step = "done" /\ "finished" \notin sent /\ front = "async" => code \in {"unknown", "canceled"}

IInv == TypeInv /\ FramesInv /\ LateInv /\ QuietInv /\ ErrorInv /\ FirstInv /\ SentInv
-----------------------------------------------------------------------------
\* One event, whatever it is: an error that the delegate sets, a cancel that it
\* finds and a call that comes late lead out of the parser.
LEMMA EventIs ==
  ASSUME TypeInv, NEW event, NEW next \in Steps, Event(event, next)
  PROVE  /\ \/ code' = code /\ reports' = reports /\ step' \in {next, "thrown"}
               /\ (step' = "thrown" /\ next # "thrown" => canceled \/ code # "none")
            \/ /\ code' = (IF canceled THEN "canceled" ELSE "delegate") /\ reports' = Append(reports, code')
               /\ step' = "thrown"
         /\ late' = late \/ (late' = late + 1 /\ step' = "thrown")
<1>1. /\ late' = (IF event \in implemented /\ Stopped THEN late + 1 ELSE late)
      /\ NoReport \/ (event \in implemented /\ Report("delegate"))
      /\ step' = (IF event \in implemented /\ (canceled \/ code' # "none") THEN "thrown" ELSE next)
  BY Zenon DEF Event
<1>2. CASE NoReport
  BY <1>1, <1>2 DEF NoReport, Stopped
<1>3. CASE event \in implemented /\ Report("delegate")
  <2>1. code' = (IF canceled THEN "canceled" ELSE "delegate") /\ reports' = Append(reports, code')
    BY <1>3 DEF Report
  <2>2. step' = "thrown"
    BY <1>1, <1>3, <2>1
  <2> QED BY <1>1, <2>1, <2>2
<1> QED BY <1>1, <1>2, <1>3

LEMMA OpenIs ==
  ASSUME ActionsConstants, TypeInv, NEW kind \in {"array", "object"}, Open(kind), Len(frames) < MaxDepth
  PROVE  frames' \in Seq([kind : {"array", "object"}, elements : Nat]) /\ Len(frames') >= 1 /\ Len(frames') <= MaxDepth
BY DEF Open, TypeInv, ActionsConstants

\* The first of several reports stays the first.
LEMMA FirstReport ==
  ASSUME NEW c \in Codes, reports \in Seq(Codes), reports' = Append(reports, c)
  PROVE  /\ reports' # <<>> /\ reports' \in Seq(Codes)
         /\ reports = <<>> => reports'[1] = c
         /\ reports # <<>> => reports'[1] = reports[1]
OBVIOUS

\* A step inside a run that reports nothing and calls nobody.
LEMMA QuietStep ==
  ASSUME IInv, step \notin {"begin", "thrown", "done"}, UNCHANGED <<front, implemented, code, canceled, reports, late, sent>>,
         failed' \in {failed, "silent"}, step' \in Inside \cup {"end", "finish"},
         step' = "end" => failed' = "no", step' = "finish" => failed' # "no", step \in Inside,
         frames' \in Seq([kind : {"array", "object"}, elements : Nat]), Len(frames') <= MaxDepth,
         step' \in Inside => Len(frames') >= 1
  PROVE  IInv'
<1>1. TypeInv'
  BY DEF IInv, TypeInv, Inside, Steps
<1>2. FramesInv'
  BY DEF FramesInv, Inside
<1>3. LateInv'
  BY DEF IInv, LateInv, Inside
<1>4. QuietInv' /\ ErrorInv'
  BY DEF IInv, QuietInv, ErrorInv, Inside
<1>5. FirstInv'
  BY DEF IInv, FirstInv, Inside
<1>6. SentInv'
  BY DEF IInv, SentInv, Inside
<1> QED BY <1>1, <1>2, <1>3, <1>4, <1>5, <1>6 DEF IInv

\* A step that sends an event.
LEMMA EventStep ==
  ASSUME IInv, step \in Inside \cup {"text"}, NEW event, NEW next \in Inside, Event(event, next),
         UNCHANGED <<front, implemented, failed, canceled, sent>>,
         frames' \in Seq([kind : {"array", "object"}, elements : Nat]), Len(frames') <= MaxDepth, Len(frames') >= 1
  PROVE  IInv'
<1>1. TypeInv /\ next # "thrown" /\ next \in Steps /\ step \notin {"begin", "thrown", "done", "end", "finish"}
  BY DEF IInv, Inside, Steps
<1>2. late' = late \/ (late' = late + 1 /\ step' = "thrown")
  BY <1>1, EventIs
<1>3. CASE code' = code /\ reports' = reports /\ step' \in {next, "thrown"} /\ (step' = "thrown" => canceled \/ code # "none")
  <2>1. TypeInv'
    BY <1>1, <1>2, <1>3 DEF TypeInv, Steps
  <2>2. FramesInv'
    BY <1>1, <1>3 DEF FramesInv, Inside
  <2>3. QuietInv' /\ ErrorInv'
    BY <1>1, <1>3 DEF IInv, QuietInv, ErrorInv, Inside
  <2>4. FirstInv'
    BY <1>1, <1>3 DEF IInv, FirstInv
  <2>5. SentInv'
    BY <1>1, <1>3 DEF IInv, SentInv, Inside
  <2>6. LateInv'
    BY <1>1, <1>2, <1>3 DEF IInv, LateInv
  <2> QED BY <2>1, <2>2, <2>3, <2>4, <2>5, <2>6 DEF IInv
<1>4. CASE /\ code' = (IF canceled THEN "canceled" ELSE "delegate") /\ reports' = Append(reports, code')
           /\ step' = "thrown"
  <2> DEFINE c == code'
  <2>1. c \in {"canceled", "delegate"} /\ c \in Codes /\ reports \in Seq(Codes) /\ reports' = Append(reports, c)
    BY <1>1, <1>4 DEF TypeInv, Codes
  <2> HIDE DEF c
  <2>2. /\ reports' # <<>> /\ reports' \in Seq(Codes)
        /\ reports = <<>> => reports'[1] = c
        /\ reports # <<>> => reports'[1] = reports[1]
    BY <2>1, FirstReport
  <2>3. TypeInv'
    BY <1>1, <1>2, <1>4, <2>1, <2>2 DEF TypeInv, Steps, c
  <2>4. FramesInv'
    BY <1>1, <1>4 DEF FramesInv, Inside
  <2>5. QuietInv' /\ ErrorInv'
    BY <1>1, <1>4, <2>1 DEF IInv, QuietInv, ErrorInv, c
  <2>6. FirstInv'
    <3>1. reports # <<>> => reports[1] # "delegate"
      BY <1>1 DEF IInv, FirstInv
    <3> QED BY <1>1, <1>4, <2>1, <2>2, <3>1 DEF FirstInv, c
  <2>7. SentInv'
    BY <1>1, <1>4 DEF IInv, SentInv, Inside
  <2>8. LateInv'
    BY <1>1, <1>2, <1>4 DEF IInv, LateInv
  <2> QED BY <2>3, <2>4, <2>5, <2>6, <2>7, <2>8 DEF IInv
<1>5. \/ code' = code /\ reports' = reports /\ step' \in {next, "thrown"} /\ (step' = "thrown" => canceled \/ code # "none")
      \/ /\ code' = (IF canceled THEN "canceled" ELSE "delegate") /\ reports' = Append(reports, code')
         /\ step' = "thrown"
  BY <1>1, EventIs
<1> QED BY <1>3, <1>4, <1>5

\* A step at which the parser reports an error of the text.
LEMMA FailsStep ==
  ASSUME IInv, step \in Inside \cup {"text"}, NEW next \in Inside \cup {"finish"}, Fails(next),
         UNCHANGED <<front, implemented, canceled, sent>>, next \in Inside => Len(frames) >= 1
  PROVE  IInv'
<1>1. /\ failed' = "yes" /\ step' = next /\ frames' = frames /\ late' = late
      /\ code' = (IF canceled THEN "canceled" ELSE "syntax") /\ reports' = Append(reports, code')
  BY DEF Fails, Report
<1>2. TypeInv /\ next \in Steps /\ next \notin {"begin", "text", "thrown", "done", "end"}
      /\ step \notin {"begin", "thrown", "done", "end", "finish"}
  BY DEF IInv, Inside, Steps
<1> DEFINE c == code'
<1>3. c \in {"canceled", "syntax"} /\ c \in Codes /\ reports \in Seq(Codes) /\ reports' = Append(reports, c)
  BY <1>1, <1>2 DEF TypeInv, Codes
<1> HIDE DEF c
<1>4. /\ reports' # <<>> /\ reports' \in Seq(Codes)
      /\ reports = <<>> => reports'[1] = c
      /\ reports # <<>> => reports'[1] = reports[1]
  BY <1>3, FirstReport
<1>5. TypeInv'
  BY <1>1, <1>2, <1>3, <1>4 DEF TypeInv, c
<1>6. FramesInv'
  BY <1>1, <1>2 DEF IInv, FramesInv, Inside
<1>7. QuietInv' /\ ErrorInv'
  BY <1>1, <1>2, <1>3 DEF IInv, QuietInv, ErrorInv, c
<1>8. FirstInv'
  <2>1. reports # <<>> => reports[1] # "delegate"
    BY <1>2 DEF IInv, FirstInv
  <2> QED BY <1>3, <1>4, <2>1 DEF FirstInv
<1>9. SentInv'
  BY <1>1, <1>2 DEF IInv, SentInv, Inside
<1>10. LateInv'
  BY <1>1, <1>2 DEF IInv, LateInv
<1> QED BY <1>5, <1>6, <1>7, <1>8, <1>9, <1>10 DEF IInv
-----------------------------------------------------------------------------
LEMMA InitInv == ASSUME ActionsConstants, Init PROVE IInv
<1>1. TypeInv
  BY DEF Init, TypeInv, ActionsConstants, Steps, Codes
<1>2. FramesInv
  BY DEF Init, FramesInv, ActionsConstants, Inside
<1>3. LateInv /\ QuietInv /\ ErrorInv /\ FirstInv /\ SentInv
  BY DEF Init, LateInv, QuietInv, ErrorInv, FirstInv, SentInv, Inside
<1> QED BY <1>1, <1>2, <1>3 DEF IInv

LEMMA ParseBeginStep == ASSUME IInv, parse_begin PROVE IInv'
<1>1. /\ step = "begin" /\ step' = "text" /\ code' = "none" /\ sent' = {"begin"}
      /\ UNCHANGED <<front, implemented, frames, failed, canceled, reports, late>>
  BY DEF parse_begin
<1>2. failed = "no"
  BY <1>1 DEF IInv, SentInv
<1>3. reports = <<>>
  BY <1>1 DEF IInv, QuietInv
<1>4. TypeInv'
  BY <1>1 DEF IInv, TypeInv, Steps, Codes
<1>5. FramesInv' /\ LateInv' /\ SentInv'
  BY <1>1, <1>2 DEF IInv, FramesInv, LateInv, SentInv, Inside
<1>6. QuietInv' /\ ErrorInv' /\ FirstInv'
  BY <1>1, <1>2, <1>3 DEF QuietInv, ErrorInv, FirstInv
<1> QED BY <1>4, <1>5, <1>6 DEF IInv

LEMMA ParseTextStep == ASSUME ActionsConstants, IInv, parse_text PROVE IInv'
<1>1. step = "text" /\ UNCHANGED <<front, implemented, canceled, sent>> /\ frames = <<>> /\ Len(frames) < MaxDepth
  BY DEF parse_text, IInv, FramesInv, ActionsConstants
<1>2. CASE Fails("finish")
  <2>1. step \in Inside \cup {"text"} /\ "finish" \in Inside \cup {"finish"} /\ "finish" \notin Inside
    BY <1>1 DEF Inside
  <2> QED BY <1>1, <1>2, <2>1, FailsStep
<1>3. ASSUME NEW kind \in {"array", "object"}, Open(kind), Event(BeginOf[kind], "inside"), UNCHANGED failed
      PROVE IInv'
  <2>1. step \in Inside \cup {"text"} /\ "inside" \in Inside
    BY <1>1 DEF Inside
  <2>2. frames' \in Seq([kind : {"array", "object"}, elements : Nat]) /\ Len(frames') >= 1 /\ Len(frames') <= MaxDepth
    BY <1>1, <1>3, OpenIs DEF IInv
  <2> QED BY <1>1, <1>3, <2>1, <2>2, EventStep
<1> QED BY <1>2, <1>3 DEF parse_text

\* A container with one element more.
LEMMA OneMore ==
  ASSUME frames \in Seq([kind : {"array", "object"}, elements : Nat]), Len(frames) >= 1,
         frames' = [frames EXCEPT ![Len(frames)].elements = @ + 1]
  PROVE  frames' \in Seq([kind : {"array", "object"}, elements : Nat]) /\ Len(frames') = Len(frames)
<1> DEFINE R == [kind : {"array", "object"}, elements : Nat]
           more == [frames[Len(frames)] EXCEPT !.elements = @ + 1]
           last == frames[Len(frames)]
<1>1. Len(frames) \in 1..Len(frames) /\ last \in R
  <2>1. \A S : \A s \in Seq(S) : Len(s) >= 1 => Len(s) \in 1..Len(s) /\ s[Len(s)] \in S
    OBVIOUS
  <2> QED BY <2>1
<1>2. more \in R
  <2>1. \A r \in R : [r EXCEPT !.elements = @ + 1] \in R
    OBVIOUS
  <2> QED BY <1>1, <2>1
<1>3. frames' = [frames EXCEPT ![Len(frames)] = more]
  OBVIOUS
<1> HIDE DEF R, more
<1>4. frames' \in Seq(R) /\ Len(frames') = Len(frames)
  BY <1>1, <1>2, <1>3 DEF R
<1> QED BY <1>4 DEF R

\* One container less.
LEMMA OneLess ==
  ASSUME NEW S, NEW s \in Seq(S), Len(s) >= 1
  PROVE  SubSeq(s, 1, Len(s) - 1) \in Seq(S) /\ Len(SubSeq(s, 1, Len(s) - 1)) = Len(s) - 1
<1> DEFINE n == Len(s) - 1
<1>1. n \in Nat /\ n <= Len(s)
  OBVIOUS
<1> HIDE DEF n
<1>2. \A i \in 1..n : s[i] \in S
  BY <1>1
<1>3. SubSeq(s, 1, n) \in Seq(S) /\ Len(SubSeq(s, 1, n)) = n
  BY <1>1, <1>2
<1> QED BY <1>3 DEF n

LEMMA NextElementStep == ASSUME ActionsConstants, IInv, NextElement PROVE IInv'
<1>1. step = "inside" /\ UNCHANGED <<front, implemented, canceled, sent>>
  BY DEF NextElement
<1>2. /\ frames \in Seq([kind : {"array", "object"}, elements : Nat]) /\ Len(frames) >= 1 /\ Len(frames) <= MaxDepth
      /\ step \in Inside /\ {"inside", "value", "close", "leave"} \subseteq Inside /\ step \notin {"begin", "thrown", "done"}
  BY <1>1 DEF IInv, TypeInv, FramesInv, Inside
<1>3. CASE Fails("leave")
  BY <1>1, <1>2, <1>3, FailsStep
<1>4. CASE step' = "close" /\ UNCHANGED <<frames, failed, code, reports, late>>
  BY <1>1, <1>2, <1>4, QuietStep
<1>5. ASSUME NEW event, UNCHANGED failed, frames' = [frames EXCEPT ![Len(frames)].elements = @ + 1], Event(event, "value")
      PROVE IInv'
  <2>1. frames' \in Seq([kind : {"array", "object"}, elements : Nat]) /\ Len(frames') = Len(frames)
    BY <1>2, <1>5, OneMore
  <2> QED BY <1>1, <1>2, <1>5, <2>1, EventStep
<1> QED BY <1>3, <1>4, <1>5 DEF NextElement

LEMMA ParseValueStep == ASSUME ActionsConstants, IInv, parse_value PROVE IInv'
<1>1. step = "value" /\ UNCHANGED <<front, implemented, canceled, sent>>
  BY DEF parse_value
<1>2. /\ frames \in Seq([kind : {"array", "object"}, elements : Nat]) /\ Len(frames) >= 1 /\ Len(frames) <= MaxDepth
      /\ step \in Inside /\ {"inside", "value", "element"} \subseteq Inside /\ step \notin {"begin", "thrown", "done"}
  BY <1>1 DEF IInv, TypeInv, FramesInv, Inside
<1>3. CASE Fails("element")
  BY <1>1, <1>2, <1>3, FailsStep
<1>4. CASE failed' = "silent" /\ step' = "element" /\ UNCHANGED <<frames, code, reports, late>>
  BY <1>1, <1>2, <1>4, QuietStep
<1>5. CASE UNCHANGED <<frames, failed>> /\ Event("value", "element")
  BY <1>1, <1>2, <1>5, EventStep
<1>6. ASSUME NEW kind \in {"array", "object"}, Open(kind), Event(BeginOf[kind], "inside"), UNCHANGED failed,
             Len(frames) < MaxDepth
      PROVE IInv'
  <2>1. frames' \in Seq([kind : {"array", "object"}, elements : Nat]) /\ Len(frames') >= 1 /\ Len(frames') <= MaxDepth
    BY <1>6, OpenIs DEF IInv
  <2> QED BY <1>1, <1>2, <1>6, <2>1, EventStep
<1> QED BY <1>3, <1>4, <1>5, <1>6 DEF parse_value

LEMMA EndElementStep == ASSUME IInv, EndElement PROVE IInv'
<1>1. step = "element" /\ Event(EndOfElement, "behind") /\ UNCHANGED <<front, implemented, frames, failed, canceled, sent>>
  BY DEF EndElement
<1>2. /\ frames \in Seq([kind : {"array", "object"}, elements : Nat]) /\ Len(frames) >= 1 /\ Len(frames) <= MaxDepth
      /\ step \in Inside /\ "behind" \in Inside
  BY <1>1 DEF IInv, TypeInv, FramesInv, Inside
<1> QED BY <1>1, <1>2, EventStep

LEMMA BehindStep == ASSUME IInv, Behind PROVE IInv'
<1>1. step = "behind" /\ UNCHANGED <<front, implemented, canceled, sent>>
  BY DEF Behind
<1>2. /\ frames \in Seq([kind : {"array", "object"}, elements : Nat]) /\ Len(frames) >= 1 /\ Len(frames) <= MaxDepth
      /\ step \in Inside /\ {"inside", "close", "leave"} \subseteq Inside /\ step \notin {"begin", "thrown", "done"}
      /\ {"inside", "close", "leave"} \cap {"end", "finish"} = {}
  BY <1>1 DEF IInv, TypeInv, FramesInv, Inside
<1>3. CASE Fails("leave")
  BY <1>1, <1>2, <1>3, FailsStep
<1>4. CASE step' \in {"inside", "close", "leave"} /\ UNCHANGED <<frames, failed, code, reports, late>>
  BY <1>1, <1>2, <1>4, QuietStep
<1> QED BY <1>3, <1>4 DEF Behind

LEMMA CloseStep == ASSUME IInv, Close PROVE IInv'
<1>1. step = "close" /\ UNCHANGED <<front, implemented, canceled, sent>>
  BY DEF Close
<1>2. /\ frames \in Seq([kind : {"array", "object"}, elements : Nat]) /\ Len(frames) >= 1 /\ Len(frames) <= MaxDepth
      /\ step \in Inside /\ "leave" \in Inside
  BY <1>1 DEF IInv, TypeInv, FramesInv, Inside
<1>3. CASE Fails("leave")
  BY <1>1, <1>2, <1>3, FailsStep
<1>4. ASSUME NEW event, UNCHANGED <<frames, failed>>, Event(event, "leave") PROVE IInv'
  BY <1>1, <1>2, <1>4, EventStep
<1> QED BY <1>3, <1>4 DEF Close

LEMMA LeaveStep == ASSUME ActionsConstants, IInv, Leave PROVE IInv'
<1> DEFINE n == Len(frames)
<1>1. /\ step = "leave" /\ frames' = SubSeq(frames, 1, n - 1)
      /\ step' = IF n > 1 THEN "element" ELSE IF failed = "no" THEN "end" ELSE "finish"
      /\ UNCHANGED <<front, implemented, failed, code, canceled, reports, sent, late>>
  BY DEF Leave
<1>2. /\ frames \in Seq([kind : {"array", "object"}, elements : Nat]) /\ n \in Nat /\ n >= 1 /\ n <= MaxDepth
      /\ step \in Inside /\ "element" \in Inside /\ step \notin {"begin", "thrown", "done"}
      /\ {"end", "finish"} \cap Inside = {} /\ MaxDepth \in Nat
  BY <1>1 DEF IInv, TypeInv, FramesInv, Inside, ActionsConstants
<1>3. frames' \in Seq([kind : {"array", "object"}, elements : Nat]) /\ Len(frames') = n - 1
  BY <1>1, <1>2, OneLess
<1>4. failed' \in {failed, "silent"} /\ step' \in Inside \cup {"end", "finish"}
      /\ (step' = "end" => failed' = "no") /\ (step' = "finish" => failed' # "no")
  BY <1>1, <1>2
<1>5. step' \in Inside => n > 1
  BY <1>1, <1>2
<1> HIDE DEF n
<1>6. n - 1 <= MaxDepth /\ (n > 1 => n - 1 >= 1)
  BY <1>2
<1>7. Len(frames') <= MaxDepth /\ (step' \in Inside => Len(frames') >= 1)
  BY <1>3, <1>5, <1>6
<1> QED BY <1>1, <1>2, <1>3, <1>4, <1>7, QuietStep

LEMMA ParseEndStep == ASSUME IInv, parse_end PROVE IInv'
<1>1. /\ step = "end" /\ step' = "finish" /\ sent' = sent \cup {"end"}
      /\ UNCHANGED <<front, implemented, frames, failed, code, canceled, reports, late>>
  BY DEF parse_end
<1>2. sent = {"begin"} /\ failed = "no"
  BY <1>1 DEF IInv, SentInv
<1>3. TypeInv' /\ FramesInv'
  BY <1>1 DEF IInv, TypeInv, FramesInv, Steps, Inside
<1>4. LateInv' /\ QuietInv' /\ ErrorInv'
  BY <1>1 DEF IInv, LateInv, QuietInv, ErrorInv
<1>5. FirstInv' /\ SentInv'
  BY <1>1, <1>2 DEF IInv, FirstInv, SentInv, Inside
<1> QED BY <1>3, <1>4, <1>5 DEF IInv

LEMMA FinishedStep == ASSUME IInv, finished PROVE IInv'
<1>1. /\ step = "finish" /\ step' = "done" /\ sent' = sent \cup {"finished"}
      /\ UNCHANGED <<front, implemented, frames, failed, code, canceled, reports, late>>
  BY DEF finished
<1>2. TypeInv' /\ FramesInv'
  BY <1>1 DEF IInv, TypeInv, FramesInv, Steps, Inside
<1>3. LateInv' /\ QuietInv' /\ ErrorInv'
  BY <1>1 DEF IInv, LateInv, QuietInv, ErrorInv
<1>4. FirstInv'
  BY <1>1 DEF IInv, FirstInv
<1>5. SentInv'
  BY <1>1 DEF IInv, SentInv, Inside
<1> QED BY <1>2, <1>3, <1>4, <1>5 DEF IInv

LEMMA CatchStep == ASSUME IInv, Catch PROVE IInv'
<1>1. /\ step = "thrown" /\ step' = "done" /\ failed' = "yes"
      /\ UNCHANGED <<front, implemented, frames, canceled, sent, late>> /\ front \in {"sync", "async"}
  BY DEF Catch, IInv, TypeInv
<1>2. FramesInv'
  BY <1>1 DEF IInv, FramesInv, Inside
<1>3. LateInv'
  BY <1>1 DEF IInv, LateInv
<1>4. CASE front = "sync"
  <2>1. code' = code /\ reports' = reports
    BY <1>4 DEF Catch, NoReport
  <2>2. TypeInv'
    BY <1>1, <2>1 DEF IInv, TypeInv, Steps
  <2>3. QuietInv' /\ ErrorInv'
    BY <1>1, <1>4, <2>1 DEF IInv, QuietInv, ErrorInv
  <2>4. FirstInv'
    BY <1>1, <2>1 DEF IInv, FirstInv
  <2>5. SentInv'
    BY <1>1, <1>4 DEF IInv, SentInv, Inside
  <2> QED BY <1>2, <1>3, <2>2, <2>3, <2>4, <2>5 DEF IInv
<1>5. CASE front = "async"
  <2>1. code' = (IF canceled THEN "canceled" ELSE "unknown") /\ reports' = Append(reports, code')
    BY <1>5 DEF Catch, Report
  <2>2. TypeInv'
    BY <1>1, <2>1 DEF IInv, TypeInv, Steps, Codes
  <2>3. QuietInv' /\ ErrorInv'
    BY <1>1, <2>1 DEF QuietInv, ErrorInv
  <2>4. FirstInv'
    BY <1>1, <1>5 DEF FirstInv
  <2>5. SentInv'
    BY <1>1, <2>1 DEF SentInv, Inside
  <2> QED BY <1>2, <1>3, <2>2, <2>3, <2>4, <2>5 DEF IInv
<1> QED BY <1>1, <1>4, <1>5

LEMMA CancelStep == ASSUME IInv, cancel PROVE IInv'
<1>1. /\ canceled' = TRUE /\ step # "done"
      /\ UNCHANGED <<front, implemented, frames, step, failed, code, reports, sent, late>>
  BY Zenon DEF cancel
<1>2. TypeInv'
  BY <1>1 DEF IInv, TypeInv
<1>3. FramesInv' /\ LateInv' /\ QuietInv' /\ FirstInv'
  BY <1>1 DEF IInv, FramesInv, LateInv, QuietInv, FirstInv
<1>4. SentInv'
  BY <1>1 DEF IInv, SentInv
<1>5. ErrorInv'
  BY <1>1 DEF IInv, ErrorInv
<1> QED BY <1>2, <1>3, <1>4, <1>5 DEF IInv

LEMMA InvIsInductive == ASSUME ActionsConstants, IInv, [Next]_vars PROVE IInv'
<1>1. CASE UNCHANGED vars
  BY <1>1 DEF vars, IInv, TypeInv, FramesInv, LateInv, QuietInv, ErrorInv, FirstInv, SentInv
<1>2. CASE Next
  BY <1>2, ParseBeginStep, ParseTextStep, NextElementStep, ParseValueStep, EndElementStep, BehindStep,
     CloseStep, LeaveStep, ParseEndStep, FinishedStep, CatchStep, CancelStep DEF Next
<1> QED BY <1>1, <1>2
-----------------------------------------------------------------------------
\* The type invariant of the stream actions: the containers are never deeper
\* than the parser goes, and every code is one of those the code knows.
THEOREM TypeCorrect == ASSUME ActionsConstants PROVE Spec => []TypeOK
<1>1. Init => IInv
  BY InitInv
<1>2. IInv /\ [Next]_vars => IInv'
  BY InvIsInductive
<1>3. IInv => TypeOK
  BY DEF IInv, TypeInv, FramesInv, TypeOK
<1> QED BY <1>1, <1>2, <1>3, PTL DEF Spec

\* The delegate is called at most once after an error or a cancel; a run that
\* succeeds reported nothing and sent all that it has to send; one that fails
\* has an error, with the exceptions that Notifies names: for every set of
\* events a delegate implements and a text of any depth and length.
THEOREM DelegateIsTold == ASSUME ActionsConstants PROVE Spec => []Notifies
<1>1. Init => IInv
  BY InitInv
<1>2. IInv /\ [Next]_vars => IInv'
  BY InvIsInductive
<1>3. IInv => Notifies
  <2> SUFFICES ASSUME IInv PROVE Notifies
    OBVIOUS
  <2>1. late <= 1
    BY DEF IInv, LateInv
  <2>2. step = "done" /\ failed = "no" => makeError = "nil" /\ reports = <<>> /\ sent = {"begin", "end", "finished"}
    BY DEF IInv, QuietInv, SentInv, makeError
  <2>3. step = "done" /\ failed = "yes" => makeError # "nil" \/ (canceled /\ front = "sync")
    BY DEF IInv, ErrorInv, TypeInv, makeError, Codes
  <2>4. reports # <<>> /\ reports[1] = "delegate" /\ front = "sync" => code = "delegate"
    BY DEF IInv, FirstInv
  <2>5. step = "done" /\ "finished" \notin sent /\ front = "async" => code \in {"unknown", "canceled"}
    BY DEF IInv, SentInv
  <2> QED BY <2>1, <2>2, <2>3, <2>4, <2>5 DEF Notifies
<1> QED BY <1>1, <1>2, <1>3, PTL DEF Spec
-----------------------------------------------------------------------------
\* the options and settings of a parser
CONSTANTS Requests, CppRequests, MaxCalls
VARIABLES class, settings, asked, mixed, calls
Opt == INSTANCE ParserOptions

HandlingValues == {"allow", "signal", "substitute", "remove"}
LevelValues == {"none", "error", "warning", "debug"}
ExtensionValues == {"comments", "control", "plus", "zeros"}

Names == {"AllowNoncharacter", "SignalNoncharacter", "SubstituteNoncharacter", "RemoveNoncharacter",
          "AllowNULL", "SignalNULL", "SubstituteNULL", "RemoveNULL", "LogNone", "LogError", "LogWarning",
          "LogDebug", "IgnoreTrailing", "Multiple", "MultipleAsync", "Comments", "Control", "Plus",
          "Zeros", "Encoded", "CheckDuplicate", "KeepCache", "CacheData", "Mutable", "NumbersAuto",
          "NumbersDecimal", "NumbersStrings", "NumbersAllDecimal", "Arena"}
Request(names) == names \subseteq Names /\ \A choice \in Opt!Choices : \A m, n \in names \cap choice : m = n

LEMMA NamesAre == DOMAIN Opt!Bits = Names
BY DEF Opt!Bits, Names

\* the bits that the names stand for
Says(bits, names) ==
  /\ 0 \in bits <=> "AllowNoncharacter" \in names \/ "SubstituteNoncharacter" \in names
  /\ 1 \in bits <=> "SignalNoncharacter" \in names \/ "SubstituteNoncharacter" \in names
  /\ 2 \in bits <=> "RemoveNoncharacter" \in names
  /\ 3 \in bits <=> "AllowNULL" \in names \/ "SubstituteNULL" \in names
  /\ 4 \in bits <=> "SignalNULL" \in names \/ "SubstituteNULL" \in names
  /\ 5 \in bits <=> "RemoveNULL" \in names
  /\ 6 \in bits <=> "LogNone" \in names \/ "LogWarning" \in names
  /\ 7 \in bits <=> "LogError" \in names \/ "LogWarning" \in names
  /\ 8 \in bits <=> "LogDebug" \in names
  /\ 12 \in bits <=> "IgnoreTrailing" \in names
  /\ 13 \in bits <=> "Multiple" \in names
  /\ 14 \in bits <=> "MultipleAsync" \in names
  /\ 15 \in bits <=> "Comments" \in names
  /\ 16 \in bits <=> "Control" \in names
  /\ 17 \in bits <=> "Plus" \in names
  /\ 18 \in bits <=> "Zeros" \in names \/ "CheckDuplicate" \in names
  /\ 19 \in bits <=> "Encoded" \in names \/ "KeepCache" \in names
  /\ 20 \in bits <=> "CacheData" \in names
  /\ 21 \in bits <=> "Mutable" \in names
  /\ 22 \in bits <=> "NumbersAuto" \in names \/ "NumbersStrings" \in names
  /\ 23 \in bits <=> "NumbersDecimal" \in names \/ "NumbersStrings" \in names
  /\ 24 \in bits <=> "NumbersAllDecimal" \in names
  /\ 26 \in bits <=> "Arena" \in names

\* Which bits the options set.
LEMMA BitsAre ==
  ASSUME NEW names, names \subseteq Names
  PROVE  Says(Opt!BitsOf(names), names)
<1>1. /\ Opt!Bits["AllowNoncharacter"] = {0}
      /\ Opt!Bits["SignalNoncharacter"] = {1}
      /\ Opt!Bits["SubstituteNoncharacter"] = {0, 1}
      /\ Opt!Bits["RemoveNoncharacter"] = {2}
      /\ Opt!Bits["AllowNULL"] = {3}
      /\ Opt!Bits["SignalNULL"] = {4}
      /\ Opt!Bits["SubstituteNULL"] = {3, 4}
      /\ Opt!Bits["RemoveNULL"] = {5}
      /\ Opt!Bits["LogNone"] = {6}
      /\ Opt!Bits["LogError"] = {7}
      /\ Opt!Bits["LogWarning"] = {6, 7}
      /\ Opt!Bits["LogDebug"] = {8}
      /\ Opt!Bits["IgnoreTrailing"] = {12}
      /\ Opt!Bits["Multiple"] = {13}
      /\ Opt!Bits["MultipleAsync"] = {14}
      /\ Opt!Bits["Comments"] = {15}
      /\ Opt!Bits["Control"] = {16}
      /\ Opt!Bits["Plus"] = {17}
      /\ Opt!Bits["Zeros"] = {18}
      /\ Opt!Bits["Encoded"] = {19}
      /\ Opt!Bits["CheckDuplicate"] = {18}
      /\ Opt!Bits["KeepCache"] = {19}
      /\ Opt!Bits["CacheData"] = {20}
      /\ Opt!Bits["Mutable"] = {21}
      /\ Opt!Bits["NumbersAuto"] = {22}
      /\ Opt!Bits["NumbersDecimal"] = {23}
      /\ Opt!Bits["NumbersStrings"] = {22, 23}
      /\ Opt!Bits["NumbersAllDecimal"] = {24}
      /\ Opt!Bits["Arena"] = {26}
  BY DEF Opt!Bits
<1>2. \A b : b \in Opt!BitsOf(names) <=> \E n \in names : b \in Opt!Bits[n]
  BY DEF Opt!BitsOf
<1>3. \A n \in names : n \in Names
  OBVIOUS
<1>4. 0 \in Opt!BitsOf(names) <=> "AllowNoncharacter" \in names \/ "SubstituteNoncharacter" \in names
  BY <1>1, <1>2, <1>3 DEF Names
<1>5. 1 \in Opt!BitsOf(names) <=> "SignalNoncharacter" \in names \/ "SubstituteNoncharacter" \in names
  BY <1>1, <1>2, <1>3 DEF Names
<1>6. 2 \in Opt!BitsOf(names) <=> "RemoveNoncharacter" \in names
  BY <1>1, <1>2, <1>3 DEF Names
<1>7. 3 \in Opt!BitsOf(names) <=> "AllowNULL" \in names \/ "SubstituteNULL" \in names
  BY <1>1, <1>2, <1>3 DEF Names
<1>8. 4 \in Opt!BitsOf(names) <=> "SignalNULL" \in names \/ "SubstituteNULL" \in names
  BY <1>1, <1>2, <1>3 DEF Names
<1>9. 5 \in Opt!BitsOf(names) <=> "RemoveNULL" \in names
  BY <1>1, <1>2, <1>3 DEF Names
<1>10. 6 \in Opt!BitsOf(names) <=> "LogNone" \in names \/ "LogWarning" \in names
  BY <1>1, <1>2, <1>3 DEF Names
<1>11. 7 \in Opt!BitsOf(names) <=> "LogError" \in names \/ "LogWarning" \in names
  BY <1>1, <1>2, <1>3 DEF Names
<1>12. 8 \in Opt!BitsOf(names) <=> "LogDebug" \in names
  BY <1>1, <1>2, <1>3 DEF Names
<1>13. 12 \in Opt!BitsOf(names) <=> "IgnoreTrailing" \in names
  BY <1>1, <1>2, <1>3 DEF Names
<1>14. 13 \in Opt!BitsOf(names) <=> "Multiple" \in names
  BY <1>1, <1>2, <1>3 DEF Names
<1>15. 14 \in Opt!BitsOf(names) <=> "MultipleAsync" \in names
  BY <1>1, <1>2, <1>3 DEF Names
<1>16. 15 \in Opt!BitsOf(names) <=> "Comments" \in names
  BY <1>1, <1>2, <1>3 DEF Names
<1>17. 16 \in Opt!BitsOf(names) <=> "Control" \in names
  BY <1>1, <1>2, <1>3 DEF Names
<1>18. 17 \in Opt!BitsOf(names) <=> "Plus" \in names
  BY <1>1, <1>2, <1>3 DEF Names
<1>19. 18 \in Opt!BitsOf(names) <=> "Zeros" \in names \/ "CheckDuplicate" \in names
  BY <1>1, <1>2, <1>3 DEF Names
<1>20. 19 \in Opt!BitsOf(names) <=> "Encoded" \in names \/ "KeepCache" \in names
  BY <1>1, <1>2, <1>3 DEF Names
<1>21. 20 \in Opt!BitsOf(names) <=> "CacheData" \in names
  BY <1>1, <1>2, <1>3 DEF Names
<1>22. 21 \in Opt!BitsOf(names) <=> "Mutable" \in names
  BY <1>1, <1>2, <1>3 DEF Names
<1>23. 22 \in Opt!BitsOf(names) <=> "NumbersAuto" \in names \/ "NumbersStrings" \in names
  BY <1>1, <1>2, <1>3 DEF Names
<1>24. 23 \in Opt!BitsOf(names) <=> "NumbersDecimal" \in names \/ "NumbersStrings" \in names
  BY <1>1, <1>2, <1>3 DEF Names
<1>25. 24 \in Opt!BitsOf(names) <=> "NumbersAllDecimal" \in names
  BY <1>1, <1>2, <1>3 DEF Names
<1>26. 26 \in Opt!BitsOf(names) <=> "Arena" \in names
  BY <1>1, <1>2, <1>3 DEF Names
<1> QED BY <1>4, <1>5, <1>6, <1>7, <1>8, <1>9, <1>10, <1>11, <1>12, <1>13, <1>14, <1>15, <1>16, <1>17, <1>18, <1>19, <1>20, <1>21, <1>22, <1>23, <1>24, <1>25, <1>26 DEF Says

\* A choice of three bits.
Bit(bits, b) == b \in bits
Chosen(a, b, c, v1, v2, v3, v4, old) ==
  IF a /\ ~b /\ ~c THEN v1 ELSE IF ~a /\ b /\ ~c THEN v2 ELSE IF a /\ b /\ ~c THEN v3 ELSE IF ~a /\ ~b /\ c THEN v4 ELSE old
LEMMA ChoiceIs ==
  ASSUME NEW bits, NEW first \in Nat, NEW values, NEW old
  PROVE  Opt!Choice(bits, first, values, old)
           = Chosen(first \in bits, first + 1 \in bits, first + 2 \in bits, values[1], values[2], values[3], values[4], old)
<1> DEFINE mine == {b - first : b \in bits \cap first..first + 2}
<1>1. /\ mine \subseteq {0, 1, 2}
      /\ 0 \in mine <=> first \in bits
      /\ 1 \in mine <=> first + 1 \in bits
      /\ 2 \in mine <=> first + 2 \in bits
  <2>1. \A b \in first..first + 2 : b = first \/ b = first + 1 \/ b = first + 2
    OBVIOUS
  <2>2. /\ first \in first..first + 2 /\ first + 1 \in first..first + 2 /\ first + 2 \in first..first + 2
        /\ first - first = 0 /\ (first + 1) - first = 1 /\ (first + 2) - first = 2
    OBVIOUS
  <2>3. \A i : i \in mine <=> \E b \in bits : b \in first..first + 2 /\ i = b - first
    OBVIOUS
  <2> HIDE DEF mine
  <2>4. mine \subseteq {0, 1, 2}
    BY <2>1, <2>2, <2>3
  <2>5. 0 \in mine <=> first \in bits
    BY <2>1, <2>2, <2>3
  <2>6. 1 \in mine <=> first + 1 \in bits
    BY <2>1, <2>2, <2>3
  <2>7. 2 \in mine <=> first + 2 \in bits
    BY <2>1, <2>2, <2>3
  <2> QED BY <2>4, <2>5, <2>6, <2>7
<1>2. Opt!Choice(bits, first, values, old)
        = CASE mine = {0} -> values[1] [] mine = {1} -> values[2] [] mine = {0, 1} -> values[3]
            [] mine = {2} -> values[4] [] OTHER -> old
  BY DEF Opt!Choice
<1> HIDE DEF mine
<1>3. /\ mine = {0} <=> 0 \in mine /\ 1 \notin mine /\ 2 \notin mine
      /\ mine = {1} <=> 0 \notin mine /\ 1 \in mine /\ 2 \notin mine
      /\ mine = {0, 1} <=> 0 \in mine /\ 1 \in mine /\ 2 \notin mine
      /\ mine = {2} <=> 0 \notin mine /\ 1 \notin mine /\ 2 \in mine
  <2>1. \A i \in mine : i = 0 \/ i = 1 \/ i = 2
    BY <1>1
  <2>2. 0 # 1 /\ 0 # 2 /\ 1 # 2
    OBVIOUS
  <2>3. mine = {0} <=> 0 \in mine /\ 1 \notin mine /\ 2 \notin mine
    BY <2>1, <2>2
  <2>4. mine = {1} <=> 0 \notin mine /\ 1 \in mine /\ 2 \notin mine
    BY <2>1, <2>2
  <2>5. mine = {0, 1} <=> 0 \in mine /\ 1 \in mine /\ 2 \notin mine
    BY <2>1, <2>2
  <2>6. mine = {2} <=> 0 \notin mine /\ 1 \notin mine /\ 2 \in mine
    BY <2>1, <2>2
  <2> QED BY <2>3, <2>4, <2>5, <2>6
<1> QED BY <1>1, <1>2, <1>3 DEF Chosen

\* The value that a set of names asks for.
Meant(names, n1, n2, n3, n4, v1, v2, v3, v4, old) ==
  IF n1 \in names THEN v1 ELSE IF n2 \in names THEN v2 ELSE IF n3 \in names THEN v3 ELSE IF n4 \in names THEN v4 ELSE old
LEMMA NamedIs ==
  ASSUME NEW names, NEW table, NEW old, NEW n1, NEW n2, NEW n3, NEW n4, DOMAIN table = {n1, n2, n3, n4},
         \A m, n \in names \cap {n1, n2, n3, n4} : m = n
  PROVE  /\ Opt!Named(names, table, old) = Meant(names, n1, n2, n3, n4, table[n1], table[n2], table[n3], table[n4], old)
         /\ Opt!Named(names, table, old) \in {table[n1], table[n2], table[n3], table[n4], old}
<1>1. CASE names \cap {n1, n2, n3, n4} = {}
  BY <1>1 DEF Opt!Named, Meant
<1>2. CASE names \cap {n1, n2, n3, n4} # {}
  <2> DEFINE c == CHOOSE n \in names : n \in DOMAIN table
  <2>1. c \in names \cap {n1, n2, n3, n4}
    BY <1>2
  <2>2. Opt!Named(names, table, old) = table[c]
    BY <1>2 DEF Opt!Named
  <2> HIDE DEF c
  <2> QED BY <2>1, <2>2 DEF Meant
<1> QED BY <1>1, <1>2

Fields == {"build", "noncharacter", "null", "log", "extensions", "ignore", "multiple", "async", "encoded",
           "duplicate", "keep", "cache", "mutable", "arena", "numbers"}
GeneratorFields == {"duplicate", "keep", "cache", "mutable", "arena", "numbers"}

\* What the base of the semantic actions sets, and its subclass.
LEMMA BaseSet ==
  ASSUME NEW s, DOMAIN s = Fields, NEW v1, NEW v2, NEW v3, NEW v4, NEW v5, NEW v6, NEW v7, NEW v8
  PROVE  LET t == [s EXCEPT !.ignore = v1, !.multiple = v2, !.async = v3, !.encoded = v4,
                            !.noncharacter = v5, !.null = v6, !.log = v7, !.extensions = v8]
         IN  /\ DOMAIN t = Fields
             /\ t.ignore = v1 /\ t.multiple = v2 /\ t.async = v3 /\ t.encoded = v4
             /\ t.noncharacter = v5 /\ t.null = v6 /\ t.log = v7 /\ t.extensions = v8
             /\ t.build = s.build /\ t.duplicate = s.duplicate /\ t.keep = s.keep /\ t.cache = s.cache
             /\ t.mutable = s.mutable /\ t.arena = s.arena /\ t.numbers = s.numbers
BY DEF Fields
LEMMA GeneratorSet ==
  ASSUME NEW s, DOMAIN s = Fields, NEW v1, NEW v2, NEW v3, NEW v4, NEW v5, NEW v6
  PROVE  LET t == [s EXCEPT !.duplicate = v1, !.keep = v2, !.cache = v3, !.mutable = v4, !.arena = v5, !.numbers = v6]
         IN  /\ DOMAIN t = Fields
             /\ t.duplicate = v1 /\ t.keep = v2 /\ t.cache = v3 /\ t.mutable = v4 /\ t.arena = v5 /\ t.numbers = v6
             /\ t.build = s.build /\ t.ignore = s.ignore /\ t.multiple = s.multiple /\ t.async = s.async
             /\ t.encoded = s.encoded /\ t.noncharacter = s.noncharacter /\ t.null = s.null /\ t.log = s.log
             /\ t.extensions = s.extensions
BY DEF Fields
LEMMA PromisedSet ==
  ASSUME NEW s, DOMAIN s = Fields, NEW v1, NEW v2, NEW v3, NEW v4
  PROVE  LET t == [s EXCEPT !.noncharacter = v1, !.null = v2, !.log = v3, !.extensions = v4]
         IN  /\ DOMAIN t = Fields
             /\ t.noncharacter = v1 /\ t.null = v2 /\ t.log = v3 /\ t.extensions = v4
             /\ t.build = s.build /\ t.ignore = s.ignore /\ t.multiple = s.multiple /\ t.async = s.async
             /\ t.encoded = s.encoded /\ t.duplicate = s.duplicate /\ t.keep = s.keep /\ t.cache = s.cache
             /\ t.mutable = s.mutable /\ t.arena = s.arena /\ t.numbers = s.numbers
BY DEF Fields
LEMMA FlagsSet ==
  ASSUME NEW s, DOMAIN s = Fields, NEW v1, NEW v2, NEW v3, NEW v4
  PROVE  LET t == [s EXCEPT !.ignore = v1, !.multiple = v2, !.async = v3, !.encoded = v4]
         IN  /\ DOMAIN t = Fields
             /\ t.ignore = v1 /\ t.multiple = v2 /\ t.async = v3 /\ t.encoded = v4
             /\ t.build = s.build /\ t.noncharacter = s.noncharacter /\ t.null = s.null /\ t.log = s.log
             /\ t.extensions = s.extensions /\ t.duplicate = s.duplicate /\ t.keep = s.keep /\ t.cache = s.cache
             /\ t.mutable = s.mutable /\ t.arena = s.arena /\ t.numbers = s.numbers
BY DEF Fields

\* The settings are those that were asked for, but for the mixed ones.
Match(s, a, mx, cl) ==
  /\ DOMAIN s = Fields /\ DOMAIN a = Fields
  /\ s.build \in Opt!Builds /\ s.build = a.build
  /\ s.noncharacter \in HandlingValues /\ s.noncharacter = a.noncharacter
  /\ s.null \in HandlingValues /\ s.null = a.null
  /\ a.log \in LevelValues /\ s.log = Opt!Severity[a.log]
  /\ s.ignore = a.ignore /\ s.multiple = a.multiple /\ s.async = a.async
  /\ s.cache = a.cache /\ s.mutable = a.mutable /\ s.arena = a.arena /\ s.numbers = a.numbers
  /\ s.encoded = a.encoded \/ "encoded" \in mx
  /\ s.keep = a.keep \/ "keep" \in mx
  /\ s.duplicate = a.duplicate \/ "duplicate" \in mx
  /\ s.extensions \subseteq ExtensionValues /\ (s.extensions = a.extensions \/ "extensions" \in mx)
  /\ cl = "stream" => s.keep = a.keep /\ s.duplicate = a.duplicate
  /\ mx \subseteq {"encoded", "keep", "duplicate", "extensions"}

\* The four choices: what the bits choose is what the name means.
LEMMA NoncharacterMeant ==
  ASSUME NEW names, Request(names), NEW bits, Says(bits, names), NEW old
  PROVE  Opt!Choice(bits, 0, Opt!Handling, old)
           = Opt!Named(names, [AllowNoncharacter |-> "allow", SignalNoncharacter |-> "signal",
                               SubstituteNoncharacter |-> "substitute", RemoveNoncharacter |-> "remove"], old)
<1> DEFINE table == [AllowNoncharacter |-> "allow", SignalNoncharacter |-> "signal",
                     SubstituteNoncharacter |-> "substitute", RemoveNoncharacter |-> "remove"]
<1> DEFINE group == {"AllowNoncharacter", "SignalNoncharacter", "SubstituteNoncharacter", "RemoveNoncharacter"}
<1>1. \A m, n \in names \cap group : m = n
  BY DEF Request, Opt!Choices
<1>2. DOMAIN table = group
  OBVIOUS
<1>3. Opt!Named(names, table, old)
        = Meant(names, "AllowNoncharacter", "SignalNoncharacter", "SubstituteNoncharacter", "RemoveNoncharacter",
                table["AllowNoncharacter"], table["SignalNoncharacter"], table["SubstituteNoncharacter"],
                table["RemoveNoncharacter"], old)
  <2> HIDE DEF table
  <2> QED BY <1>1, <1>2, NamedIs
<1>4. Opt!Choice(bits, 0, Opt!Handling, old)
        = Chosen(0 \in bits, 0 + 1 \in bits, 0 + 2 \in bits,
                 Opt!Handling[1], Opt!Handling[2], Opt!Handling[3], Opt!Handling[4], old)
  BY ChoiceIs
<1>5. /\ 0 + 1 = 1 /\ 0 + 2 = 2
      /\ Opt!Handling[1] = "allow" /\ Opt!Handling[2] = "signal" /\ Opt!Handling[3] = "substitute" /\ Opt!Handling[4] = "remove"
  BY DEF Opt!Handling
<1>6. /\ table["AllowNoncharacter"] = "allow" /\ table["SignalNoncharacter"] = "signal"
      /\ table["SubstituteNoncharacter"] = "substitute" /\ table["RemoveNoncharacter"] = "remove"
  OBVIOUS
<1>7. /\ 0 \in bits <=> "AllowNoncharacter" \in names \/ "SubstituteNoncharacter" \in names
      /\ 1 \in bits <=> "SignalNoncharacter" \in names \/ "SubstituteNoncharacter" \in names
      /\ 2 \in bits <=> "RemoveNoncharacter" \in names
  BY DEF Says
<1> HIDE DEF table
<1>8. Opt!Choice(bits, 0, Opt!Handling, old) = Opt!Named(names, table, old)
  BY <1>1, <1>3, <1>4, <1>5, <1>6, <1>7 DEF Chosen, Meant
<1> QED BY <1>8 DEF table
LEMMA NULLMeant ==
  ASSUME NEW names, Request(names), NEW bits, Says(bits, names), NEW old
  PROVE  Opt!Choice(bits, 3, Opt!Handling, old)
           = Opt!Named(names, [AllowNULL |-> "allow", SignalNULL |-> "signal",
                               SubstituteNULL |-> "substitute", RemoveNULL |-> "remove"], old)
<1> DEFINE table == [AllowNULL |-> "allow", SignalNULL |-> "signal",
                     SubstituteNULL |-> "substitute", RemoveNULL |-> "remove"]
<1> DEFINE group == {"AllowNULL", "SignalNULL", "SubstituteNULL", "RemoveNULL"}
<1>1. \A m, n \in names \cap group : m = n
  BY DEF Request, Opt!Choices
<1>2. DOMAIN table = group
  OBVIOUS
<1>3. Opt!Named(names, table, old)
        = Meant(names, "AllowNULL", "SignalNULL", "SubstituteNULL", "RemoveNULL",
                table["AllowNULL"], table["SignalNULL"], table["SubstituteNULL"],
                table["RemoveNULL"], old)
  <2> HIDE DEF table
  <2> QED BY <1>1, <1>2, NamedIs
<1>4. Opt!Choice(bits, 3, Opt!Handling, old)
        = Chosen(3 \in bits, 3 + 1 \in bits, 3 + 2 \in bits,
                 Opt!Handling[1], Opt!Handling[2], Opt!Handling[3], Opt!Handling[4], old)
  BY ChoiceIs
<1>5. /\ 3 + 1 = 4 /\ 3 + 2 = 5
      /\ Opt!Handling[1] = "allow" /\ Opt!Handling[2] = "signal" /\ Opt!Handling[3] = "substitute" /\ Opt!Handling[4] = "remove"
  BY DEF Opt!Handling
<1>6. /\ table["AllowNULL"] = "allow" /\ table["SignalNULL"] = "signal"
      /\ table["SubstituteNULL"] = "substitute" /\ table["RemoveNULL"] = "remove"
  OBVIOUS
<1>7. /\ 3 \in bits <=> "AllowNULL" \in names \/ "SubstituteNULL" \in names
      /\ 4 \in bits <=> "SignalNULL" \in names \/ "SubstituteNULL" \in names
      /\ 5 \in bits <=> "RemoveNULL" \in names
  BY DEF Says
<1> HIDE DEF table
<1>8. Opt!Choice(bits, 3, Opt!Handling, old) = Opt!Named(names, table, old)
  BY <1>1, <1>3, <1>4, <1>5, <1>6, <1>7 DEF Chosen, Meant
<1> QED BY <1>8 DEF table
LEMMA LogMeant ==
  ASSUME NEW names, Request(names), NEW bits, Says(bits, names), NEW old, NEW was, old = Opt!Severity[was]
  PROVE  /\ Opt!Choice(bits, 6, Opt!Severities, old)
           = Opt!Severity[Opt!Named(names, [LogNone |-> "none", LogError |-> "error",
                               LogWarning |-> "warning", LogDebug |-> "debug"], was)]
         /\ Opt!Named(names, [LogNone |-> "none", LogError |-> "error", LogWarning |-> "warning",
                              LogDebug |-> "debug"], was) \in LevelValues \cup {was}
<1> DEFINE table == [LogNone |-> "none", LogError |-> "error",
                     LogWarning |-> "warning", LogDebug |-> "debug"]
<1> DEFINE group == {"LogNone", "LogError", "LogWarning", "LogDebug"}
<1>1. \A m, n \in names \cap group : m = n
  BY DEF Request, Opt!Choices
<1>2. DOMAIN table = group
  OBVIOUS
<1>3. /\ Opt!Named(names, table, was)
           = Meant(names, "LogNone", "LogError", "LogWarning", "LogDebug",
                   table["LogNone"], table["LogError"], table["LogWarning"],
                table["LogDebug"], was)
      /\ Opt!Named(names, table, was)
           \in {table["LogNone"], table["LogError"], table["LogWarning"], table["LogDebug"], was}
  <2> HIDE DEF table
  <2> QED BY <1>1, <1>2, NamedIs
<1>4. Opt!Choice(bits, 6, Opt!Severities, old)
        = Chosen(6 \in bits, 6 + 1 \in bits, 6 + 2 \in bits,
                 Opt!Severities[1], Opt!Severities[2], Opt!Severities[3], Opt!Severities[4], old)
  BY ChoiceIs
<1>5. /\ 6 + 1 = 7 /\ 6 + 2 = 8
      /\ Opt!Severities[1] = 0 /\ Opt!Severities[2] = 2 /\ Opt!Severities[3] = 3 /\ Opt!Severities[4] = 8
      /\ Opt!Severity["none"] = 0 /\ Opt!Severity["error"] = 2 /\ Opt!Severity["warning"] = 3 /\ Opt!Severity["debug"] = 8
  BY DEF Opt!Severities, Opt!Severity
<1>6. /\ table["LogNone"] = "none" /\ table["LogError"] = "error"
      /\ table["LogWarning"] = "warning" /\ table["LogDebug"] = "debug"
  OBVIOUS
<1>7. /\ 6 \in bits <=> "LogNone" \in names \/ "LogWarning" \in names
      /\ 7 \in bits <=> "LogError" \in names \/ "LogWarning" \in names
      /\ 8 \in bits <=> "LogDebug" \in names
  BY DEF Says
<1> HIDE DEF table
<1>8. Opt!Choice(bits, 6, Opt!Severities, old) = Opt!Severity[Opt!Named(names, table, was)]
  BY <1>1, <1>3, <1>4, <1>5, <1>6, <1>7 DEF Chosen, Meant
<1>9. Opt!Named(names, table, was) \in LevelValues \cup {was}
  BY <1>3, <1>6 DEF LevelValues
<1> QED BY <1>8, <1>9 DEF table
LEMMA NumbersMeant ==
  ASSUME NEW names, Request(names), NEW bits, Says(bits, names), NEW old
  PROVE  Opt!Choice(bits, 22, Opt!Generators, old)
           = Opt!Named(names, [NumbersAuto |-> "auto", NumbersDecimal |-> "decimal",
                               NumbersStrings |-> "strings", NumbersAllDecimal |-> "allDecimal"], old)
<1> DEFINE table == [NumbersAuto |-> "auto", NumbersDecimal |-> "decimal",
                     NumbersStrings |-> "strings", NumbersAllDecimal |-> "allDecimal"]
<1> DEFINE group == {"NumbersAuto", "NumbersDecimal", "NumbersStrings", "NumbersAllDecimal"}
<1>1. \A m, n \in names \cap group : m = n
  BY DEF Request, Opt!Choices
<1>2. DOMAIN table = group
  OBVIOUS
<1>3. Opt!Named(names, table, old)
        = Meant(names, "NumbersAuto", "NumbersDecimal", "NumbersStrings", "NumbersAllDecimal",
                table["NumbersAuto"], table["NumbersDecimal"], table["NumbersStrings"],
                table["NumbersAllDecimal"], old)
  <2> HIDE DEF table
  <2> QED BY <1>1, <1>2, NamedIs
<1>4. Opt!Choice(bits, 22, Opt!Generators, old)
        = Chosen(22 \in bits, 22 + 1 \in bits, 22 + 2 \in bits,
                 Opt!Generators[1], Opt!Generators[2], Opt!Generators[3], Opt!Generators[4], old)
  BY ChoiceIs
<1>5. /\ 22 + 1 = 23 /\ 22 + 2 = 24
      /\ Opt!Generators[1] = "auto" /\ Opt!Generators[2] = "decimal" /\ Opt!Generators[3] = "strings" /\ Opt!Generators[4] = "allDecimal"
  BY DEF Opt!Generators
<1>6. /\ table["NumbersAuto"] = "auto" /\ table["NumbersDecimal"] = "decimal"
      /\ table["NumbersStrings"] = "strings" /\ table["NumbersAllDecimal"] = "allDecimal"
  OBVIOUS
<1>7. /\ 22 \in bits <=> "NumbersAuto" \in names \/ "NumbersStrings" \in names
      /\ 23 \in bits <=> "NumbersDecimal" \in names \/ "NumbersStrings" \in names
      /\ 24 \in bits <=> "NumbersAllDecimal" \in names
  BY DEF Says
<1> HIDE DEF table
<1>8. Opt!Choice(bits, 22, Opt!Generators, old) = Opt!Named(names, table, old)
  BY <1>1, <1>3, <1>4, <1>5, <1>6, <1>7 DEF Chosen, Meant
<1> QED BY <1>8 DEF table

\* FiniteSets is instantiated with the model.
LEMMA OptCardinality ==
  \A S : Opt!Cardinality(S) = Cardinality(S)
BY DEF Cardinality, Opt!Cardinality

\* With the names of a call the settings are what they ask for.
LEMMA ConfigureMatches ==
  ASSUME NEW s, NEW a, NEW mx, Match(s, a, mx, class), NEW names, Request(names), NEW bits, Says(bits, names)
  PROVE  Match(Opt!Configured(s, bits), Opt!Asked(a, names), Opt!Mixed(names), class)
<1> DEFINE nc == Opt!Choice(bits, 0, Opt!Handling, s.noncharacter)
           nu == Opt!Choice(bits, 3, Opt!Handling, s.null)
           lo == Opt!Choice(bits, 6, Opt!Severities, s.log)
           gen == Opt!Choice(bits, 22, Opt!Generators, s.numbers)
           ex == Opt!Extensions(bits)
           base == Opt!BaseConfigured(s, bits)
           full == [base EXCEPT !.duplicate = 18 \in bits, !.keep = 19 \in bits, !.cache = 20 \in bits,
                                !.mutable = 21 \in bits, !.arena = 26 \in bits,
                                !.numbers = Opt!Choice(bits, 22, Opt!Generators, @)]
<1>1. /\ DOMAIN base = Fields
      /\ base.ignore = (12 \in bits) /\ base.multiple = (13 \in bits) /\ base.async = (14 \in bits)
      /\ base.encoded = (19 \in bits)
      /\ base.noncharacter = nc /\ base.null = nu /\ base.log = lo /\ base.extensions = ex
      /\ base.build = s.build /\ base.duplicate = s.duplicate /\ base.keep = s.keep /\ base.cache = s.cache
      /\ base.mutable = s.mutable /\ base.arena = s.arena /\ base.numbers = s.numbers
  <2>1. base = [s EXCEPT !.ignore = 12 \in bits, !.multiple = 13 \in bits, !.async = 14 \in bits, !.encoded = 19 \in bits,
                         !.noncharacter = nc, !.null = nu, !.log = lo, !.extensions = ex]
    BY DEF Opt!BaseConfigured
  <2>2. DOMAIN s = Fields
    BY DEF Match
  <2> HIDE DEF base, nc, nu, lo, ex
  <2> QED BY <2>1, <2>2, BaseSet
<1>2. /\ DOMAIN full = Fields
      /\ full.duplicate = (18 \in bits) /\ full.keep = (19 \in bits) /\ full.cache = (20 \in bits)
      /\ full.mutable = (21 \in bits) /\ full.arena = (26 \in bits) /\ full.numbers = gen
      /\ full.build = base.build /\ full.ignore = base.ignore /\ full.multiple = base.multiple /\ full.async = base.async
      /\ full.encoded = base.encoded /\ full.noncharacter = base.noncharacter /\ full.null = base.null
      /\ full.log = base.log /\ full.extensions = base.extensions
  <2>1. full = [base EXCEPT !.duplicate = 18 \in bits, !.keep = 19 \in bits, !.cache = 20 \in bits,
                            !.mutable = 21 \in bits, !.arena = 26 \in bits, !.numbers = gen]
    BY <1>1
  <2> HIDE DEF base, full, gen
  <2> QED BY <2>1, <1>1, GeneratorSet
<1> HIDE DEF nc, nu, lo, gen, ex
<1> DEFINE wnc == Opt!Named(names, [AllowNoncharacter |-> "allow", SignalNoncharacter |-> "signal",
                              SubstituteNoncharacter |-> "substitute", RemoveNoncharacter |-> "remove"], a.noncharacter)
           wnu == Opt!Named(names, [AllowNULL |-> "allow", SignalNULL |-> "signal",
                              SubstituteNULL |-> "substitute", RemoveNULL |-> "remove"], a.null)
           wlo == Opt!Named(names, [LogNone |-> "none", LogError |-> "error", LogWarning |-> "warning",
                              LogDebug |-> "debug"], a.log)
           wex == Opt!NamedExtensions(names)
           wgen == Opt!Named(names, [NumbersAuto |-> "auto", NumbersDecimal |-> "decimal",
                              NumbersStrings |-> "strings", NumbersAllDecimal |-> "allDecimal"], a.numbers)
           said == Opt!Promised(a, names)
           flags == [said EXCEPT !.ignore = "IgnoreTrailing" \in names, !.multiple = "Multiple" \in names,
                                 !.async = "MultipleAsync" \in names, !.encoded = "Encoded" \in names]
           whole == [flags EXCEPT !.duplicate = "CheckDuplicate" \in names, !.keep = "KeepCache" \in names,
                                  !.cache = "CacheData" \in names, !.mutable = "Mutable" \in names,
                                  !.arena = "Arena" \in names,
                                  !.numbers = Opt!Named(names, [NumbersAuto |-> "auto", NumbersDecimal |-> "decimal",
                                     NumbersStrings |-> "strings", NumbersAllDecimal |-> "allDecimal"], @)]
<1>3. /\ DOMAIN said = Fields
      /\ said.noncharacter = wnc /\ said.null = wnu /\ said.log = wlo /\ said.extensions = wex
      /\ said.build = a.build /\ said.duplicate = a.duplicate /\ said.keep = a.keep /\ said.cache = a.cache
      /\ said.mutable = a.mutable /\ said.arena = a.arena /\ said.numbers = a.numbers
  <2>1. said = [a EXCEPT !.noncharacter = wnc, !.null = wnu, !.log = wlo, !.extensions = wex]
    BY DEF Opt!Promised
  <2>2. DOMAIN a = Fields
    BY DEF Match
  <2> HIDE DEF said, wnc, wnu, wlo, wex
  <2> QED BY <2>1, <2>2, PromisedSet
<1>4. /\ DOMAIN flags = Fields
      /\ flags.ignore = ("IgnoreTrailing" \in names) /\ flags.multiple = ("Multiple" \in names)
      /\ flags.async = ("MultipleAsync" \in names) /\ flags.encoded = ("Encoded" \in names)
      /\ flags.build = said.build /\ flags.noncharacter = said.noncharacter /\ flags.null = said.null
      /\ flags.log = said.log /\ flags.extensions = said.extensions
      /\ flags.duplicate = said.duplicate /\ flags.keep = said.keep /\ flags.cache = said.cache
      /\ flags.mutable = said.mutable /\ flags.arena = said.arena /\ flags.numbers = said.numbers
  <2> HIDE DEF said
  <2> QED BY <1>3, FlagsSet
<1>5. /\ DOMAIN whole = Fields
      /\ whole.duplicate = ("CheckDuplicate" \in names) /\ whole.keep = ("KeepCache" \in names)
      /\ whole.cache = ("CacheData" \in names) /\ whole.mutable = ("Mutable" \in names)
      /\ whole.arena = ("Arena" \in names) /\ whole.numbers = wgen
      /\ whole.build = flags.build /\ whole.ignore = flags.ignore /\ whole.multiple = flags.multiple
      /\ whole.async = flags.async /\ whole.encoded = flags.encoded /\ whole.noncharacter = flags.noncharacter
      /\ whole.null = flags.null /\ whole.log = flags.log /\ whole.extensions = flags.extensions
  <2>1. flags.numbers = a.numbers
    BY <1>3, <1>4
  <2>2. whole = [flags EXCEPT !.duplicate = "CheckDuplicate" \in names, !.keep = "KeepCache" \in names,
                              !.cache = "CacheData" \in names, !.mutable = "Mutable" \in names,
                              !.arena = "Arena" \in names, !.numbers = wgen]
    BY <2>1
  <2> HIDE DEF flags, whole, wgen
  <2> QED BY <2>2, <1>4, GeneratorSet
<1>6. /\ nc = wnc /\ nu = wnu /\ gen = wgen
      /\ lo = Opt!Severity[wlo] /\ wlo \in LevelValues
  <2>1. /\ s.noncharacter = a.noncharacter /\ s.null = a.null /\ s.numbers = a.numbers
        /\ s.log = Opt!Severity[a.log] /\ a.log \in LevelValues
    BY DEF Match
  <2>2. nc = wnc
    BY <2>1, NoncharacterMeant DEF nc
  <2>3. nu = wnu
    BY <2>1, NULLMeant DEF nu
  <2>4. gen = wgen
    BY <2>1, NumbersMeant DEF gen
  <2>5. lo = Opt!Severity[wlo] /\ wlo \in LevelValues \cup {a.log}
    BY <2>1, LogMeant DEF lo
  <2> HIDE DEF wnc, wnu, wgen, wlo
  <2> QED BY <2>1, <2>2, <2>3, <2>4, <2>5
<1>7. nc \in HandlingValues /\ nu \in HandlingValues
  <2>1. s.noncharacter \in HandlingValues /\ s.null \in HandlingValues
    BY DEF Match
  <2>2. \A i \in 1..4 : Opt!Handling[i] \in HandlingValues
    BY DEF Opt!Handling, HandlingValues
  <2>3. nc = Chosen(0 \in bits, 0 + 1 \in bits, 0 + 2 \in bits, Opt!Handling[1], Opt!Handling[2],
                    Opt!Handling[3], Opt!Handling[4], s.noncharacter)
    BY ChoiceIs DEF nc
  <2>4. nu = Chosen(3 \in bits, 3 + 1 \in bits, 3 + 2 \in bits, Opt!Handling[1], Opt!Handling[2],
                    Opt!Handling[3], Opt!Handling[4], s.null)
    BY ChoiceIs DEF nu
  <2>5. /\ Opt!Handling[1] \in HandlingValues /\ Opt!Handling[2] \in HandlingValues
        /\ Opt!Handling[3] \in HandlingValues /\ Opt!Handling[4] \in HandlingValues
    BY <2>2
  <2>6. nc \in HandlingValues
    BY <2>1, <2>3, <2>5 DEF Chosen
  <2>7. nu \in HandlingValues
    BY <2>1, <2>4, <2>5 DEF Chosen
  <2> QED BY <2>6, <2>7
<1> HIDE DEF wnc, wnu, wlo, wgen, base, full, said, flags, whole
<1> DEFINE mixes == Opt!Mixed(names)
<1>8. /\ mixes \subseteq {"encoded", "keep", "duplicate", "extensions"}
      /\ "KeepCache" \in names => "encoded" \in mixes
      /\ "Encoded" \in names => "keep" \in mixes
      /\ "Zeros" \in names => "duplicate" \in mixes
      /\ "CheckDuplicate" \in names \/ "Control" \in names \/ "Plus" \in names => "extensions" \in mixes
      /\ "Comments" \in names /\ "Zeros" \in names => "extensions" \in mixes
  <2>1. "Comments" \in names /\ "Zeros" \in names => Opt!Cardinality(names \cap {"Comments", "Zeros"}) > 1
    <3>1. ASSUME "Comments" \in names, "Zeros" \in names PROVE Opt!Cardinality(names \cap {"Comments", "Zeros"}) > 1
      <4>1. names \cap {"Comments", "Zeros"} = {"Comments"} \cup {"Zeros"}
        BY <3>1
      <4>2. IsFiniteSet({"Comments"}) /\ Cardinality({"Comments"}) = 1
        BY FS_Singleton
      <4>3. Cardinality({"Comments"} \cup {"Zeros"}) = 2
        BY <4>2, FS_AddElement
      <4>4. Opt!Cardinality({"Comments"} \cup {"Zeros"}) = Cardinality({"Comments"} \cup {"Zeros"})
        BY OptCardinality
      <4> QED BY <4>1, <4>3, <4>4
    <3> QED BY <3>1
  <2>2. "Control" \in names \/ "Plus" \in names => names \cap {"Control", "Plus"} # {}
    OBVIOUS
  <2> QED BY <2>1, <2>2 DEF Opt!Mixed
<1>9. ex \subseteq ExtensionValues /\ (ex = wex \/ "extensions" \in mixes)
  <2>1. /\ 15 \in bits <=> "Comments" \in names
        /\ 16 \in bits <=> "Control" \in names
        /\ 17 \in bits <=> "Plus" \in names
        /\ 18 \in bits <=> "Zeros" \in names \/ "CheckDuplicate" \in names
    BY DEF Says
  <2>2. ex = IF 15 \in bits \/ 16 \in bits THEN {"comments"} ELSE IF 17 \in bits THEN {"control"}
             ELSE IF 18 \in bits THEN {"zeros"} ELSE {}
    BY DEF ex, Opt!Extensions
  <2>3. /\ wex \subseteq ExtensionValues
        /\ "comments" \in wex <=> "Comments" \in names
        /\ "control" \in wex <=> "Control" \in names
        /\ "plus" \in wex <=> "Plus" \in names
        /\ "zeros" \in wex <=> "Zeros" \in names
    BY DEF Opt!NamedExtensions, ExtensionValues
  <2> HIDE DEF wex, mixes
  <2>4. ASSUME "Control" \notin names, "Plus" \notin names, "CheckDuplicate" \notin names,
               "Comments" \notin names \/ "Zeros" \notin names
        PROVE  ex = wex
    BY <2>1, <2>2, <2>3, <2>4 DEF ExtensionValues
  <2>5. ex \subseteq ExtensionValues
    BY <2>2 DEF ExtensionValues
  <2> QED BY <2>4, <2>5, <1>8
<1> HIDE DEF wex, mixes
<1>10. Opt!Configured(s, bits) = IF class = "stream" THEN base ELSE full
  BY DEF Opt!Configured, base, full
<1>11. Opt!Asked(a, names) = IF class = "stream" THEN flags ELSE whole
  BY DEF Opt!Asked, said, flags, whole
<1>12. /\ (12 \in bits) = ("IgnoreTrailing" \in names) /\ (13 \in bits) = ("Multiple" \in names)
       /\ (14 \in bits) = ("MultipleAsync" \in names) /\ (20 \in bits) = ("CacheData" \in names)
       /\ (21 \in bits) = ("Mutable" \in names) /\ (26 \in bits) = ("Arena" \in names)
       /\ (19 \in bits) = ("Encoded" \in names) \/ "encoded" \in mixes
       /\ (19 \in bits) = ("KeepCache" \in names) \/ "keep" \in mixes
       /\ (18 \in bits) = ("CheckDuplicate" \in names) \/ "duplicate" \in mixes
  BY <1>8 DEF Says
<1>13. /\ s.build \in Opt!Builds /\ s.build = a.build
       /\ s.cache = a.cache /\ s.mutable = a.mutable /\ s.arena = a.arena /\ s.numbers = a.numbers
       /\ class = "stream" => s.keep = a.keep /\ s.duplicate = a.duplicate
  BY DEF Match
<1>14. CASE class = "stream"
  <2>1. Match(base, flags, mixes, class)
    BY <1>1, <1>3, <1>4, <1>6, <1>7, <1>8, <1>9, <1>12, <1>13, <1>14 DEF Match
  <2> QED BY <2>1, <1>10, <1>11, <1>14 DEF mixes
<1>15. CASE class # "stream"
  <2>1. Match(full, whole, mixes, class)
    BY <1>1, <1>2, <1>3, <1>4, <1>5, <1>6, <1>7, <1>8, <1>9, <1>12, <1>13, <1>15 DEF Match
  <2> QED BY <2>1, <1>10, <1>11, <1>15 DEF mixes
<1> QED BY <1>14, <1>15

\* Without the bit for several documents, as parseString: and parseData: call it.
LEMMA OneDocument ==
  ASSUME NEW names, Request(names)
  PROVE  /\ Request(names \ {"Multiple"})
         /\ Says(Opt!BitsOf(names) \ Opt!Bits.Multiple, names \ {"Multiple"})
         /\ Opt!Mixed(names \ {"Multiple"}) = Opt!Mixed(names)
<1> DEFINE single == names \ {"Multiple"}
           bits == Opt!BitsOf(names)
<1>1. Request(single)
  BY DEF Request
<1>2. Opt!Bits.Multiple = {13}
  BY DEF Opt!Bits
<1>3. Says(bits, names)
  BY BitsAre DEF Request
<1>4. Says(bits \ {13}, single)
  <2> HIDE DEF bits
  <2> QED BY <1>3 DEF Says
<1>5. Opt!Mixed(single) = Opt!Mixed(names)
  <2>1. /\ single \cap {"Control", "Plus"} = names \cap {"Control", "Plus"}
        /\ single \cap {"Comments", "Zeros"} = names \cap {"Comments", "Zeros"}
    OBVIOUS
  <2>2. /\ "KeepCache" \in single <=> "KeepCache" \in names
        /\ "Encoded" \in single <=> "Encoded" \in names
        /\ "Zeros" \in single <=> "Zeros" \in names
        /\ "CheckDuplicate" \in single <=> "CheckDuplicate" \in names
    OBVIOUS
  <2> HIDE DEF single
  <2> QED BY <2>1, <2>2 DEF Opt!Mixed
<1> QED BY <1>1, <1>2, <1>4, <1>5

\* The settings of new actions.
LEMMA FirstMatch ==
  ASSUME NEW build \in Opt!Builds, NEW cl
  PROVE  Match(Opt!Initially(build), Opt!AskedFirst(build), {}, cl)
<1> DEFINE s == Opt!Initially(build)
           a == Opt!AskedFirst(build)
<1>1. build.first \in {"error", "debug"}
  BY DEF Opt!Builds
<1>2. /\ DOMAIN s = Fields
      /\ s.build = build /\ s.noncharacter = "signal" /\ s.null = "signal" /\ s.log = Opt!Severity[build.first]
      /\ s.extensions = {}
  BY DEF Opt!Initially, Fields
<1>3. a = [s EXCEPT !.log = build.first]
  BY DEF Opt!AskedFirst
<1> HIDE DEF s, a
<1>4. /\ DOMAIN a = Fields
      /\ a.log = build.first /\ a.build = s.build /\ a.noncharacter = s.noncharacter /\ a.null = s.null
      /\ a.extensions = s.extensions /\ a.ignore = s.ignore /\ a.multiple = s.multiple /\ a.async = s.async
      /\ a.encoded = s.encoded /\ a.duplicate = s.duplicate /\ a.keep = s.keep /\ a.cache = s.cache
      /\ a.mutable = s.mutable /\ a.arena = s.arena /\ a.numbers = s.numbers
  BY <1>2, <1>3 DEF Fields
<1>5. Match(s, a, {}, cl)
  BY <1>1, <1>2, <1>4 DEF Match, HandlingValues, LevelValues, ExtensionValues
<1> QED BY <1>5 DEF s, a

\* A property of one setting.
LEMMA SetMatches ==
  ASSUME NEW s, NEW a, NEW mx, NEW cl, Match(s, a, mx, cl),
         NEW field \in Fields \ {"build"}, NEW value, NEW meant,
         field \in {"noncharacter", "null"} => value \in HandlingValues,
         field = "extensions" => value \subseteq ExtensionValues,
         field = "log" => meant \in LevelValues /\ value = Opt!Severity[meant],
         field # "log" => value = meant
  PROVE  Match([s EXCEPT ![field] = value], [a EXCEPT ![field] = meant], mx \ {field}, cl)
<1> DEFINE t == [s EXCEPT ![field] = value]
           b == [a EXCEPT ![field] = meant]
<1>1. /\ DOMAIN s = Fields /\ DOMAIN a = Fields
  BY DEF Match
<1>2. /\ DOMAIN t = Fields /\ DOMAIN b = Fields
      /\ t[field] = value /\ b[field] = meant
      /\ \A f \in Fields : f # field => t[f] = s[f] /\ b[f] = a[f]
  BY <1>1
<1> HIDE DEF t, b
<1>3. t.build \in Opt!Builds /\ t.build = b.build
  BY <1>2 DEF Match, Fields
<1>4. t.noncharacter \in HandlingValues /\ t.noncharacter = b.noncharacter
  BY <1>2 DEF Match, Fields
<1>5. t.null \in HandlingValues /\ t.null = b.null
  BY <1>2 DEF Match, Fields
<1>6. b.log \in LevelValues /\ t.log = Opt!Severity[b.log]
  BY <1>2 DEF Match, Fields
<1>7. /\ t.ignore = b.ignore /\ t.multiple = b.multiple /\ t.async = b.async
      /\ t.cache = b.cache /\ t.mutable = b.mutable /\ t.arena = b.arena /\ t.numbers = b.numbers
  BY <1>2 DEF Match, Fields
<1>8. t.encoded = b.encoded \/ "encoded" \in mx \ {field}
  BY <1>2 DEF Match, Fields
<1>9. t.keep = b.keep \/ "keep" \in mx \ {field}
  BY <1>2 DEF Match, Fields
<1>10. t.duplicate = b.duplicate \/ "duplicate" \in mx \ {field}
  BY <1>2 DEF Match, Fields
<1>11. t.extensions \subseteq ExtensionValues /\ (t.extensions = b.extensions \/ "extensions" \in mx \ {field})
  BY <1>2 DEF Match, Fields
<1>12. cl = "stream" => t.keep = b.keep /\ t.duplicate = b.duplicate
  BY <1>2 DEF Match, Fields
<1>13. mx \ {field} \subseteq {"encoded", "keep", "duplicate", "extensions"}
  BY DEF Match
<1>14. Match(t, b, mx \ {field}, cl)
  BY <1>2, <1>3, <1>4, <1>5, <1>6, <1>7, <1>8, <1>9, <1>10, <1>11, <1>12, <1>13 DEF Match
<1> QED BY <1>14 DEF t, b

\* The flags of the C++ front end.
Either(flags, signal, substitute, remove) ==
  IF signal \in flags THEN "signal" ELSE IF substitute \in flags THEN "substitute"
  ELSE IF remove \in flags THEN "remove" ELSE "allow"
Level(flags, old) ==
  IF "LogDebug" \in flags THEN 8 ELSE IF "LogWarning" \in flags THEN 3
  ELSE IF "LogError" \in flags THEN 2 ELSE IF "LogNone" \in flags THEN 0 ELSE old
FlagExtensions(flags) ==
  {CASE x = "Comments" -> "comments" [] x = "Control" -> "control" [] x = "Plus" -> "plus" [] OTHER -> "zeros"
     : x \in flags \cap {"Comments", "Control", "Plus", "Zeros"}}

LEMMA EitherMeant ==
  ASSUME NEW flags, NEW allow, NEW signal, NEW substitute, NEW remove, NEW table,
         DOMAIN table = {allow, signal, substitute, remove},
         table[allow] = "allow", table[signal] = "signal", table[substitute] = "substitute", table[remove] = "remove",
         \A m, n \in flags \cap {allow, signal, substitute, remove} : m = n
  PROVE  /\ Either(flags, signal, substitute, remove) = Opt!Named(flags, table, "allow")
         /\ Either(flags, signal, substitute, remove) \in HandlingValues
<1>1. Opt!Named(flags, table, "allow")
        = Meant(flags, allow, signal, substitute, remove, table[allow], table[signal], table[substitute], table[remove], "allow")
  BY NamedIs
<1> QED BY <1>1 DEF Either, Meant, HandlingValues

LEMMA LevelMeant ==
  ASSUME NEW flags, Request(flags), NEW was \in LevelValues
  PROVE  LET named == Opt!Named(flags, [LogNone |-> "none", LogError |-> "error", LogWarning |-> "warning",
                                        LogDebug |-> "debug"], was)
         IN Level(flags, Opt!Severity[was]) = Opt!Severity[named] /\ named \in LevelValues
<1> DEFINE table == [LogNone |-> "none", LogError |-> "error", LogWarning |-> "warning", LogDebug |-> "debug"]
<1>1. \A m, n \in flags \cap {"LogNone", "LogError", "LogWarning", "LogDebug"} : m = n
  BY DEF Request, Opt!Choices
<1>2. /\ DOMAIN table = {"LogNone", "LogError", "LogWarning", "LogDebug"}
      /\ table["LogNone"] = "none" /\ table["LogError"] = "error"
      /\ table["LogWarning"] = "warning" /\ table["LogDebug"] = "debug"
  OBVIOUS
<1>3. /\ Opt!Severity["none"] = 0 /\ Opt!Severity["error"] = 2
      /\ Opt!Severity["warning"] = 3 /\ Opt!Severity["debug"] = 8
  BY DEF Opt!Severity
<1> HIDE DEF table
<1>4. Opt!Named(flags, table, was)
        = Meant(flags, "LogNone", "LogError", "LogWarning", "LogDebug", table["LogNone"], table["LogError"],
                table["LogWarning"], table["LogDebug"], was)
  BY <1>1, <1>2, NamedIs
<1>5. /\ Level(flags, Opt!Severity[was]) = Opt!Severity[Opt!Named(flags, table, was)]
      /\ Opt!Named(flags, table, was) \in LevelValues
  BY <1>1, <1>2, <1>3, <1>4 DEF Level, Meant, LevelValues
<1> QED BY <1>5 DEF table

LEMMA ExtensionsMeant ==
  ASSUME NEW flags
  PROVE  FlagExtensions(flags) = Opt!NamedExtensions(flags) /\ FlagExtensions(flags) \subseteq ExtensionValues
<1> DEFINE of(x) == CASE x = "Comments" -> "comments" [] x = "Control" -> "control" [] x = "Plus" -> "plus" [] OTHER -> "zeros"
<1>1. /\ of("Comments") = "comments" /\ of("Control") = "control" /\ of("Plus") = "plus" /\ of("Zeros") = "zeros"
  OBVIOUS
<1>2. \A e : e \in FlagExtensions(flags) <=> \E x \in flags \cap {"Comments", "Control", "Plus", "Zeros"} : e = of(x)
  BY DEF FlagExtensions
<1> HIDE DEF of
<1>3. \A e : e \in FlagExtensions(flags) <=> \/ e = "comments" /\ "Comments" \in flags
                                             \/ e = "control" /\ "Control" \in flags
                                             \/ e = "plus" /\ "Plus" \in flags
                                             \/ e = "zeros" /\ "Zeros" \in flags
  BY <1>1, <1>2
<1>4. /\ Opt!NamedExtensions(flags) \subseteq ExtensionValues
      /\ "comments" \in Opt!NamedExtensions(flags) <=> "Comments" \in flags
      /\ "control" \in Opt!NamedExtensions(flags) <=> "Control" \in flags
      /\ "plus" \in Opt!NamedExtensions(flags) <=> "Plus" \in flags
      /\ "zeros" \in Opt!NamedExtensions(flags) <=> "Zeros" \in flags
  BY DEF Opt!NamedExtensions, ExtensionValues
<1> QED BY <1>3, <1>4 DEF ExtensionValues

LEMMA FlagsMatch ==
  ASSUME NEW build \in Opt!Builds, NEW flags, Request(flags), NEW cl
  PROVE  Match(Opt!Applied(Opt!Initially(build), flags),
               Opt!Promised([Opt!AskedFirst(build) EXCEPT !.noncharacter = "allow", !.null = "allow"], flags), {}, cl)
<1> DEFINE s == Opt!Initially(build)
           a == Opt!AskedFirst(build)
           b == [a EXCEPT !.noncharacter = "allow", !.null = "allow"]
           nc == Either(flags, "SignalNoncharacter", "SubstituteNoncharacter", "RemoveNoncharacter")
           nu == Either(flags, "SignalNULL", "SubstituteNULL", "RemoveNULL")
           lo == Level(flags, s.log)
           ex == FlagExtensions(flags)
           wnc == Opt!Named(flags, [AllowNoncharacter |-> "allow", SignalNoncharacter |-> "signal",
                              SubstituteNoncharacter |-> "substitute", RemoveNoncharacter |-> "remove"], b.noncharacter)
           wnu == Opt!Named(flags, [AllowNULL |-> "allow", SignalNULL |-> "signal",
                              SubstituteNULL |-> "substitute", RemoveNULL |-> "remove"], b.null)
           wlo == Opt!Named(flags, [LogNone |-> "none", LogError |-> "error", LogWarning |-> "warning",
                              LogDebug |-> "debug"], b.log)
           wex == Opt!NamedExtensions(flags)
           t == Opt!Applied(s, flags)
           u == Opt!Promised(b, flags)
<1>1. Match(s, a, {}, cl)
  BY FirstMatch
<1>2. t = [s EXCEPT !.noncharacter = nc, !.null = nu, !.log = lo, !.extensions = ex]
  BY DEF Opt!Applied, Either, Level, FlagExtensions
<1>3. u = [b EXCEPT !.noncharacter = wnc, !.null = wnu, !.log = wlo, !.extensions = wex]
  BY DEF Opt!Promised
<1> HIDE DEF s, a
<1>4. /\ DOMAIN b = Fields
      /\ b.noncharacter = "allow" /\ b.null = "allow" /\ b.build = a.build /\ b.log = a.log
      /\ b.ignore = a.ignore /\ b.multiple = a.multiple /\ b.async = a.async
      /\ b.encoded = a.encoded /\ b.duplicate = a.duplicate /\ b.keep = a.keep /\ b.cache = a.cache
      /\ b.mutable = a.mutable /\ b.arena = a.arena /\ b.numbers = a.numbers
  <2>1. DOMAIN a = Fields
    BY <1>1 DEF Match
  <2> QED BY <2>1 DEF Fields
<1> HIDE DEF b, t, u
<1>5. nc = wnc /\ nc \in HandlingValues
  <2>1. \A m, n \in flags \cap {"AllowNoncharacter", "SignalNoncharacter", "SubstituteNoncharacter", "RemoveNoncharacter"} : m = n
    BY DEF Request, Opt!Choices
  <2> DEFINE table == [AllowNoncharacter |-> "allow", SignalNoncharacter |-> "signal",
                       SubstituteNoncharacter |-> "substitute", RemoveNoncharacter |-> "remove"]
  <2>2. /\ DOMAIN table = {"AllowNoncharacter", "SignalNoncharacter", "SubstituteNoncharacter", "RemoveNoncharacter"}
        /\ table["AllowNoncharacter"] = "allow" /\ table["SignalNoncharacter"] = "signal"
        /\ table["SubstituteNoncharacter"] = "substitute" /\ table["RemoveNoncharacter"] = "remove"
    OBVIOUS
  <2> HIDE DEF table
  <2>3. nc = Opt!Named(flags, table, "allow") /\ nc \in HandlingValues
    BY <2>1, <2>2, EitherMeant
  <2> QED BY <2>3, <1>4 DEF table
<1>6. nu = wnu /\ nu \in HandlingValues
  <2>1. \A m, n \in flags \cap {"AllowNULL", "SignalNULL", "SubstituteNULL", "RemoveNULL"} : m = n
    BY DEF Request, Opt!Choices
  <2> DEFINE table == [AllowNULL |-> "allow", SignalNULL |-> "signal", SubstituteNULL |-> "substitute",
                       RemoveNULL |-> "remove"]
  <2>2. /\ DOMAIN table = {"AllowNULL", "SignalNULL", "SubstituteNULL", "RemoveNULL"}
        /\ table["AllowNULL"] = "allow" /\ table["SignalNULL"] = "signal"
        /\ table["SubstituteNULL"] = "substitute" /\ table["RemoveNULL"] = "remove"
    OBVIOUS
  <2> HIDE DEF table
  <2>3. nu = Opt!Named(flags, table, "allow") /\ nu \in HandlingValues
    BY <2>1, <2>2, EitherMeant
  <2> QED BY <2>3, <1>4 DEF table
<1>7. lo = Opt!Severity[wlo] /\ wlo \in LevelValues
  <2>1. s.log = Opt!Severity[b.log] /\ b.log \in LevelValues
    BY <1>1, <1>4 DEF Match
  <2> QED BY <2>1, LevelMeant
<1>8. ex = wex /\ ex \subseteq ExtensionValues
  BY ExtensionsMeant
<1> HIDE DEF nc, nu, lo, ex, wnc, wnu, wlo, wex
<1>9. /\ DOMAIN t = Fields
      /\ t.noncharacter = nc /\ t.null = nu /\ t.log = lo /\ t.extensions = ex
      /\ t.build = s.build /\ t.ignore = s.ignore /\ t.multiple = s.multiple /\ t.async = s.async
      /\ t.encoded = s.encoded /\ t.duplicate = s.duplicate /\ t.keep = s.keep /\ t.cache = s.cache
      /\ t.mutable = s.mutable /\ t.arena = s.arena /\ t.numbers = s.numbers
  <2>1. DOMAIN s = Fields
    BY <1>1 DEF Match
  <2> QED BY <2>1, <1>2, PromisedSet
<1>10. /\ DOMAIN u = Fields
       /\ u.noncharacter = wnc /\ u.null = wnu /\ u.log = wlo /\ u.extensions = wex
       /\ u.build = b.build /\ u.ignore = b.ignore /\ u.multiple = b.multiple /\ u.async = b.async
       /\ u.encoded = b.encoded /\ u.duplicate = b.duplicate /\ u.keep = b.keep /\ u.cache = b.cache
       /\ u.mutable = b.mutable /\ u.arena = b.arena /\ u.numbers = b.numbers
  BY <1>3, <1>4, PromisedSet
<1>11. /\ s.build \in Opt!Builds /\ s.build = a.build
       /\ s.ignore = a.ignore /\ s.multiple = a.multiple /\ s.async = a.async
       /\ s.cache = a.cache /\ s.mutable = a.mutable /\ s.arena = a.arena /\ s.numbers = a.numbers
       /\ s.encoded = a.encoded /\ s.keep = a.keep /\ s.duplicate = a.duplicate
  BY <1>1 DEF Match
<1>12. Match(t, u, {}, cl)
  BY <1>4, <1>5, <1>6, <1>7, <1>8, <1>9, <1>10, <1>11 DEF Match
<1> QED BY <1>12 DEF t, u, s, b, a

ConfigInv == class \in {"generator", "stream", "cpp"} /\ Match(settings, asked, mixed, class)

LEMMA RequestsAre ==
  ASSUME Opt!OptionsConstants, NEW names \in Requests \cup CppRequests
  PROVE  Request(names) /\ Says(Opt!BitsOf(names), names)
<1>1. Request(names)
  BY NamesAre DEF Opt!OptionsConstants, Request
<1> QED BY <1>1, BitsAre DEF Request

LEMMA ConfigInit == ASSUME Opt!Init PROVE ConfigInv
<1>1. PICK build \in Opt!Builds : /\ class \in {"generator", "stream", "cpp"} /\ settings = Opt!Initially(build)
                                  /\ asked = Opt!AskedFirst(build) /\ mixed = {}
  BY DEF Opt!Init
<1> QED BY <1>1, FirstMatch DEF ConfigInv

LEMMA ConfigureStep == ASSUME Opt!OptionsConstants, ConfigInv, Opt!configureWithOptions PROVE ConfigInv'
<1>1. PICK names \in Requests : /\ settings' = Opt!Configured(settings, Opt!BitsOf(names))
                                /\ asked' = Opt!Asked(asked, names) /\ mixed' = Opt!Mixed(names) /\ class' = class
  BY DEF Opt!configureWithOptions
<1>2. Match(Opt!Configured(settings, Opt!BitsOf(names)), Opt!Asked(asked, names), Opt!Mixed(names), class)
  BY RequestsAre, ConfigureMatches DEF ConfigInv
<1> QED BY <1>1, <1>2 DEF ConfigInv

LEMMA ParseOnceStep == ASSUME Opt!OptionsConstants, ConfigInv, Opt!ParseOnce PROVE ConfigInv'
<1> DEFINE build == settings.build
<1>1. PICK names \in Requests :
        /\ settings' = Opt!Configured(Opt!Initially(build), Opt!BitsOf(names) \ Opt!Bits.Multiple)
        /\ asked' = Opt!Asked(Opt!AskedFirst(build), names \ {"Multiple"})
        /\ mixed' = Opt!Mixed(names) /\ class' = class
  BY DEF Opt!ParseOnce
<1>2. build \in Opt!Builds
  BY DEF ConfigInv, Match
<1> HIDE DEF build
<1> DEFINE bits == Opt!BitsOf(names) \ Opt!Bits.Multiple
           single == names \ {"Multiple"}
<1>3. Request(names)
  BY RequestsAre
<1>4. Request(single) /\ Says(bits, single) /\ Opt!Mixed(single) = Opt!Mixed(names)
  BY <1>3, OneDocument
<1>5. Match(Opt!Initially(build), Opt!AskedFirst(build), {}, class)
  BY <1>2, FirstMatch
<1> HIDE DEF bits, single
<1>6. Match(Opt!Configured(Opt!Initially(build), bits), Opt!Asked(Opt!AskedFirst(build), single), Opt!Mixed(single), class)
  BY <1>4, <1>5, ConfigureMatches
<1>7. Match(settings', asked', mixed', class)
  BY <1>1, <1>4, <1>6 DEF bits, single
<1> QED BY <1>1, <1>7 DEF ConfigInv

LEMMA SetStep ==
  ASSUME ConfigInv, NEW field \in Fields \ {"build"}, NEW value, NEW meant,
         field \in {"noncharacter", "null"} => value \in HandlingValues,
         field = "extensions" => value \subseteq ExtensionValues,
         field = "log" => meant \in LevelValues /\ value = Opt!Severity[meant],
         field # "log" => value = meant,
         Opt!Set(field, value, meant)
  PROVE  ConfigInv'
<1>1. Match([settings EXCEPT ![field] = value], [asked EXCEPT ![field] = meant], mixed \ {field}, class)
  BY SetMatches DEF ConfigInv
<1> QED BY <1>1 DEF Opt!Set, ConfigInv

LEMMA SettersStep ==
  ASSUME ConfigInv,
         \/ Opt!SetFlag \/ Opt!SetGeneratorFlag \/ Opt!setNumberGeneratorOption
         \/ Opt!setLogLevel \/ Opt!SetHandling \/ Opt!setNonConformanceOptions
  PROVE  ConfigInv'
<1>1. CASE Opt!SetFlag
  <2>1. PICK field \in {"ignore", "multiple", "async", "encoded"}, v \in BOOLEAN : Opt!Set(field, v, v)
    BY <1>1 DEF Opt!SetFlag
  <2>2. field \in Fields \ {"build"} /\ field \notin {"noncharacter", "null", "extensions", "log"}
    BY DEF Fields
  <2> QED BY <2>1, <2>2, SetStep
<1>2. CASE Opt!SetGeneratorFlag
  <2>1. PICK field \in {"duplicate", "keep", "cache", "mutable", "arena"}, v \in BOOLEAN : Opt!Set(field, v, v)
    BY <1>2 DEF Opt!SetGeneratorFlag
  <2>2. field \in Fields \ {"build"} /\ field \notin {"noncharacter", "null", "extensions", "log"}
    BY DEF Fields
  <2> QED BY <2>1, <2>2, SetStep
<1>3. CASE Opt!setNumberGeneratorOption
  <2>1. PICK i \in 1..4 : Opt!Set("numbers", Opt!Generators[i], Opt!Generators[i])
    BY <1>3 DEF Opt!setNumberGeneratorOption
  <2>2. "numbers" \in Fields \ {"build"} /\ "numbers" \notin {"noncharacter", "null", "extensions", "log"}
    BY DEF Fields
  <2> QED BY <2>1, <2>2, SetStep
<1>4. CASE Opt!setLogLevel
  <2>1. PICK i \in 1..4 : Opt!Set("log", Opt!Severity[Opt!Levels[i]], Opt!Levels[i])
    BY <1>4 DEF Opt!setLogLevel
  <2>2. "log" \in Fields \ {"build"} /\ "log" \notin {"noncharacter", "null", "extensions"}
    BY DEF Fields
  <2>3. Opt!Levels[i] \in LevelValues
    BY DEF Opt!Levels, LevelValues
  <2> QED BY <2>1, <2>2, <2>3, SetStep
<1>5. CASE Opt!SetHandling
  <2>1. PICK field \in {"noncharacter", "null"}, i \in 1..4 : Opt!Set(field, Opt!Handling[i], Opt!Handling[i])
    BY <1>5 DEF Opt!SetHandling
  <2>2. field \in Fields \ {"build"} /\ field \notin {"extensions", "log"}
    BY DEF Fields
  <2>3. Opt!Handling[i] \in HandlingValues
    BY DEF Opt!Handling, HandlingValues
  <2> QED BY <2>1, <2>2, <2>3, SetStep
<1>6. CASE Opt!setNonConformanceOptions
  <2>1. PICK options \in SUBSET {"comments", "control", "plus", "zeros"} : Opt!Set("extensions", options, options)
    BY <1>6 DEF Opt!setNonConformanceOptions
  <2>2. "extensions" \in Fields \ {"build"} /\ "extensions" \notin {"noncharacter", "null", "log"}
    BY DEF Fields
  <2>3. options \subseteq ExtensionValues
    BY DEF ExtensionValues
  <2> QED BY <2>1, <2>2, <2>3, SetStep
<1> QED BY <1>1, <1>2, <1>3, <1>4, <1>5, <1>6

LEMMA FlagsStep == ASSUME Opt!OptionsConstants, ConfigInv, Opt!parse PROVE ConfigInv'
<1> DEFINE build == settings.build
<1>1. PICK flags \in CppRequests :
        /\ settings' = Opt!Applied(Opt!Initially(build), flags)
        /\ asked' = Opt!Promised([Opt!AskedFirst(build) EXCEPT !.noncharacter = "allow", !.null = "allow"], flags)
        /\ mixed' = {} /\ class' = class
  BY DEF Opt!parse
<1>2. build \in Opt!Builds
  BY DEF ConfigInv, Match
<1> HIDE DEF build
<1>3. Match(settings', asked', mixed', class)
  BY <1>1, <1>2, RequestsAre, FlagsMatch
<1> QED BY <1>1, <1>3 DEF ConfigInv

LEMMA ConfigStep == ASSUME Opt!OptionsConstants, ConfigInv, [Opt!Next]_(Opt!vars) PROVE ConfigInv'
<1>1. CASE Opt!configureWithOptions
  BY <1>1, ConfigureStep
<1>2. CASE Opt!ParseOnce
  BY <1>2, ParseOnceStep
<1>3. CASE \/ Opt!SetFlag \/ Opt!SetGeneratorFlag \/ Opt!setNumberGeneratorOption
           \/ Opt!setLogLevel \/ Opt!SetHandling \/ Opt!setNonConformanceOptions
  BY <1>3, SettersStep
<1>4. CASE Opt!parse
  BY <1>4, FlagsStep
<1>5. CASE UNCHANGED Opt!vars
  BY <1>5 DEF Opt!vars, ConfigInv
<1> QED BY <1>1, <1>2, <1>3, <1>4, <1>5 DEF Opt!Next

\* Settings that match read as they were asked for.
LEMMA MatchReads == ASSUME ConfigInv PROVE Opt!TypeOK /\ Opt!Configures
<1>1. Match(settings, asked, mixed, class)
  BY DEF ConfigInv
<1>2. Opt!TypeOK
  <2>1. /\ Opt!Handling[1] = "allow" /\ Opt!Handling[2] = "signal"
        /\ Opt!Handling[3] = "substitute" /\ Opt!Handling[4] = "remove"
    BY DEF Opt!Handling
  <2>2. \A h \in HandlingValues : \E i \in 1..4 : h = Opt!Handling[i]
    <3>1. 1 \in 1..4 /\ 2 \in 1..4 /\ 3 \in 1..4 /\ 4 \in 1..4
      OBVIOUS
    <3> QED BY <2>1, <3>1 DEF HandlingValues
  <2>3. {settings.noncharacter, settings.null} \subseteq {Opt!Handling[i] : i \in 1..4}
    BY <1>1, <2>2 DEF Match
  <2>4. /\ DOMAIN settings = DOMAIN asked /\ mixed \subseteq DOMAIN settings
        /\ settings.extensions \subseteq {"comments", "control", "plus", "zeros"}
    BY <1>1 DEF Match, Fields, ExtensionValues
  <2> QED BY <2>3, <2>4 DEF Opt!TypeOK
<1>3. \/ Opt!LogLevel(settings) = asked.log
      \/ asked.log = "debug" /\ settings.build.most = 3 /\ Opt!LogLevel(settings) = "warning"
  <2>1. /\ settings.log = Opt!Severity[asked.log] /\ asked.log \in LevelValues
        /\ settings.build.most \in {3, 8}
    BY <1>1 DEF Match, Opt!Builds
  <2>2. /\ Opt!Severity["none"] = 0 /\ Opt!Severity["error"] = 2
        /\ Opt!Severity["warning"] = 3 /\ Opt!Severity["debug"] = 8
    BY DEF Opt!Severity
  <2>3. /\ Opt!LogOption(0) = "none" /\ Opt!LogOption(2) = "error"
        /\ Opt!LogOption(3) = "warning" /\ Opt!LogOption(8) = "debug"
    BY DEF Opt!LogOption
  <2>4. Opt!LogLevel(settings) = Opt!LogOption(IF settings.log < settings.build.most THEN settings.log ELSE settings.build.most)
    BY DEF Opt!LogLevel
  <2> QED BY <2>1, <2>2, <2>3, <2>4 DEF LevelValues
<1>4. ASSUME NEW f \in Fields, f # "log"
      PROVE  Opt!Read(f) = asked[f] \/ f \in mixed
  <2>1. Opt!Read(f) = settings[f]
    BY <1>4 DEF Opt!Read, Opt!nonConformanceOptions
  <2> QED BY <1>1, <1>4, <2>1 DEF Match, Fields
<1>5. Opt!Read("log") = Opt!LogLevel(settings)
  BY DEF Opt!Read
<1>6. DOMAIN settings = Fields
  BY <1>1 DEF Match
<1> QED BY <1>2, <1>3, <1>4, <1>5, <1>6 DEF Opt!Configures

\* However many calls configure the semantic actions, with whatever options of
\* which none contradict each other, by whatever setters in between, each
\* setting reads as the calls asked for, but for the options that share a bit,
\* the extensions, and a level that the build cannot write: the properties of
\* JPSemanticActionsBase and of JPRepresentationGenerator.
THEOREM OptionsConfigure == ASSUME Opt!OptionsConstants PROVE Opt!Spec => [](Opt!TypeOK /\ Opt!Configures)
<1>1. Opt!Init => ConfigInv
  BY ConfigInit
<1>2. ConfigInv /\ [Opt!Next]_(Opt!vars) => ConfigInv'
  BY ConfigStep
<1>3. ConfigInv => Opt!TypeOK /\ Opt!Configures
  BY MatchReads
<1> QED BY <1>1, <1>2, <1>3, PTL DEF Opt!Spec
=============================================================================
