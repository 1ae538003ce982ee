------------------------------- MODULE Logger ------------------------------
(***************************************************************************)
(* utility/simple_log.hpp: a logger that several threads use.  A line is   *)
(* written in three calls of the C library, and nothing keeps another      *)
(* thread's calls apart from them; the names that stand before a line, of  *)
(* the process and of the thread, are looked up once, in static variables. *)
(***************************************************************************)
EXTENDS Naturals, Sequences

CONSTANTS Threads,
          MaxSeverity,  \* of the class template, a level that messages are compiled up to
          Levels,       \* the values of LOG_Level
          MaxMessages   \* of all threads

VARIABLES max_severity_,
          s_thread_id,  \* 0, or a thread
          step,         \* of each thread: where it is in vflog
          logged,       \* how many messages there were
          racers,       \* the threads that found no thread's name in s_thread_id
          out           \* what was written, in order: pieces of lines, each by a thread

vars == <<max_severity_, s_thread_id, step, logged, racers, out>>

LoggerConstants == 0 \notin Threads /\ Levels \subseteq Nat /\ MaxSeverity \in Levels

Piece(t, what, id) == [by |-> t, what |-> what, id |-> id]
Goes(t, to) == step' = [step EXCEPT ![t] = to]
Writes(p) == out' = Append(out, p)

Init ==
  /\ max_severity_ = MaxSeverity /\ s_thread_id = 0
  /\ step = [t \in Threads |-> "idle"] /\ logged = 0 /\ racers = {} /\ out = <<>>

\* log_level(level): above MaxSeverity too
SetLevel(level) ==
  /\ max_severity_' = level
  /\ UNCHANGED <<s_thread_id, step, logged, racers, out>>
\* log_level()
log_level == IF max_severity_ < MaxSeverity THEN max_severity_ ELSE MaxSeverity

\* log: compiled to nothing above MaxSeverity, and silent above max_severity_
Log(t, level) ==
  /\ step[t] = "idle" /\ logged < MaxMessages /\ logged' = logged + 1
  /\ IF level > MaxSeverity \/ level > max_severity_ THEN UNCHANGED step ELSE Goes(t, "test")
  /\ UNCHANGED <<max_severity_, s_thread_id, racers, out>>

\* threadID: a static variable that is tested, set and read
TestId(t) ==
  /\ step[t] = "test" /\ Goes(t, IF s_thread_id = 0 THEN "set" ELSE "header")
  /\ racers' = (IF s_thread_id = 0 THEN racers \cup {t} ELSE racers)
  /\ UNCHANGED <<max_severity_, s_thread_id, logged, out>>
SetId(t) ==
  /\ step[t] = "set" /\ s_thread_id' = t /\ Goes(t, "header")
  /\ UNCHANGED <<max_severity_, logged, racers, out>>

\* fprintf of the time, the executable's name, the process and the thread
Header(t) ==
  /\ step[t] = "header" /\ Writes(Piece(t, "header", s_thread_id)) /\ Goes(t, "message")
  /\ UNCHANGED <<max_severity_, s_thread_id, logged, racers>>
\* vfprintf of the message
Message(t) ==
  /\ step[t] = "message" /\ Writes(Piece(t, "message", 0)) /\ Goes(t, "newline")
  /\ UNCHANGED <<max_severity_, s_thread_id, logged, racers>>
\* format[strlen(format)] is the 0 behind the format, and no newline: one is always written
Newline(t) ==
  /\ step[t] = "newline" /\ Writes(Piece(t, "newline", 0)) /\ Goes(t, "idle")
  /\ UNCHANGED <<max_severity_, s_thread_id, logged, racers>>

Next == \/ \E level \in Levels : SetLevel(level) \/ \E t \in Threads : Log(t, level)
        \/ \E t \in Threads : TestId(t) \/ SetId(t) \/ Header(t) \/ Message(t) \/ Newline(t)

Spec == Init /\ [][Next]_vars
-----------------------------------------------------------------------------
Steps == {"idle", "test", "set", "header", "message", "newline"}
Pieces == [by : Threads, what : {"header", "message", "newline"}, id : Threads \cup {0}]
TypeOK ==
  /\ max_severity_ \in Levels /\ s_thread_id \in Threads \cup {0}
  /\ step \in [Threads -> Steps] /\ logged \in Nat /\ racers \subseteq Threads /\ out \in Seq(Pieces)

Follows == [header |-> {"message"}, message |-> {"newline"}, newline |-> {"header"}]
\* out[i] is the last piece of its thread before place j
LastBefore(i, j) == i < j /\ \A n \in 1..Len(out) : i < n /\ n < j => out[n].by # out[i].by
\* what a thread has written last is what its place in vflog is behind of
InTurn ==
  \A t \in Threads :
    /\ step[t] \in {"message", "newline"} =>
         \E i \in 1..Len(out) : out[i].by = t /\ LastBefore(i, Len(out) + 1) /\ step[t] \in Follows[out[i].what]
    /\ step[t] \in {"idle", "test", "set", "header"} =>
         \A i \in 1..Len(out) : out[i].by = t /\ LastBefore(i, Len(out) + 1) => out[i].what = "newline"
WholeLines ==
  \A i, j \in 1..Len(out) : out[i].by = out[j].by /\ LastBefore(i, j) => out[j].what \in Follows[out[i].what]
StartsLines ==
  \A j \in 1..Len(out) : (\A i \in 1..Len(out) : i < j => out[i].by # out[j].by) => out[j].what = "header"

Racing ==
  /\ s_thread_id # 0 => s_thread_id \in racers
  /\ \A t \in Threads : (step[t] = "set" => t \in racers) /\ (step[t] \in {"header", "message", "newline"} => s_thread_id # 0)
NamesRacer == \A i \in 1..Len(out) : out[i].what = "header" => out[i].id \in racers

\* What a thread writes are whole lines, each a header, a message and a newline in
\* this order, though between the pieces of other threads' lines; and every header,
\* of whichever thread, names one of those that raced for the first line.
WritesLines == WholeLines /\ StartsLines /\ NamesRacer
=============================================================================
