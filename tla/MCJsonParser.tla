---------------------------- MODULE MCJsonParser ----------------------------
(* Small instances of JsonParser for TLC.                                  *)
EXTENDS JsonParser

Default ==
    [utf32 |-> FALSE, filter |-> "signal", escaped |-> FALSE, multi |-> FALSE,
     ignore |-> FALSE, duplicates |-> TRUE, cached |-> FALSE, strings |-> FALSE, client |-> "waits"]

\* The defaults, and settings that together have every option on and off and
\* all four ways to filter.
Settings ==
    {[Default EXCEPT !.client = "cancels"],
     [Default EXCEPT !.filter = "remove", !.escaped = TRUE, !.multi = TRUE,
                     !.ignore = TRUE, !.duplicates = FALSE, !.strings = TRUE],
     [Default EXCEPT !.filter = "substitute", !.multi = TRUE, !.cached = TRUE, !.strings = TRUE],
     [Default EXCEPT !.filter = "remove", !.utf32 = TRUE],
     [Default EXCEPT !.filter = "allow", !.ignore = TRUE, !.client = "reuses"]}
=============================================================================
