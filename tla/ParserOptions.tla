--------------------------- MODULE ParserOptions ---------------------------
(***************************************************************************)
(* How the options of a call become settings of the semantic actions:      *)
(* configureWithOptions: (JPSemanticActionsBase.mm and                     *)
(* JPRepresentationGenerator.mm), the properties' setters, the convenience *)
(* methods of JPJsonParser.mm, and semantic_actions_apply_flags            *)
(* (parse.hpp) with its own flags.                                         *)
(***************************************************************************)
EXTENDS Naturals, FiniteSets

CONSTANTS Requests,       \* sets of options, none with two of one choice
          CppRequests,    \* the same of ParseOptions, not empty
          MaxCalls

VARIABLES class,      \* "generator" (JPRepresentationGenerator), "stream" or "cpp"
          settings,   \* of the semantic actions
          asked,      \* history: the settings the calls asked for
          mixed,      \* history: the settings whose bits the last options share
          calls       \* history: their number

vars == <<class, settings, asked, mixed, calls>>

\* Bits of JPJsonParserOptions: two names for 18, and two for 19.
Bits == [AllowNoncharacter |-> {0}, SignalNoncharacter |-> {1}, SubstituteNoncharacter |-> {0, 1},
         RemoveNoncharacter |-> {2}, AllowNULL |-> {3}, SignalNULL |-> {4}, SubstituteNULL |-> {3, 4},
         RemoveNULL |-> {5}, LogNone |-> {6}, LogError |-> {7}, LogWarning |-> {6, 7}, LogDebug |-> {8},
         IgnoreTrailing |-> {12}, Multiple |-> {13}, MultipleAsync |-> {14}, Comments |-> {15},
         Control |-> {16}, Plus |-> {17}, Zeros |-> {18}, Encoded |-> {19}, CheckDuplicate |-> {18},
         KeepCache |-> {19}, CacheData |-> {20}, Mutable |-> {21}, NumbersAuto |-> {22},
         NumbersDecimal |-> {23}, NumbersStrings |-> {22, 23}, NumbersAllDecimal |-> {24},
         Arena |-> {26}]
BitsOf(names) == UNION {Bits[n] : n \in names}

\* The choices, of which a call names one value at most.
Choices == {{"AllowNoncharacter", "SignalNoncharacter", "SubstituteNoncharacter", "RemoveNoncharacter"},
            {"AllowNULL", "SignalNULL", "SubstituteNULL", "RemoveNULL"},
            {"LogNone", "LogError", "LogWarning", "LogDebug"},
            {"NumbersAuto", "NumbersDecimal", "NumbersStrings", "NumbersAllDecimal"}}
OptionsConstants ==
  \A names \in Requests \cup CppRequests :
    names \subseteq DOMAIN Bits /\ \A choice \in Choices : \A m, n \in names \cap choice : m = n

\* The value that the bits of a choice name; none leaves the setting alone.
Choice(bits, first, values, old) ==
  LET mine == {b - first : b \in bits \cap first..first + 2}
  IN CASE mine = {0} -> values[1] [] mine = {1} -> values[2] [] mine = {0, 1} -> values[3]
       [] mine = {2} -> values[4] [] OTHER -> old

Handling == <<"allow", "signal", "substitute", "remove">>
Levels == <<"none", "error", "warning", "debug">>
Generators == <<"auto", "decimal", "strings", "allDecimal">>

\* LOG_Level: the messages up to a severity are written
Severity == [none |-> 0, error |-> 2, warning |-> 3, debug |-> 8]
Severities == <<0, 2, 3, 8>>

\* The severity as a level again, and never above what the build can write.
LogOption(severity) ==
  CASE severity >= 8 -> "debug" [] severity \in 3..4 -> "warning" [] severity \in 1..2 -> "error" [] OTHER -> "none"
LogLevel(s) == LogOption(IF s.log < s.build.most THEN s.log ELSE s.build.most)

\* one extension only, and two of them are taken for others
Extensions(bits) ==
  IF 15 \in bits \/ 16 \in bits THEN {"comments"} ELSE IF 17 \in bits THEN {"control"}
  ELSE IF 18 \in bits THEN {"zeros"} ELSE {}

BaseConfigured(s, bits) ==
  [s EXCEPT !.ignore = 12 \in bits, !.multiple = 13 \in bits, !.async = 14 \in bits, !.encoded = 19 \in bits,
            !.noncharacter = Choice(bits, 0, Handling, @), !.null = Choice(bits, 3, Handling, @),
            !.log = Choice(bits, 6, Severities, @), !.extensions = Extensions(bits)]

Configured(s, bits) ==
  IF class = "stream" THEN BaseConfigured(s, bits)
  ELSE [BaseConfigured(s, bits) EXCEPT
          !.duplicate = 18 \in bits, !.keep = 19 \in bits, !.cache = 20 \in bits, !.mutable = 21 \in bits,
          !.arena = 26 \in bits, !.numbers = Choice(bits, 22, Generators, @)]

\* The build decides the first level (NDEBUG) and the highest (DEBUG).
Builds == [first : {"error", "debug"}, most : {3, 8}]

Initially(build) ==
  [build |-> build, noncharacter |-> "signal", null |-> "signal", log |-> Severity[build.first], extensions |-> {}, ignore |-> FALSE,
   multiple |-> FALSE, async |-> FALSE, encoded |-> FALSE, duplicate |-> TRUE, keep |-> FALSE,
   cache |-> FALSE, mutable |-> FALSE, arena |-> FALSE, numbers |-> "auto"]

\* semantic_actions_apply_flags: every flag has a bit of its own
Applied(s, flags) ==
  LET Either(signal, substitute, remove) ==
        IF signal \in flags THEN "signal" ELSE IF substitute \in flags THEN "substitute"
        ELSE IF remove \in flags THEN "remove" ELSE "allow"
      extensions == flags \cap {"Comments", "Control", "Plus", "Zeros"}
  IN [s EXCEPT
        !.noncharacter = Either("SignalNoncharacter", "SubstituteNoncharacter", "RemoveNoncharacter"),
        !.null = Either("SignalNULL", "SubstituteNULL", "RemoveNULL"),
        !.log = IF "LogDebug" \in flags THEN 8 ELSE IF "LogWarning" \in flags THEN 3
                ELSE IF "LogError" \in flags THEN 2 ELSE IF "LogNone" \in flags THEN 0 ELSE @,
        !.extensions = {CASE x = "Comments" -> "comments" [] x = "Control" -> "control"
                          [] x = "Plus" -> "plus" [] OTHER -> "zeros" : x \in extensions}]
-----------------------------------------------------------------------------
(* What the options' names promise. *)
Named(names, table, old) ==
  IF names \cap DOMAIN table = {} THEN old ELSE table[CHOOSE n \in names : n \in DOMAIN table]

NamedExtensions(names) ==
  {x \in {"comments", "control", "plus", "zeros"} :
     [comments |-> "Comments", control |-> "Control", plus |-> "Plus", zeros |-> "Zeros"][x] \in names}

Promised(a, names) ==
  [a EXCEPT !.noncharacter = Named(names, [AllowNoncharacter |-> "allow", SignalNoncharacter |-> "signal",
                SubstituteNoncharacter |-> "substitute", RemoveNoncharacter |-> "remove"], @),
            !.null = Named(names, [AllowNULL |-> "allow", SignalNULL |-> "signal",
                SubstituteNULL |-> "substitute", RemoveNULL |-> "remove"], @),
            !.log = Named(names, [LogNone |-> "none", LogError |-> "error", LogWarning |-> "warning",
                LogDebug |-> "debug"], @),
            !.extensions = NamedExtensions(names)]

Asked(a, names) ==
  LET base == [Promised(a, names) EXCEPT
                 !.ignore = "IgnoreTrailing" \in names, !.multiple = "Multiple" \in names,
                 !.async = "MultipleAsync" \in names, !.encoded = "Encoded" \in names]
  IN IF class = "stream" THEN base
     ELSE [base EXCEPT
             !.duplicate = "CheckDuplicate" \in names, !.keep = "KeepCache" \in names,
             !.cache = "CacheData" \in names, !.mutable = "Mutable" \in names, !.arena = "Arena" \in names,
             !.numbers = Named(names, [NumbersAuto |-> "auto", NumbersDecimal |-> "decimal",
                            NumbersStrings |-> "strings", NumbersAllDecimal |-> "allDecimal"], @)]

\* The options that share a bit, and the chain that sets the extensions.
Mixed(names) ==
  (IF "KeepCache" \in names THEN {"encoded"} ELSE {})
  \cup (IF "Encoded" \in names THEN {"keep"} ELSE {})
  \cup (IF "Zeros" \in names THEN {"duplicate"} ELSE {})
  \cup (IF \/ "CheckDuplicate" \in names \/ names \cap {"Control", "Plus"} # {}
           \/ Cardinality(names \cap {"Comments", "Zeros"}) > 1
        THEN {"extensions"} ELSE {})
-----------------------------------------------------------------------------
AskedFirst(build) == [Initially(build) EXCEPT !.log = build.first]

Init == \E build \in Builds :
  /\ class \in {"generator", "stream", "cpp"}
  /\ settings = Initially(build) /\ asked = AskedFirst(build) /\ mixed = {} /\ calls = 0

configureWithOptions == \E names \in Requests :
  /\ class # "cpp" /\ calls < MaxCalls /\ calls' = calls + 1
  /\ settings' = Configured(settings, BitsOf(names))
  /\ asked' = Asked(asked, names) /\ mixed' = Mixed(names)
  /\ UNCHANGED class

\* parseString:options:error:, parseData:options:error: and with an encoding:
\* new actions, and one document
ParseOnce == \E names \in Requests :
  /\ class = "generator" /\ calls < MaxCalls /\ calls' = calls + 1
  /\ settings' = Configured(Initially(settings.build), BitsOf(names) \ Bits.Multiple)
  /\ asked' = Asked(AskedFirst(settings.build), names \ {"Multiple"}) /\ mixed' = Mixed(names)
  /\ UNCHANGED class

\* a setting with a property of its own
Set(field, value, meant) ==
  /\ class # "cpp" /\ calls < MaxCalls /\ calls' = calls + 1
  /\ settings' = [settings EXCEPT ![field] = value] /\ asked' = [asked EXCEPT ![field] = meant]
  /\ mixed' = mixed \ {field}
  /\ UNCHANGED class

SetFlag == \E field \in {"ignore", "multiple", "async", "encoded"}, v \in BOOLEAN : Set(field, v, v)

SetGeneratorFlag == \E field \in {"duplicate", "keep", "cache", "mutable", "arena"}, v \in BOOLEAN :
  class = "generator" /\ Set(field, v, v)

setNumberGeneratorOption == \E i \in 1..4 : class = "generator" /\ Set("numbers", Generators[i], Generators[i])

setLogLevel == \E i \in 1..4 : Set("log", Severity[Levels[i]], Levels[i])

SetHandling == \E field \in {"noncharacter", "null"}, i \in 1..4 : Set(field, Handling[i], Handling[i])

\* flags: the extensions, or'ed one after the other, and asked for one by one
setNonConformanceOptions == \E options \in SUBSET {"comments", "control", "plus", "zeros"} :
  Set("extensions", options, options)

\* parse(first, last, flags, error): new actions
parse == \E flags \in CppRequests :
  /\ class = "cpp" /\ calls < MaxCalls /\ calls' = calls + 1
  /\ settings' = Applied(Initially(settings.build), flags)
  /\ asked' = Promised([AskedFirst(settings.build) EXCEPT !.noncharacter = "allow", !.null = "allow"], flags)
  /\ mixed' = {}
  /\ UNCHANGED class

Next == \/ configureWithOptions \/ ParseOnce \/ SetFlag \/ SetGeneratorFlag \/ setNumberGeneratorOption
        \/ setLogLevel \/ SetHandling \/ setNonConformanceOptions \/ parse

Spec == Init /\ [][Next]_vars
-----------------------------------------------------------------------------
TypeOK ==
  /\ DOMAIN settings = DOMAIN asked /\ mixed \subseteq DOMAIN settings
  /\ {settings.noncharacter, settings.null} \subseteq {Handling[i] : i \in 1..4}
  /\ settings.extensions \subseteq {"comments", "control", "plus", "zeros"}

nonConformanceOptions(s) == s.extensions

Read(field) ==
  CASE field = "log" -> LogLevel(settings) [] field = "extensions" -> nonConformanceOptions(settings)
    [] OTHER -> settings[field]

\* Each setting reads as the calls asked for, and what an option leaves alone
\* keeps what an earlier call gave it, but for the options that share a bit and
\* the extensions, and for a log level above what the build can write.
Configures ==
  \A f \in DOMAIN settings :
    \/ Read(f) = asked[f] \/ f \in mixed
    \/ f = "log" /\ asked.log = "debug" /\ settings.build.most = 3 /\ Read(f) = "warning"
=============================================================================
