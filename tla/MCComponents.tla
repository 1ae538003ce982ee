--------------------------- MODULE MCComponents ----------------------------
(***************************************************************************)
(* The components that do not interact in their states, in one run: part   *)
(* says which of Parts a behaviour is one of; the variables of the others  *)
(* are 0.  Components may use the same variable.                           *)
(***************************************************************************)
EXTENDS Integers, Sequences, FiniteSets

CONSTANTS Parts, d1, d2, unspecified, garbage, k1, k2, nil, NaN, void

Every == {"unicode", "input", "writer", "streambuf", "variant", "generator", "cache", "shared",
          "actions", "options", "path", "expression", "numbers", "decimal", "base64",
          "encodings", "devices", "value", "lru", "logger"}

VARIABLES part,
          text, pc, encoding, stack, refs, class, data_,   \* of several components
          form, option, keeps, state, first, last, limit, pending, chars,
          source, given, requested, buffers, got, buffer, at, base, window, units,
          value, options, sink, result, held, out, lost, refusals, error,
          mode, mem, eback, gptr, egptr, pbase, pptr, epptr, hm, read, fault,
          which, object, tmp, todo, call, before,
          stack_, markers_, tmp_buffer_, result_, error_, open, parts, stale,
          blocks, ptr_, totalAllocatedSize_, bytesUsed_, map_,
          buffer_, size_, client, overwritten, sought,
          front, implemented, frames, step, failed, code, canceled, reports, sent, late,
          settings, asked, mixed, calls,
          storage_, positions_, broken,
          infix, taken, operators, postfix,
          conversion, numeral, number, warned, written, rounds,
          spelling, unpacked, position, verdicts,
          direction, input, place, output, thrown, origin,
          host, tag, bom_, codes, memory, reader, offset, partial, back,
          streams, devices, transfer, answer,
          types, values, meant,
          cache_, running, used, clock, latest, doubled,
          max_severity_, s_thread_id, logged, racers
-----------------------------------------------------------------------------
(* The instances and their inputs. *)

Prefixes(S, n) == UNION {[1..m -> S] : m \in 1..n}

\* UTF-8: every way in which a sequence starts, goes on, is cut short or is overlong
Bytes == UNION {Prefixes(S, 4) : S \in {{65, 194, 128}, {224, 159, 160}, {237, 159, 160}, {240, 143, 144},
                                       {244, 143, 144}}}
         \cup UNION {Prefixes(S, 3) : S \in {{192, 245, 65}, {65, 225, 191}, {241, 128, 65}}}
         \cup UNION {[1..6 -> S] : S \in {{225, 128}, {241, 128}}}
         \cup {<<225, 128, 128, 225, 128, 128, 65>>} \cup {<<c>> \o [i \in 1..6 |-> 128] : c \in {225, 241}}
Words == UNION {Prefixes(S, 3) : S \in {{65, 55296, 56320}, {2047, 2048, 65535}, {56319, 57343, 57344}}}
         \cup [1..6 -> {55296, 56320}] \cup {<<55296, 56320, 55296, 56320, 55296, 56320, 65>>}
         \cup {<<c>> \o [i \in 1..6 |-> 56320] : c \in {55296, 56320}}
Codepoints == Prefixes({65, 55295, 55296, 57344, 1114111, 1114112}, 2)
U == INSTANCE Unicode WITH Texts <- [utf8 |-> Bytes, utf16 |-> Words, utf32 |-> Codepoints], Threshold <- 5
ASSUME UnicodeAssumption == U!UnicodeConstants

ByteOrder == "little"
Boms == [utf8 |-> <<239, 187, 191>>, utf16le |-> <<255, 254>>, utf16be |-> <<254, 255>>,
         utf32le |-> <<255, 254, 0, 0>>, utf32be |-> <<0, 0, 254, 255>>]
Encoded(f, c) == CASE f = "utf8" -> <<c>> [] f = "utf16le" -> <<c, 0>> [] f = "utf16be" -> <<0, c>>
                   [] f = "utf32le" -> <<c, 0, 0, 0>> [] OTHER -> <<0, 0, 0, c>>
WellFormed == {[bytes |-> (IF bom THEN Boms[f] ELSE <<>>) \o Encoded(f, 91) \o Encoded(f, 93),
                form |-> f, skip |-> IF bom THEN Len(Boms[f]) ELSE 0] : f \in DOMAIN Boms, bom \in BOOLEAN}
IllFormed == {[bytes |-> s, form |-> "none", skip |-> 0] :
                s \in {<<>>, <<91>>, <<255, 254>>, <<239, 187, 91>>, <<255, 254, 0, 91>>, <<200, 91>>,
                       <<0, 0, 91, 93>>, <<91, 0, 0, 91>>, <<0, 0, 0, 0, 0, 91>>, <<0, 0, 0, 0, 200>>, <<91, 200>>}}
I == INSTANCE InputStream WITH Texts <- WellFormed \cup IllFormed

Str(s, storage, rank) == [kind |-> "string", units |-> s, storage |-> storage, rank |-> rank]
Arr(items) == [kind |-> "array", items |-> items]
Obj(members) == [kind |-> "object", members |-> members]
Mem(key, v) == [key |-> key, value |-> v]
Chr(n) == [kind |-> "char", number |-> n]
Nul == [kind |-> "null"]
Objects == {[kind |-> "nil"], [kind |-> "other"], Arr(<<>>), Obj(<<>>),
            Arr(<<Arr(<<Chr(1), Nul, Chr(2)>>), Obj(<<>>), Arr(<<>>)>>),
            Obj(<<Mem(Str(<<"b">>, "utf8", 2), Arr(<<Chr(0)>>)), Mem(Str(<<"a", "quote">>, "utf16", 1), Nul)>>),
            Arr(<<Str(<<"solidus", "tab", "lead", "trail">>, "utf16", 0), Str(<<"a", "lead", "trail">>, "other", 0)>>),
            Arr(<<Str(<<"a", "backslash", "lead", "trail", "b">>, "other", 0)>>),
            Arr(<<Obj(<<Mem(Str(<<>>, "other", 1), Str(<<"control">>, "utf8", 0))>>)>>)}
W == INSTANCE JsonWriter WITH Values <- Objects, BufferSize <- 2, WriteBufferSize <- 2, MaxRefusals <- 2

D == INSTANCE DataStreambuf WITH Chars <- {1, 2}, MaxLength <- 3, First <- 2
ASSUME StreambufAssumption == D!StreambufConstants

V == INSTANCE Variant WITH Vars <- {"a", "b"}, Data <- {d1, d2}, Throwing <- {"string", "array"},
                           Unspecified <- unspecified, Garbage <- garbage
ASSUME VariantAssumption == V!VariantConstants

G == INSTANCE ValueGenerator WITH Keys <- {k1, k2}, Chunks <- {<<1, 2>>}, MaxDepth <- 2, MaxElements <- 2,
                                  MaxChunks <- 2, Behind <- 0

\* the empty key, one that fits a block with others, one that needs a block, one that is too large for one
CacheKeys == {"a", "b", "c", "d"}
Lengths == [k \in CacheKeys |-> CASE k = "a" -> 0 [] k = "b" -> 1 [] k = "c" -> 2 [] k = "d" -> 3]
C == INSTANCE StringCache WITH Keys <- CacheKeys, Length <- Lengths, CharSize <- 2, MaxAlign <- 4,
                               BlockHeader <- 4, MinBlockSize <- 8, Granule <- 8, MaxBlocks <- 3, MaxStack <- 2
ASSUME StringCacheAssumption == C!CacheConstants

S == INSTANCE SharedBuffer WITH Datas <- {"empty", "full"}, Size <- [empty |-> 0, full |-> 2],
                                Buffers <- {1, 2}
ASSUME SharedBuffersAssumption == S!SharedConstants

A == INSTANCE StreamActions WITH
  Implementations <- {{}, {"value end", "pair end"}, {"array begin", "object end", "value"},
                      {"array begin", "array end", "object begin", "object end", "value", "value begin",
                       "value end", "pair begin", "pair end"}},
  MaxElements <- 2, MaxDepth <- 2
ASSUME ActionsAssumption == A!ActionsConstants

Pairs(names) == {{m, n} : m, n \in names}
Exclusive == {"SignalNoncharacter", "SubstituteNoncharacter", "RemoveNoncharacter", "SignalNULL",
              "SubstituteNULL", "RemoveNULL", "LogNone", "LogError", "LogWarning", "LogDebug"}
Extensions == {"Comments", "Control", "Plus", "Zeros"}
OptionNames == {"AllowNoncharacter", "SignalNoncharacter", "SubstituteNoncharacter", "RemoveNoncharacter",
                "AllowNULL", "SignalNULL", "SubstituteNULL", "RemoveNULL", "LogNone", "LogError", "LogWarning",
                "LogDebug", "IgnoreTrailing", "Multiple", "MultipleAsync", "Comments", "Control", "Plus",
                "Zeros", "Encoded", "CheckDuplicate", "KeepCache", "CacheData", "Mutable", "NumbersAuto",
                "NumbersDecimal", "NumbersStrings", "NumbersAllDecimal", "Arena"}
O == INSTANCE ParserOptions WITH
  Requests <- {{}} \cup {{n} : n \in OptionNames}
              \cup Pairs({"Comments", "Control", "Zeros", "CheckDuplicate", "Encoded", "KeepCache", "SubstituteNULL"}),
  CppRequests <- {{n} : n \in Exclusive} \cup (SUBSET Extensions \ {{}}), MaxCalls <- 2
ASSUME OptionsAssumption == O!OptionsConstants

P == INSTANCE JsonPath WITH Keys <- {<<>>, <<"a">>, <<"b", "a">>, <<"a", "a", "b">>}, Indices <- {0, 1},
                            MaxLevel <- 3, CellChars <- 2
ASSUME PathAssumption == P!PathConstants

\* every sequence of four tokens, and longer ones
E == INSTANCE PathExpression WITH
  Symbols <- {"a", "b"},
  Expressions <- Prefixes({"a", "*", "+", "|", "(", ")"}, 4)
                 \cup {<<"a", x, "b", y, "a", z, "b">> : x, y, z \in {"+", "|"}}
                 \cup {<<"(", "a", x, "(", "b", y, "a", ")", "*", ")", "*", z, "b", "*">> : x, y, z \in {"+", "|"}}

\* a numeral with that many leading zeros
Numeral(sign, m, zeros, exp, scientific) ==
  [sign |-> sign, m |-> m, base |-> 10, exp |-> exp, scientific |-> scientific,
   digits |-> zeros + CHOOSE d \in 1..6 : m < 10^d /\ (d > 1 => m >= 10^(d - 1))]
\* about the powers of two and ten at which the types and their digits end
Small == {0, 1, 5, 9, 10, 12, 15, 16, 31, 99, 100, 127, 128, 129, 255, 256, 999, 1000, 1023, 1024, 2047, 2048,
          4097, 7777, 9999}
Large == {10001, 12345, 20480, 99999}
Integral == {Numeral(s, m, 0, 0, FALSE) : s \in {1, -1}, m \in Small \cup {10001, 12345, 100001, 123456}}
Fixed == {Numeral(1, m, IF m < 10 THEN 1 ELSE 0, -1, FALSE) : m \in Small}
         \cup {Numeral(1, m, CASE m < 10 -> 2 [] m \in 10..99 -> 1 [] OTHER -> 0, -2, FALSE) : m \in Small \cup Large}
Exponent == {Numeral(1, m, 0, 0, TRUE) : m \in Small} \cup {Numeral(-1, m, 0, -2, TRUE) : m \in Small}
            \cup {Numeral(1, m, 0, 1, TRUE) : m \in Small \cap 0..999} \cup {Numeral(1, m, 0, -2, TRUE) : m \in Large}
Num(type, sign, m, exp) == [type |-> type, sign |-> sign, m |-> m, base |-> 2, exp |-> exp]
NSNumbers == {Num("d", 1, m, e) : m \in 128..255, e \in -12..3} \cup {Num("f", 1, m, e) : m \in 8..15, e \in -9..3}
             \cup {Num("I", 1, 31, 0), Num("Q", 1, 4095, 0), Num("i", -1, 16, 0), Num("c", 1, 0, 0),
                   Num("c", 1, 1, 0), Num("c", 1, 7, 0), [type |-> "nan"], [type |-> "inf"]}
N == INSTANCE Numbers WITH
  Numerals <- Integral \cup Fixed \cup Exponent, Given <- NSNumbers, IntBits <- 5, LongBits <- 8,
  LongLongBits <- 11, DoubleBits <- 8, LongDoubleBits <- 11, DecimalDigits <- 5, MaxRounds <- 2

\* the texts of up to four characters, and longer ones
Spellings == {<<>>} \cup Prefixes({"0", "-", "+", ".", "e"}, 4)
             \cup {<<"0", "x">>, <<"7", "E", "1">>, <<"0", ".", "0", "e", "1">>, <<"0", ".", "0", "1", "e">>,
                   <<"-", "0", ".", "1", "E", "-", "1">>, <<"1", "e", "+", "1", "1">>,
                   <<"1", "e", "+", "e", "1">>, <<"0", ".", "0", "1", "1">>}
T == INSTANCE DecimalNumber WITH Texts <- Spellings, Capacity <- 4, Uninitialized <- garbage

B == INSTANCE Base64 WITH
  ByteTexts <- {<<>>} \cup Prefixes({0, 129, 255}, 4),
  Base64Texts <- {<<>>} \cup Prefixes({0, 18, 64, 65}, 4)
                 \cup {<<0, 1, 62, 63>> \o s : s \in [1..4 -> {63, 64, 65}]}
ASSUME Base64Assumption == B!Base64Constants

\* about the ends of the lengths that UTF-8 and UTF-16 have for a character
F == INSTANCE Encodings WITH
  CodePointsOf <- {65, 127, 128, 2047, 2048, 55296, 65279, 65536, 1114111, 1114112}, MaxCodes <- 2

X == INSTANCE StreamDevices WITH Streams <- {1, 2}, Devices <- {1, 2}, Total <- 2, MaxSize <- 2, MaxUses <- 2
ASSUME DevicesAssumption == X!DeviceConstants

\* the default policies, and some of a client's
Policy(for, type) == [tag |-> for, type |-> type]
Arg(type, data) == [type |-> type, data |-> data]
J == INSTANCE JsonValue WITH
  Vars <- {1, 2},
  PolicyLists <- {<<>>, <<Policy("object", "unordered_map"), Policy("integral_number", "integral_number<int>"),
                          Policy("integral_number", "integral_number<long>")>>},
  Arguments <- {Arg("unsigned", 1), Arg("double", NaN), Arg("double", 2), Arg("bool", TRUE),
                Arg("char", 1), Arg("chars", <<d1>>), Arg("Null", void)},
  Elements <- {Arg("unsigned", 7)},
  Bits <- [short |-> 1, int |-> 2, long |-> 3, unsigned |-> 3], Keys <- {"k"}, Unspecified <- unspecified
ASSUME JsonAssumption == J!JsonConstants
ASSUME TypeListsAssumption == J!StaticAsserts /\ J!MeansOn({"A", "B", "C"}, 4) /\ J!OrdersOn({-1, 0, 1}, 4)

L == INSTANCE LruCache WITH Keys <- {1, 2, 3}, Values <- {1, 2}, capacity_ <- 2, MaxDepth <- 2, MaxUses <- 4
ASSUME CacheAssumption == L!CacheConstants

H == INSTANCE Logger WITH Threads <- {1, 2}, MaxSeverity <- 3, Levels <- {0, 3, 8}, MaxMessages <- 3
ASSUME LoggerAssumption == H!LoggerConstants
-----------------------------------------------------------------------------
UnicodeVars == <<form, option, keeps, state, first, last, limit, pending, chars>>
InputVars == <<source, given, requested, buffers, buffer, at, base, window, units>>
WriterVars == <<value, options, sink, result, held, lost, refusals, error>>
StreambufVars == <<mode, mem, eback, gptr, egptr, pbase, pptr, epptr, hm, read, fault>>
VariantVars == <<which, object, tmp, todo, call, before>>
GeneratorVars == <<stack_, markers_, tmp_buffer_, result_, error_, open, parts, stale>>
CacheVars == <<blocks, ptr_, totalAllocatedSize_, bytesUsed_, map_>>
SharedVars == <<buffer_, size_, client, overwritten, sought>>
ActionsVars == <<front, implemented, frames, failed, code, canceled, reports, sent, late>>
OptionsVars == <<settings, asked, mixed, calls>>
PathVars == <<storage_, positions_, broken>>
ExpressionVars == <<infix, taken, operators, postfix>>
NumberVars == <<conversion, numeral, number, warned, written, rounds>>
DecimalVars == <<spelling, unpacked, position, verdicts>>
Base64Vars == <<direction, input, place, output, thrown, origin>>
EncodingsVars == <<host, tag, bom_, codes, memory, reader, offset, partial, back>>
DeviceVars == <<streams, devices, transfer>>
ValueVars == <<types, values, meant>>
LruVars == <<cache_, running, used, clock, latest, doubled>>
LoggerVars == <<max_severity_, s_thread_id, logged, racers>>
vars == <<part, text, pc, encoding, stack, refs, class, data_, got, out, step, answer, UnicodeVars, InputVars, WriterVars, StreambufVars,
          VariantVars, GeneratorVars, CacheVars, SharedVars, ActionsVars, OptionsVars, PathVars,
          ExpressionVars, NumberVars, DecimalVars, Base64Vars, EncodingsVars, DeviceVars, ValueVars, LruVars,
          LoggerVars>>

\* the parts that use a variable of several
Text == {"unicode", "input"}
Pc == {"unicode", "input", "writer", "generator", "numbers", "decimal"}
Encoding == {"input", "writer"}
Stack == {"writer", "cache"}
Refs == {"cache", "shared"}
Class == {"streambuf", "options", "devices"}
Data == {"shared", "decimal"}
Got == {"input", "lru"}
Out == {"writer", "logger"}
Step == {"actions", "logger"}
Answer == {"devices", "value"}

Init ==
  /\ part \in Parts
  /\ part \notin Text => text = 0
  /\ part \notin Pc => pc = 0
  /\ part \notin Encoding => encoding = 0
  /\ part \notin Stack => stack = 0
  /\ part \notin Refs => refs = 0
  /\ part \notin Class => class = 0
  /\ part \notin Data => data_ = 0
  /\ part \notin Got => got = 0
  /\ part \notin Out => out = 0
  /\ part \notin Step => step = 0
  /\ part \notin Answer => answer = 0
  /\ part # "unicode" => /\ form = 0 /\ option = 0 /\ keeps = 0 /\ state = 0 /\ first = 0 /\ last = 0
                         /\ limit = 0 /\ pending = 0 /\ chars = 0
  /\ part # "input" => /\ source = 0 /\ given = 0 /\ requested = 0 /\ buffers = 0 /\ buffer = 0
                       /\ at = 0 /\ base = 0 /\ window = 0 /\ units = 0
  /\ part # "writer" => /\ value = 0 /\ options = 0 /\ sink = 0 /\ result = 0 /\ held = 0
                        /\ lost = 0 /\ refusals = 0 /\ error = 0
  /\ part # "streambuf" => /\ mode = 0 /\ mem = 0 /\ eback = 0 /\ gptr = 0 /\ egptr = 0 /\ pbase = 0
                           /\ pptr = 0 /\ epptr = 0 /\ hm = 0 /\ read = 0 /\ fault = 0
  /\ part # "variant" => which = 0 /\ object = 0 /\ tmp = 0 /\ todo = 0 /\ call = 0 /\ before = 0
  /\ part # "generator" => /\ stack_ = 0 /\ markers_ = 0 /\ tmp_buffer_ = 0 /\ result_ = 0 /\ error_ = 0
                           /\ open = 0 /\ parts = 0 /\ stale = 0
  /\ part # "cache" => blocks = 0 /\ ptr_ = 0 /\ totalAllocatedSize_ = 0 /\ bytesUsed_ = 0 /\ map_ = 0
  /\ part # "shared" => buffer_ = 0 /\ size_ = 0 /\ client = 0 /\ overwritten = 0 /\ sought = 0
  /\ part # "actions" => /\ front = 0 /\ implemented = 0 /\ frames = 0 /\ failed = 0 /\ code = 0
                         /\ canceled = 0 /\ reports = 0 /\ sent = 0 /\ late = 0
  /\ part # "options" => settings = 0 /\ asked = 0 /\ mixed = 0 /\ calls = 0
  /\ part # "path" => storage_ = 0 /\ positions_ = 0 /\ broken = 0
  /\ part # "expression" => infix = 0 /\ taken = 0 /\ operators = 0 /\ postfix = 0
  /\ part # "numbers" => /\ conversion = 0 /\ numeral = 0 /\ number = 0 /\ warned = 0 /\ written = 0
                         /\ rounds = 0
  /\ part # "decimal" => spelling = 0 /\ unpacked = 0 /\ position = 0 /\ verdicts = 0
  /\ part # "base64" => direction = 0 /\ input = 0 /\ place = 0 /\ output = 0 /\ thrown = 0 /\ origin = 0
  /\ part # "encodings" => /\ host = 0 /\ tag = 0 /\ bom_ = 0 /\ codes = 0 /\ memory = 0 /\ reader = 0
                           /\ offset = 0 /\ partial = 0 /\ back = 0
  /\ part # "devices" => streams = 0 /\ devices = 0 /\ transfer = 0
  /\ part # "value" => types = 0 /\ values = 0 /\ meant = 0
  /\ part # "lru" => cache_ = 0 /\ running = 0 /\ used = 0 /\ clock = 0 /\ latest = 0 /\ doubled = 0
  /\ part # "logger" => max_severity_ = 0 /\ s_thread_id = 0 /\ logged = 0 /\ racers = 0
  /\ \/ part = "unicode" /\ U!Init
     \/ part = "input" /\ I!Init
     \/ part = "writer" /\ W!Init
     \/ part = "streambuf" /\ D!Init
     \/ part = "variant" /\ V!Init
     \/ part = "generator" /\ G!Init
     \/ part = "cache" /\ C!Init
     \/ part = "shared" /\ S!Init
     \/ part = "actions" /\ A!Init
     \/ part = "options" /\ O!Init
     \/ part = "path" /\ P!Init
     \/ part = "expression" /\ E!Init
     \/ part = "numbers" /\ N!Init
     \/ part = "decimal" /\ T!Init
     \/ part = "base64" /\ B!Init
     \/ part = "encodings" /\ F!Init
     \/ part = "devices" /\ X!Init
     \/ part = "value" /\ J!Init
     \/ part = "lru" /\ L!Init
     \/ part = "logger" /\ H!Init

Next ==
  /\ UNCHANGED part
  /\ part \notin Text => UNCHANGED text
  /\ part \notin Pc => UNCHANGED pc
  /\ part \notin Encoding => UNCHANGED encoding
  /\ part \notin Stack => UNCHANGED stack
  /\ part \notin Refs => UNCHANGED refs
  /\ part \notin Class => UNCHANGED class
  /\ part \notin Data => UNCHANGED data_
  /\ part \notin Got => UNCHANGED got
  /\ part \notin Out => UNCHANGED out
  /\ part \notin Step => UNCHANGED step
  /\ part \notin Answer => UNCHANGED answer
  /\ part # "unicode" => UNCHANGED UnicodeVars
  /\ part # "input" => UNCHANGED InputVars
  /\ part # "writer" => UNCHANGED WriterVars
  /\ part # "streambuf" => UNCHANGED StreambufVars
  /\ part # "variant" => UNCHANGED VariantVars
  /\ part # "generator" => UNCHANGED GeneratorVars
  /\ part # "cache" => UNCHANGED CacheVars
  /\ part # "shared" => UNCHANGED SharedVars
  /\ part # "actions" => UNCHANGED ActionsVars
  /\ part # "options" => UNCHANGED OptionsVars
  /\ part # "path" => UNCHANGED PathVars
  /\ part # "expression" => UNCHANGED ExpressionVars
  /\ part # "numbers" => UNCHANGED NumberVars
  /\ part # "decimal" => UNCHANGED DecimalVars
  /\ part # "base64" => UNCHANGED Base64Vars
  /\ part # "encodings" => UNCHANGED EncodingsVars
  /\ part # "devices" => UNCHANGED DeviceVars
  /\ part # "value" => UNCHANGED ValueVars
  /\ part # "lru" => UNCHANGED LruVars
  /\ part # "logger" => UNCHANGED LoggerVars
  /\ \/ part = "unicode" /\ U!Next
     \/ part = "input" /\ I!Next
     \/ part = "writer" /\ W!Next
     \/ part = "streambuf" /\ D!Next
     \/ part = "variant" /\ V!Next
     \/ part = "generator" /\ G!Next
     \/ part = "cache" /\ C!Next
     \/ part = "shared" /\ S!Next
     \/ part = "actions" /\ A!Next
     \/ part = "options" /\ O!Next
     \/ part = "path" /\ P!Next
     \/ part = "expression" /\ E!Next
     \/ part = "numbers" /\ N!Next
     \/ part = "decimal" /\ T!Next
     \/ part = "base64" /\ B!Next
     \/ part = "encodings" /\ F!Next
     \/ part = "devices" /\ X!Next
     \/ part = "value" /\ J!Next
     \/ part = "lru" /\ L!Next
     \/ part = "logger" /\ H!Next

Spec == Init /\ [][Next]_vars
-----------------------------------------------------------------------------
\* The components' types.
TypeOK ==
  CASE part = "unicode" -> U!TypeOK [] part = "input" -> I!TypeOK [] part = "writer" -> W!TypeOK
    [] part = "streambuf" -> D!TypeOK [] part = "variant" -> V!TypeOK [] part = "generator" -> G!TypeOK
    [] part = "cache" -> C!TypeOK [] part = "shared" -> S!TypeOK [] part = "actions" -> A!TypeOK
    [] part = "options" -> O!TypeOK [] part = "path" -> P!TypeOK [] part = "expression" -> E!TypeOK
    [] part = "numbers" -> N!TypeOK [] part = "decimal" -> T!TypeOK [] part = "base64" -> B!TypeOK
    [] part = "encodings" -> F!TypeOK [] part = "devices" -> X!TypeOK
    [] part = "value" -> J!TypeOK [] part = "lru" -> L!TypeOK [] part = "logger" -> H!TypeOK

\* The converters (unicode_converter.hpp, convert) deliver the characters of the
\* text as the Unicode Standard cuts it, each ill-formed part replaced once,
\* wherever its chunks are divided, and write each of them in the target's form;
\* the postfix form of a path's expression has the meaning of its infix form; what
\* decimal_number packs and encodeBase64 encodes comes out again, and the checks
\* of a number text and of a base64 text take what their grammars do; and in memory
\* the code units lie as the Unicode Standard serializes them, on every host, and
\* are read as they were written.
Decodes == /\ part = "unicode" => U!Decodes /\ U!Transcodes
           /\ part = "expression" => E!Converts
           /\ part = "decimal" => T!Unpacks /\ T!Validates
           /\ part = "base64" => B!Recodes
           /\ part = "encodings" => F!Serializes

\* convert reads inside its range and NSDataStreambuf stays inside its memory,
\* with the exceptions the definitions name.
InBounds == /\ part = "unicode" => U!StaysInRange
            /\ part = "streambuf" => D!InMemory

\* Detection and the queue's streambuf give the parser the code units of the
\* text behind its byte order mark, however it is divided into buffers, and
\* refuse a well-formed text for its division only; and a device over an NSInputStream
\* tells its reader of the end at the end of the stream.
ReadsText == /\ part = "input" => I!ReadsText /\ I!RefusesOnly
             /\ part = "devices" => X!EndsWhereItEnds

\* JPJsonWriter's success means that the text it wrote is the value's; a number in
\* it reads as the number or the double that was to be written, and when it is
\* read and written again is still the same, or the generator has warned of it.
WritesValue == /\ part = "writer" => W!WritesValue
               /\ part = "numbers" => N!Rereads

\* JPJsonWriter reports what it lost, except for the kinds of writes whose
\* refusal the code does not look at or forgets, and the devices over Foundation's
\* streams count what passes through them.
ReportsLosses == /\ part = "writer" => W!ReportsLosses
                 /\ part = "devices" => X!Counts

\* Every operation of the stream buffers over growing memory is an operation of
\* the abstract stream, until one finds its memory too small, and every
\* operation of the flattened json_path one of the path's components.
Refines == [][/\ part = "streambuf" /\ fault' = "none" => D!Stream!Next
              /\ part = "path" /\ broken' = "none" => P!Path!Next]_vars

\* value_generator's stack and markers are the open containers of the text, and
\* its result is the value of the text; a number of the text is held exactly, or as
\* a double of which it can be told, or with a warning, with the exceptions
\* the definition names.
BuildsValue == /\ part = "generator" => G!BuildsValue
               /\ part = "numbers" => N!Holds

\* Between two calls each variant, and so each json::value, holds an object of
\* the type it names, the one it was to be given, but for two calls; and a
\* json::value says what it holds, whatever its policies.  lru_cache has the values
\* of the keys last used.  The string
\* cache has the characters of its keys intact in its arena and a reference to
\* each CFString, and each CFData lives exactly as long as a buffer or a client
\* holds it, but for those that an assignment dropped, which live at least as long.
KeepsWhatIsHeld == /\ part = "variant" => V!HoldsObject
                   /\ part = "value" => J!SaysWhatItHolds
                   /\ part = "lru" => L!CachesRecent
                   /\ part = "cache" => C!KeysIntact
                   /\ part = "shared" => S!Shares

\* The delegate of the stream actions hears of the run what happened in it, and
\* at most once of anything behind an error or a cancel; the settings of the
\* semantic actions are those their options ask for; and what a thread logs are
\* whole lines, in their order.
ActsAsAsked == /\ part = "actions" => A!Notifies
               /\ part = "options" => O!Configures
               /\ part = "logger" => H!WritesLines

\* A CFData that passed through the queue is freed when nobody holds it any more.
FreesBuffers == part = "shared" => S!Frees

\* The keys of the objects that JPJsonWriter writes are sorted when it is asked to.
SortsKeys == part = "writer" => W!SortsKeys
=============================================================================
