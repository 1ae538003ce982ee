--------------------------- MODULE MCAsyncParser ---------------------------
(* Small instances of AsyncParser for TLC.                                 *)
EXTENDS AsyncParser, TLC

CONSTANTS p, c, s1, s2, q, w1, w2

Setting(m, i, y, x) == [multi |-> m, ignore |-> i, async |-> y, cancels |-> x]

\* One document with the strictest settings, and a stream of documents, both
\* handled synchronously.
Strict == {Setting(FALSE, FALSE, FALSE, TRUE)}
Streaming == {Setting(TRUE, TRUE, FALSE, FALSE)}
\* Every setting, when nobody cancels.  What is behind a document is ignored or not
\* where there is one document only.
Unattended == {o \in OptionRecords : ~o.cancels /\ (o.multi => o.ignore)}

\* Starts and the worker blocks they dispatch are interchangeable.
Interchangeable == Permutations({s1, s2}) \cup Permutations({w1, w2})

\* Either everybody calls a parser with the strictest settings, over one buffer of
\* one document, or with every setting one run parses the buffers of one producer,
\* which are not a byte order mark alone.
StrictOrUnattended == Strict \cup Unattended
Clients ==
    IF option \in Strict
    THEN sent[p]' <= 1 /\ docs' <= 1
    ELSE /\ loc'[c] = "ready" /\ loc'[q] = "ready"
         /\ \E s \in Starters : loc'[s] = "ready"
         /\ \A w \in Workers : phase[w] = "lookahead" /\ input'[w] = "none" => phase'[w] = "lookahead"
=============================================================================
