------------------------------- MODULE Lexer -------------------------------
(***************************************************************************)
(* internal/lexer and DatagramParser.handleDatagram: how a datagram        *)
(* becomes metrics and events.  One Lexer is used for all the lines of all *)
(* datagrams, it works on the bytes of the datagram where they are, and it *)
(* edits the names of the metrics in place.                                *)
(*                                                                         *)
(* A byte is a one-character string.  "x" stands for the other letters and *)
(* digits, "!" for a byte that names may not have, "N" for the text NaN,   *)
(* "H" for the prefix host: of a tag, and "l", "n", "e", "w", "i" for the  *)
(* words of the attributes p and t.  A number is kept as its text.         *)
(* Lengths and dates have one digit, so the 32-bit sums do not wrap and    *)
(* errOverflow is not reached.                                             *)
(***************************************************************************)
EXTENDS Naturals, Sequences, SequencesExt, TLC

CONSTANTS
    Datagrams,      \* sequences of lines
    Events,         \* events that a statsdaemon backend may forward
    Namespace,      \* the configured prefix of names, <<>> if there is none
    Ip,             \* the sender of the datagram
    NoSource,       \* a metric whose host is ignored
    Now,            \* the clock
    None            \* nil

VARIABLES
    lines,          \* the lines of the datagram, as sent
    ignoreHost,     \* the option
    l,              \* the Lexer, with the bytes of the datagram
    rest,           \* offset of the part of the datagram that is still to be split
    busy,           \* a line is being lexed
    outcome         \* per line that is done: a metric, an event or a bad line

vars == <<lines, ignoreHost, l, rest, busy, outcome>>

Eof == ""
Digits == <<"0", "1", "2", "3", "4", "5", "6", "7", "8", "9">>
Letters == {"x", "c", "g", "h", "m", "s", "e", "d", "k", "p", "t", "n", "N", "H", "l", "w", "i"}
One == <<"1">>

\* strconv.Itoa of a number of one digit.
Itoa(n) == <<Digits[n + 1]>>

\* strconv.ParseFloat accepts the text.
IsFloat(text) == text # <<>> /\ (ToSet(text) \subseteq ToSet(Digits) \/ text = <<"N">>)
IsNaN(text) == text = <<"N">>

-----------------------------------------------------------------------------
(* The Lexer: reading. *)

\* l.input[i:j]
Input(i, j) == SubSeq(l.buf, l.base + i + 1, l.base + j)

\* The byte that next() returns, and what it does.
Byte == IF l.pos >= l.len THEN Eof ELSE l.buf[l.base + l.pos + 1]
Read == IF l.pos >= l.len THEN l ELSE [l EXCEPT !.pos = @ + 1]

\* The state functions still to run: the first is the state, the others what it was given
\* as next.
Goto(lx, states) == [lx EXCEPT !.todo = states]
Fail(err) == [l EXCEPT !.err = err, !.todo = <<>>]

\* The position of the first byte from pos on that is one of stops, or the end.
Find(stops) ==
    CHOOSE p \in l.pos .. l.len :
        /\ p = l.len \/ l.buf[l.base + p + 1] \in stops
        /\ \A q \in l.pos .. p - 1 : l.buf[l.base + q + 1] \notin stops

NotDigits == ToSet(l.buf) \ ToSet(Digits)

\* The byte is a numeral: its value.
Value(digit) == (CHOOSE n \in 1 .. 10 : Digits[n] = digit) - 1

-----------------------------------------------------------------------------
(* The state functions. *)

lexSpecial ==
    CASE Byte = "_" -> Goto(Read, <<<<"lexDatadogSpecial">>>>)
      [] Byte = Eof -> Fail("invalid type")
      [] OTHER -> [Goto(l, <<<<"lexKeySep">>>>) EXCEPT
                       !.m = [name |-> <<>>, value |-> <<>>, type |-> None]]

\* One byte of the name.
lexKeySep ==
    CASE Byte = "/" -> [Read EXCEPT !.buf[l.base + l.pos + 1] = "-"]
      [] Byte = " " -> [Read EXCEPT !.buf[l.base + l.pos + 1] = "_"]
      [] Byte = ":" -> Goto(Read, <<<<"lexKey">>>>)
      [] Byte = Eof -> Fail("missing key separator")
      [] Byte \in {".", "-", "_"} \cup Letters \cup ToSet(Digits) -> Read
      [] OTHER ->
            [l EXCEPT !.len = @ - 1,
                      !.buf = [i \in DOMAIN @ |->
                                  IF i > l.base + l.pos /\ i < l.base + l.len
                                  THEN @[i + 1] ELSE @[i]]]

lexKey ==
    IF l.start = l.pos - 1 THEN Fail("key zero len")
    ELSE [Goto(l, <<<<"lexValueSep">>>>) EXCEPT
              !.start = l.pos,
              !.m.name = IF Namespace = <<>> THEN Input(l.start, l.pos - 1)
                         ELSE Namespace \o <<".">> \o Input(l.start, l.pos - 1)]

\* lexValueSep and lexValue
lexValue ==
    LET p == Find({"|"})
    IN  IF p = l.len THEN Fail("missing value separator")
        ELSE [Goto(l, <<<<"lexType">>>>) EXCEPT
                  !.m.value = Input(l.start, p), !.pos = p + 1, !.start = p + 1]

lexType ==
    LET is(type, n) ==
            [Goto(l, <<<<"lexTypeSep">>>>) EXCEPT
                 !.m.type = type, !.pos = l.pos + n, !.start = l.pos + n]
    IN  CASE Byte = "c" -> is("counter", 1)
          [] Byte = "g" -> is("gauge", 1)
          [] Byte = "m" -> IF l.pos + 1 < l.len /\ l.buf[l.base + l.pos + 2] = "s"
                           THEN is("timer", 2) ELSE Fail("invalid type")
          [] Byte = "h" -> is("timer", 1)
          [] Byte = "s" -> is("set", 1)
          [] OTHER -> Fail("invalid type")

lexTypeSep ==
    CASE Byte = Eof -> Goto(l, <<>>)
      [] Byte = "|" -> [Goto(Read, <<<<"lexSampleRateOrTags">>>>) EXCEPT !.start = l.pos + 1]
      [] OTHER -> Fail("invalid type")

\* At the end of the line pos is one past it, as if there were a separator.
lexSampleRateOrTags ==
    CASE Byte = "@" ->
            LET p == CHOOSE p \in l.pos + 1 .. l.len :
                        /\ p = l.len \/ l.buf[l.base + p + 1] = "|"
                        /\ \A q \in l.pos + 1 .. p - 1 : l.buf[l.base + q + 1] # "|"
            IN  [Goto(l, <<<<"lexSampleRate">>>>) EXCEPT !.start = l.pos + 1, !.pos = p + 1]
      [] Byte = "#" -> Goto(Read, <<<<"lexTags">>>>)
      [] OTHER -> Fail("invalid sampling or tags")

lexSampleRate ==
    IF ~IsFloat(Input(l.start, l.pos - 1)) THEN Fail("not a number")
    ELSE Goto([l EXCEPT !.sampling = Input(l.start, l.pos - 1)],
              IF l.pos >= l.len THEN <<>> ELSE <<<<"lexAssert", "#">>, <<"lexTags">>>>)

\* One tag; an empty one is dropped.
lexTags ==
    LET p == Find({","})
        tags == IF p = l.pos THEN l.tags ELSE Append(l.tags, Input(l.pos, p))
    IN  IF p = l.len THEN [Goto(l, <<>>) EXCEPT !.tags = tags, !.pos = p]
        ELSE [l EXCEPT !.tags = tags, !.pos = p + 1]

lexAssert(byte) ==
    IF Byte = byte THEN Goto(Read, Tail(l.todo)) ELSE Fail("invalid format")

lexUint(target) ==
    LET p == Find(NotDigits)
        n == FoldLeft(LAMBDA sum, b : 10 * sum + Value(b), 0, Input(l.pos, p))
        on == [Goto(l, Tail(l.todo)) EXCEPT !.pos = p]
    IN  CASE p = l.pos -> Fail("invalid format")
          [] target = "title" -> [on EXCEPT !.titleLen = n]
          [] target = "text" -> [on EXCEPT !.textLen = n]
          [] target = "date" -> [on EXCEPT !.e.date = n]

lexDatadogSpecial ==
    IF Byte # "e" THEN Fail("invalid type")
    ELSE [Goto(Read, <<<<"lexAssert", "{">>, <<"lexUint", "title">>, <<"lexAssert", ",">>,
                       <<"lexUint", "text">>, <<"lexAssert", "}">>, <<"lexAssert", ":">>,
                       <<"lexEventBody">>>>) EXCEPT
              !.e = [title |-> <<>>, text |-> <<>>, date |-> 0, source |-> <<>>,
                     key |-> <<>>, sourceType |-> <<>>, priority |-> "normal", alert |-> "info"]]

\* bytes.Replace: the two bytes \n become a newline.
Unescape(text) ==
    FoldLeft(LAMBDA acc, b : IF b = "n" /\ acc # <<>> /\ Last(acc) = "\\"
                             THEN Append(Front(acc), "\n") ELSE Append(acc, b),
             <<>>, text)

lexEventBody ==
    LET bar == l.pos + l.titleLen
        end == bar + 1 + l.textLen
    IN  IF l.len < end THEN Fail("not enough data")
        ELSE IF l.buf[l.base + bar + 1] # "|" THEN Fail("invalid format")
        ELSE [Goto(l, <<<<"lexEventAttributes">>>>) EXCEPT
                  !.e.title = Input(l.pos, bar),
                  !.e.text = Unescape(Input(bar + 1, end)),
                  !.pos = end]

lexEventAttributes ==
    CASE Byte = "|" -> Goto(Read, <<<<"lexEventAttribute">>>>)
      [] Byte = Eof -> Goto(l, <<>>)
      [] OTHER -> Fail("invalid attributes")

lexEventAttribute ==
    CASE Byte = "d" -> Goto(Read, <<<<"lexAssert", ":">>, <<"lexUint", "date">>,
                                    <<"lexEventAttributes">>>>)
      [] Byte \in {"h", "k", "p", "s", "t"} ->
            Goto(Read, <<<<"lexAssert", ":">>, <<"lexUntil", Byte>>, <<"lexEventAttributes">>>>)
      [] Byte = "#" -> Goto(Read, <<<<"lexTags">>>>)
      [] Byte = Eof -> Goto(l, <<>>)
      [] OTHER -> Fail("invalid attributes")

Priorities == "n" :> "normal" @@ "l" :> "low"
AlertTypes == "i" :> "info" @@ "e" :> "error" @@ "w" :> "warning" @@ "s" :> "success"

\* The handler of an attribute gets what comes before the next bar.
lexUntil(attribute) ==
    LET p == Find({"|"})
        data == Input(l.pos, p)
        on == [Goto(l, Tail(l.todo)) EXCEPT !.pos = p]
        word(words, set) == IF Len(data) = 1 /\ data[1] \in DOMAIN words
                            THEN set ELSE Fail("invalid attributes")
    IN  CASE attribute = "h" -> [on EXCEPT !.e.source = data]
          [] attribute = "k" -> [on EXCEPT !.e.key = data]
          [] attribute = "s" -> [on EXCEPT !.e.sourceType = data]
          [] attribute = "p" -> word(Priorities, [on EXCEPT !.e.priority = Priorities[data[1]]])
          [] attribute = "t" -> word(AlertTypes, [on EXCEPT !.e.alert = AlertTypes[data[1]]])

StateFn(state) ==
    CASE state[1] = "lexSpecial" -> lexSpecial
      [] state[1] = "lexKeySep" -> lexKeySep
      [] state[1] = "lexKey" -> lexKey
      [] state[1] = "lexValueSep" -> lexValue
      [] state[1] = "lexType" -> lexType
      [] state[1] = "lexTypeSep" -> lexTypeSep
      [] state[1] = "lexSampleRateOrTags" -> lexSampleRateOrTags
      [] state[1] = "lexSampleRate" -> lexSampleRate
      [] state[1] = "lexTags" -> lexTags
      [] state[1] = "lexDatadogSpecial" -> lexDatadogSpecial
      [] state[1] = "lexEventBody" -> lexEventBody
      [] state[1] = "lexEventAttributes" -> lexEventAttributes
      [] state[1] = "lexEventAttribute" -> lexEventAttribute
      [] state[1] = "lexAssert" -> lexAssert(state[2])
      [] state[1] = "lexUint" -> lexUint(state[2])
      [] state[1] = "lexUntil" -> lexUntil(state[2])

-----------------------------------------------------------------------------
(* A datagram. *)

\* Mutant: the tags of the line before are kept.
resetKeepsTags(base, len) ==
    [l EXCEPT !.base = base, !.len = len, !.start = 0, !.pos = 0, !.m = None, !.e = None,
              !.err = "", !.sampling = One, !.todo = <<<<"lexSpecial">>>>]

\* reset, and the start of Run; the lengths of an event title and text are left as they are.
reset(base, len) ==
    [l EXCEPT !.base = base, !.len = len, !.start = 0, !.pos = 0, !.m = None, !.e = None,
              !.tags = <<>>, !.err = "", !.sampling = One, !.todo = <<<<"lexSpecial">>>>]

Init ==
    /\ lines \in Datagrams
    /\ ignoreHost \in BOOLEAN
    /\ l = [buf |-> FlattenSeq([i \in DOMAIN lines |->
                                   IF i = 1 THEN lines[i] ELSE <<"\n">> \o lines[i]]),
            base |-> 0, len |-> 0, start |-> 0, pos |-> 0, titleLen |-> 0, textLen |-> 0,
            m |-> None, e |-> None, tags |-> <<>>, sampling |-> One, err |-> "", todo |-> <<>>]
    /\ rest = 0
    /\ busy = FALSE
    /\ outcome = <<>>

\* The next line of the datagram, which need not end in a newline.
SplitLine ==
    /\ ~busy
    /\ rest < Len(l.buf)
    /\ LET idx == CHOOSE i \in rest .. Len(l.buf) :
                      /\ i = Len(l.buf) \/ l.buf[i + 1] = "\n"
                      /\ \A j \in rest .. i - 1 : l.buf[j + 1] # "\n"
       IN  /\ l' = reset(rest, idx - rest)
           /\ rest' = idx + 1
    /\ busy' = TRUE
    /\ UNCHANGED <<lines, ignoreHost, outcome>>

LexStep ==
    /\ busy
    /\ l.todo # <<>>
    /\ l' = StateFn(Head(l.todo))
    /\ UNCHANGED <<lines, ignoreHost, rest, busy, outcome>>

IsBad ==
    \/ l.err # ""
    \/ l.m # None /\ l.m.type # "set" /\ (~IsFloat(l.m.value) \/ IsNaN(l.m.value))

IsHost(tag) == tag[1] = "H"

\* The metric gets the address of the sender, or its first host tag if hosts are ignored.
Metric ==
    LET at == SelectInSeq(l.tags, IsHost)
        m == [name |-> l.m.name, type |-> l.m.type, value |-> l.m.value, rate |-> l.sampling]
    IN  IF ~ignoreHost THEN m @@ [tags |-> l.tags, source |-> Ip]
        ELSE IF at = 0 THEN m @@ [tags |-> l.tags, source |-> NoSource]
        ELSE m @@ [tags |-> RemoveAt(l.tags, at), source |-> Tail(l.tags[at])]

\* The end of Run, and what handleDatagram does with its result.
EndLine ==
    /\ busy
    /\ l.todo = <<>>
    /\ busy' = FALSE
    /\ outcome' = Append(outcome,
           IF IsBad THEN [bad |-> TRUE]
           ELSE IF l.m # None THEN Metric
           ELSE [l.e EXCEPT !.source = Ip, !.date = IF @ = 0 THEN Now ELSE @]
                @@ [tags |-> l.tags])
    /\ UNCHANGED <<lines, ignoreHost, l, rest>>

Next == SplitLine \/ LexStep \/ EndLine

Spec == Init /\ [][Next]_vars /\ WF_vars(Next)

-----------------------------------------------------------------------------
(* The statsdaemon backend forwards an event as a line. *)

\* An attribute that has its default value is left out.
Attribute(name, text) == IF text = <<>> THEN <<>> ELSE <<"|", name, ":">> \o text

Word(words, of) == <<CHOOSE w \in DOMAIN words : words[w] = of>>

constructEventMessage(e) ==
    LET text == FlattenSeq([i \in DOMAIN e.text |->
                               IF e.text[i] = "\n" THEN <<"\\", "n">> ELSE <<e.text[i]>>])
        tags == FoldLeft(LAMBDA acc, tag : acc \o (IF acc = <<>> THEN <<"|", "#">> ELSE <<",">>)
                                               \o tag, <<>>, e.tags)
    IN  <<"_", "e", "{">> \o Itoa(Len(e.title)) \o <<",">> \o Itoa(Len(text)) \o <<"}", ":">>
        \o e.title \o <<"|">> \o text
        \o Attribute("d", IF e.date = 0 THEN <<>> ELSE Itoa(e.date))
        \o Attribute("h", e.source)
        \o Attribute("k", e.key)
        \o Attribute("s", e.sourceType)
        \o Attribute("p", IF e.priority = "normal" THEN <<>> ELSE Word(Priorities, e.priority))
        \o Attribute("t", IF e.alert = "info" THEN <<>> ELSE Word(AlertTypes, e.alert))
        \o tags

-----------------------------------------------------------------------------
(* Properties. *)

\* The text is split at the first c.
Has(text, c) == c \in ToSet(text)
Before(text, c) == SubSeq(text, 1, SelectInSeq(text \o <<c>>, LAMBDA b : b = c) - 1)
After(text, c) == SubSeq(text, SelectInSeq(text \o <<c>>, LAMBDA b : b = c) + 1, Len(text))

\* What is left of a name: a slash is a dash, a space an underscore.
Cleaned(raw) ==
    LET kept == SelectSeq(raw, LAMBDA b : b # "!")
    IN  [i \in DOMAIN kept |-> IF kept[i] = "/" THEN "-" ELSE IF kept[i] = " " THEN "_"
                               ELSE kept[i]]

Pieces(text) ==
    SelectSeq(FoldLeft(LAMBDA acc, b : IF b = "," THEN Append(acc, <<>>)
                                       ELSE Append(Front(acc), Append(Last(acc), b)),
                       <<<<>>>>, text),
              LAMBDA piece : piece # <<>>)

Types == <<"c">> :> "counter" @@ <<"g">> :> "gauge" @@ <<"h">> :> "timer"
         @@ <<"m", "s">> :> "timer" @@ <<"s">> :> "set"

\* name:value|type, then |@rate, |@rate|, |#tags or |@rate|#tags; anything else is bad.
Reading(line) ==
    LET name == Cleaned(Before(line, ":"))
        body == After(line, ":")
        value == Before(body, "|")
        modifiers == After(body, "|")
        type == Before(modifiers, "|")
        options == After(modifiers, "|")
        rated == options # <<>> /\ options[1] = "@"
        rate == IF rated THEN Before(Tail(options), "|") ELSE One
        tagged == IF rated THEN After(Tail(options), "|") ELSE options
        tags == Pieces(IF tagged = <<>> THEN <<>> ELSE Tail(tagged))
        hosts == {i \in DOMAIN tags : IsHost(tags[i])}
    IN  IF /\ Has(line, ":") /\ Has(body, "|")
           /\ name # <<>>
           /\ type \in DOMAIN Types
           /\ Types[type] = "set" \/ (IsFloat(value) /\ ~IsNaN(value))
           /\ Has(modifiers, "|") => options # <<>>
           /\ IsFloat(rate)
           /\ tagged = <<>> \/ tagged[1] = "#"
        THEN [name |-> IF Namespace = <<>> THEN name ELSE Namespace \o <<".">> \o name,
              value |-> value, type |-> Types[type], rate |-> rate,
              tags |-> IF ignoreHost /\ hosts # {} THEN RemoveAt(tags, Min(hosts)) ELSE tags,
              source |-> IF ~ignoreHost THEN Ip
                         ELSE IF hosts = {} THEN NoSource ELSE Tail(tags[Min(hosts)])]
        ELSE [bad |-> TRUE]

\* Every line of a datagram has an outcome of its own, whatever the lines before it were
\* and however their names were edited in place: a metric is read for what it says and
\* anything else is a bad line, and an event that a statsdaemon backend forwards is read as
\* the event it was made of, but for the host, which is always that of the sender.
LinesReadExactly ==
    /\ \A i \in DOMAIN outcome :
        IF lines[i] # <<>> /\ lines[i][1] = "_"
        THEN \A e \in Events :
                constructEventMessage(e) = lines[i] =>
                    outcome[i] = [e EXCEPT !.source = Ip, !.date = IF @ = 0 THEN Now ELSE @]
        ELSE outcome[i] = Reading(lines[i])
    /\ (~busy /\ rest >= Len(l.buf)) => Len(outcome) = Len(lines)
====
