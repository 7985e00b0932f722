----------------------------- MODULE TagHandler -----------------------------
(***************************************************************************)
(* TagHandler (handler_tags.go) with its filters (filtering.go) and their  *)
(* matches (matcher.go): the series of a MetricMap get the configured tags *)
(* and lose those that a filter drops, and the series that have become the *)
(* same are merged, in the order in which a Go map happens to be walked.   *)
(*                                                                         *)
(* Names and tags are strings that are only compared: what begins with     *)
(* what and what matches which expression is given.  A value is a number,  *)
(* and what a timer or a set has received is a sequence or a set of them.  *)
(***************************************************************************)
EXTENDS Naturals, Sequences, FiniteSets, FiniteSetsExt, SequencesExt, TLC

CONSTANTS
    Maps,           \* the MetricMaps that may arrive: sets of series
    Filters,        \* the lists of filters that may be configured
    StaticTags,     \* the tags to add
    TagOrder,       \* all tags, in the order of strings
    Begins,         \* pairs <<s, prefix>>
    Matching,       \* pairs <<s, expression>>
    NoSource        \* the empty host

VARIABLES
    mm,             \* the map that has arrived
    filters,        \* th.filters
    todo,           \* the series of mm that are still to be walked
    mmNew,          \* the new map: a series per type, name and tagsKey
    sent            \* the new map has been passed on, or was empty

vars == <<mm, filters, todo, mmNew, sent>>

Init ==
    /\ mm \in Maps
    /\ filters \in Filters
    /\ todo = mm
    /\ mmNew = {}
    /\ sent = FALSE

-----------------------------------------------------------------------------
(* matcher.go *)

Match(sm, s) ==
    LET hit == CASE sm.kind = "regex" -> <<s, sm.test>> \in Matching
                 [] sm.kind = "prefix" -> <<s, sm.test>> \in Begins
                 [] sm.kind = "exact" -> s = sm.test
    IN  hit # sm.invert

MatchAny(sml, s) == \E sm \in sml : Match(sm, s)

MatchAnyMultiple(sml, tests) == \E s \in ToSet(tests) : MatchAny(sml, s)

-----------------------------------------------------------------------------
(* Tags *)

\* The loop over t1 overwrites a tag that was seen with the last one and looks at that
\* next; it makes one turn per tag.
uniqueTagsWithSeen(seen, t1, t2) ==
    LET turn(a, ignored) ==
            IF a.tags[a.idx] \in a.seen
            THEN [a EXCEPT !.tags = Front([@ EXCEPT ![a.idx] = Last(a.tags)])]
            ELSE [a EXCEPT !.seen = @ \cup {a.tags[a.idx]}, !.idx = @ + 1]
        done == FoldLeft(turn, [tags |-> t1, seen |-> seen, idx |-> 1], t1)
    IN  done.tags \o SelectSeq(t2, LAMBDA tag : tag \notin done.seen)

uniqueTags(t1, t2) == uniqueTagsWithSeen({}, t1, t2)

\* NewTagHandler removes duplicates of the configured tags.
thTags == uniqueTags(StaticTags, <<>>)

\* The filter's conditions on the name and the tags hold.
Applies(filter, name, tags) ==
    /\ filter.matchMetrics = {} \/ MatchAny(filter.matchMetrics, name)
    /\ ~MatchAny(filter.excludeMetrics, name)
    /\ filter.matchTags = {} \/ MatchAnyMultiple(filter.matchTags, tags)

\* The filters are gone through in order, up to one that drops the metric.
uniqueFilterAndAddTags(s) ==
    LET turn(a, filter) ==
            IF a.drop \/ ~Applies(filter, s.name, s.tags) THEN a
            ELSE IF filter.dropMetric THEN [a EXCEPT !.drop = TRUE]
            ELSE [a EXCEPT !.dropTags = @ \cup {tag \in ToSet(s.tags) :
                                                   MatchAny(filter.dropTags, tag)},
                           !.source = IF filter.dropHost THEN NoSource ELSE @]
        done == FoldLeft(turn, [drop |-> FALSE, dropTags |-> {}, source |-> s.source], filters)
    IN  [drop |-> done.drop, source |-> done.source,
         tags |-> uniqueTagsWithSeen(done.dropTags, s.tags, thTags)]

\* FormatTagsKey sorts the tags where they are.
SortTags(tags) ==
    LET place(tag) == SelectInSeq(TagOrder, LAMBDA t : t = tag)
    IN  SortSeq(tags, LAMBDA a, b : place(a) < place(b))

-----------------------------------------------------------------------------
(* DispatchMetricMap *)

NanoMax(a, b) == IF a > b THEN a ELSE b

\* Mutant: the timestamp of a merged gauge is not compared.
MergeGaugesAlways(new, old) == [new EXCEPT !.value = old.value, !.timestamp = old.timestamp]

MergeCounters(new, old) ==
    [new EXCEPT !.value = @ + old.value, !.timestamp = NanoMax(@, old.timestamp)]

MergeGauges(new, old) ==
    IF old.timestamp > new.timestamp
    THEN [new EXCEPT !.value = old.value, !.timestamp = old.timestamp] ELSE new

MergeTimers(new, old) ==
    [new EXCEPT !.value = @ \o old.value, !.timestamp = NanoMax(@, old.timestamp),
                !.sampled = @ + old.sampled]

MergeSets(new, old) ==
    [new EXCEPT !.value = @ \cup old.value, !.timestamp = NanoMax(@, old.timestamp)]

Merge(new, old) ==
    CASE new.type = "counter" -> MergeCounters(new, old)
      [] new.type = "gauge" -> MergeGauges(new, old)
      [] new.type = "timer" -> MergeTimers(new, old)
      [] new.type = "set" -> MergeSets(new, old)

\* One string: the tags, sorted and joined by commas, and the source behind them like another
\* tag.  A tag that is spelled like a source could stand for it; Maps has none.
FormatTagsKey(source, tags) ==
    IF source = NoSource THEN tags
    ELSE (IF tags = <<>> THEN <<"">> ELSE tags) \o <<"s:" \o source>>

SameSeries(a, b) ==
    /\ a.type = b.type /\ a.name = b.name
    /\ FormatTagsKey(a.source, a.tags) = FormatTagsKey(b.source, b.tags)

\* The function that is given to Each, for one series.
Walk(s) ==
    /\ s \in todo
    /\ todo' = todo \ {s}
    /\ LET r == uniqueFilterAndAddTags(s)
           tagged == [s EXCEPT !.source = r.source, !.tags = SortTags(r.tags)]
           same == {new \in mmNew : SameSeries(new, tagged)}
       IN  mmNew' = IF r.drop THEN mmNew
                    ELSE IF same = {} THEN mmNew \cup {tagged}
                    ELSE (mmNew \ same) \cup {Merge(new, tagged) : new \in same}
    /\ UNCHANGED <<mm, filters, sent>>

\* An empty map is not passed on.
Send ==
    /\ todo = {}
    /\ ~sent
    /\ sent' = TRUE
    /\ UNCHANGED <<mm, filters, todo, mmNew>>

Next == (\E s \in todo : Walk(s)) \/ Send

Spec == Init /\ [][Next]_vars

-----------------------------------------------------------------------------
(* Properties *)

\* What a series should become, filter by filter.
Matched(s) == {filter \in ToSet(filters) : Applies(filter, s.name, s.tags)}
Kept(s) == \A filter \in Matched(s) : ~filter.dropMetric
NewTags(s) ==
    (ToSet(s.tags) \cup ToSet(StaticTags))
    \ {tag \in ToSet(s.tags) : \E filter \in Matched(s) : MatchAny(filter.dropTags, tag)}
NewSource(s) == IF \E filter \in Matched(s) : filter.dropHost THEN NoSource ELSE s.source

\* The series of mm that should have been merged into new.
Sources(new) ==
    {s \in mm : /\ Kept(s) /\ s.type = new.type /\ s.name = new.name
                /\ NewSource(s) = new.source /\ NewTags(s) = ToSet(new.tags)}

Holds(new, sources) ==
    LET Total(F(_)) == MapThenSumSet(F, sources)
        newest == Max({s.timestamp : s \in sources})
    IN  /\ new.timestamp = newest
        /\ new.type = "counter" => new.value = Total(LAMBDA s : s.value)
        /\ new.type = "gauge" => \E s \in sources : s.timestamp = newest /\ new.value = s.value
        /\ new.type = "timer" =>
              /\ new.sampled = Total(LAMBDA s : s.sampled)
              /\ \A v \in UNION {ToSet(s.value) : s \in sources} \cup ToSet(new.value) :
                    Cardinality({i \in DOMAIN new.value : new.value[i] = v})
                        = Total(LAMBDA s : Cardinality({i \in DOMAIN s.value : s.value[i] = v}))
        /\ new.type = "set" => new.value = UNION {s.value : s \in sources}

\* The map that is passed on has one series for each set of series that the filters and the
\* tags have made the same, with everything that those have received, the newest gauge and
\* the newest timestamp, and no tag twice; whatever the order in which the map is walked,
\* and nothing of a series that a filter drops.
TagsExact ==
    sent =>
        /\ \A new \in mmNew :
            /\ Cardinality(ToSet(new.tags)) = Len(new.tags)
            /\ Sources(new) # {} /\ Holds(new, Sources(new))
        /\ \A a, b \in mmNew : SameSeries(a, b) => a = b
        /\ \A s \in mm : Kept(s) => \E new \in mmNew : s \in Sources(new)
====
