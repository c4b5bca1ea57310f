------------------------------ MODULE Evaluation ------------------------------
(* The evaluation scripts eval_ner.py, eval_sentiment.py, eval_latency.py   *)
(* and eval_throughput.py.  Each is a loop over its input that keeps        *)
(* tallies, and a report made from them.  Ratios of tallies (precision,     *)
(* recall, F1, means, posts per second) are left out.                       *)
EXTENDS Counting, SequencesExt

CONSTANTS
    Corpora,    \* splits of factRuEval: sequences of documents [lines, objects, found]
    Malformed,  \* a line that is passed over
    TypeMap,    \* of some of the corpus's types, the type the NER knows
    NatashaType,\* of some of the tagger's types, the type the NER knows
    Datasets,   \* labelled texts: sequences of [pos, neg, label]
    LabelMap,   \* of some of the dataset's labels, the class they stand for
    Builtin,    \* the built-in examples, used when a dataset gives none
    Limits,     \* values of --limit, 0 for none
    Timings,    \* what an endpoint did: sequences of times, or Error
    Error,
    Loads,      \* how many posts a benchmark publishes and how the counts of the
                \* three stages grow, tick by tick: records [count, grown]
    Timeout     \* --timeout, in polls

ASSUME CorporaAssumption ==
    /\ IsFiniteSet(DOMAIN TypeMap)
    /\ \A docs \in Corpora :
          /\ docs \in Seq(ToSet(docs))
          /\ \A d \in ToSet(docs) : IsFiniteSet(ToSet(d.objects)) /\ IsFiniteSet(d.found)

ASSUME DatasetsAssumption ==
    /\ Range(LabelMap) \subseteq {"positive", "negative", "neutral"}
    /\ \A rows \in Datasets \cup {Builtin} : rows \in Seq(ToSet(rows))
    /\ \A x \in ToSet(Builtin) : x.label \in DOMAIN LabelMap
    /\ Limits \subseteq Nat

ASSUME TimingsAssumption == Error \notin Nat /\ Timings \subseteq Seq(Nat \cup {Error})

ASSUME LoadsAssumption == Timeout \in Nat

VARIABLES
    script,     \* the script that runs
    input,      \* what it loaded
    at,         \* its position in the input
    tally       \* what it has counted

evalVars == <<script, input, at, tally>>

Classes == {"positive", "negative", "neutral"}
Types == Range(TypeMap)

Idle == script = "none" /\ input = <<>> /\ at = 1 /\ tally = <<>>

-----------------------------------------------------------------------------
(* eval_ner: exact spans of a type, over all documents of a split.          *)

\* mutated: the document is left out of a span's identity.
AnywhereOf(i, objects) == {[doc |-> 0, type |-> o.type, span |-> o.span] : o \in objects}

InDocument(i, objects) == {[doc |-> i, type |-> o.type, span |-> o.span] : o \in objects}

\* A span file gives starts and lengths; of two lines with an id the last counts.
Spans(d) ==
    FoldLeft(LAMBDA out, x : (x.id :> <<x.start, x.start + x.length>>) @@ out,
             <<>>, SelectSeq(d.lines, LAMBDA x : x # Malformed))

\* An object covers its known spans; without any, or with a type that is not
\* evaluated, it is skipped.
Known(o, d) == ToSet(o.ids) \cap DOMAIN Spans(d)
Objects(d) ==
    {[type |-> TypeMap[o.type],
      span |-> <<Min({Spans(d)[s][1] : s \in Known(o, d)}), Max({Spans(d)[s][2] : s \in Known(o, d)})>>] :
        o \in {x \in ToSet(d.objects) : x.type \in DOMAIN TypeMap /\ Known(x, d) # {}}}

\* NerService.extract: what the tagger found, without the types it does not know.
Extract(d) ==
    {[type |-> NatashaType[x.type], span |-> x.span] : x \in {y \in d.found : y.type \in DOMAIN NatashaType}}

NerInit ==
    /\ script = "ner" /\ input \in Corpora /\ at = 1
    /\ tally = [gold |-> {}, pred |-> {}]

NerDocument ==
    /\ script = "ner" /\ at <= Len(input)
    /\ tally' = [gold |-> tally.gold \cup InDocument(at, Objects(input[at])),
                 pred |-> tally.pred \cup InDocument(at, Extract(input[at]))]
    /\ at' = at + 1
    /\ UNCHANGED <<script, input>>

OfType(s, t) == {x \in s : x.type = t}
Score(t) ==
    LET g == OfType(tally.gold, t)
        p == OfType(tally.pred, t)
    IN  [tp |-> Cardinality(g \cap p), fp |-> Cardinality(p \ g), fn |-> Cardinality(g \ p)]
Micro(field) == Total([t \in Types |-> Score(t)[field]])

-----------------------------------------------------------------------------
(* eval_sentiment: classes by the lexicon against the labels.               *)

\* LexiconSentimentService.predict: a text stands for the words it has of
\* either lexicon; the confidence is left out.
Predict(row) ==
    IF row.pos = row.neg THEN "neutral"
    ELSE IF row.pos > row.neg THEN "positive" ELSE "negative"

\* The rows with a text and a known label.
Labelled(rows) == Kept(rows, {k \in DOMAIN rows : rows[k].label \in DOMAIN LabelMap})

\* These, or the built-in ones, as many as the limit.
Samples(rows, limit) ==
    LET loaded == IF Labelled(rows) = <<>> THEN Builtin ELSE Labelled(rows)
    IN  IF limit = 0 THEN loaded ELSE SubSeq(loaded, 1, Min({limit, Len(loaded)}))

Zero == [c \in Classes |-> 0]

SentimentInit ==
    /\ script = "sentiment" /\ at = 1
    /\ \E rows \in Datasets, limit \in Limits : input = Samples(rows, limit)
    /\ tally = [tp |-> Zero, fp |-> Zero, fn |-> Zero, support |-> Zero,
                confusion |-> [p \in Classes \X Classes |-> 0]]

SentimentSample ==
    /\ script = "sentiment" /\ at <= Len(input)
    /\ LET gold == LabelMap[input[at].label]
           pred == Predict(input[at])
           counted == [tally EXCEPT !.support[gold] = @ + 1, !.confusion[<<gold, pred>>] = @ + 1]
       IN  tally' = IF pred = gold THEN [counted EXCEPT !.tp[gold] = @ + 1]
                    ELSE [counted EXCEPT !.fn[gold] = @ + 1, !.fp[pred] = @ + 1]
    /\ at' = at + 1
    /\ UNCHANGED <<script, input>>

-----------------------------------------------------------------------------
(* eval_latency: percentiles of the answers, errors counted apart.          *)

LatencyInit ==
    /\ script = "latency" /\ input \in Timings /\ at = 1
    /\ tally = [samples |-> <<>>, errors |-> 0]

LatencyRequest ==
    /\ script = "latency" /\ at <= Len(input)
    /\ tally' = IF input[at] = Error THEN [tally EXCEPT !.errors = @ + 1]
                ELSE [tally EXCEPT !.samples = Append(@, input[at])]
    /\ at' = at + 1
    /\ UNCHANGED <<script, input>>

\* round(): to the nearest, from the middle to the even one.
Rounded(n, d) ==
    LET q == n \div d
        twice == 2 * (n % d)
    IN  IF twice < d \/ (twice = d /\ q % 2 = 0) THEN q ELSE q + 1

Percentile(s, p) ==
    IF s = <<>> THEN 0
    ELSE Smallest(s, 1 + Min({Len(s) - 1, Max({0, Rounded(p * (Len(s) - 1), 100)})}))

-----------------------------------------------------------------------------
(* eval_throughput: after the posts are published, how long until the posts, *)
(* the entities and the graph have grown by their targets, one after another. *)

\* int(count * 0.6), and of that int(* 0.5) and int(* 0.3).
Goal(stage) ==
    LET posts == (6 * input.count) \div 10
    IN  <<posts, posts \div 2, (3 * posts) \div 10>>[stage]

Grown(stage, time) == input.grown[stage][Min({time + 1, Len(input.grown[stage])})]

ThroughputInit ==
    /\ script = "throughput" /\ input \in Loads /\ at = 1
    /\ tally = [clock |-> 0, start |-> 0, times |-> <<>>]

\* mutated: one start for all stages.
StartKept == tally.start

StartAgain == tally.clock

Waits == script = "throughput" /\ at <= 3 /\ UNCHANGED <<script, input>>
Elapsed == tally.clock - tally.start

StageOver(time) ==
    /\ tally' = [tally EXCEPT !.times = Append(@, time), !.start = StartAgain]
    /\ at' = at + 1

PollReaches ==
    /\ Waits /\ Elapsed < Timeout /\ Grown(at, tally.clock) >= Goal(at)
    /\ StageOver(Elapsed)

PollSleeps ==
    /\ Waits /\ Elapsed < Timeout /\ Grown(at, tally.clock) < Goal(at)
    /\ tally' = [tally EXCEPT !.clock = @ + 1]
    /\ UNCHANGED at

GivesUp == Waits /\ Elapsed >= Timeout /\ StageOver(Error)

EvalNext ==
    \/ NerDocument \/ SentimentSample \/ LatencyRequest
    \/ PollReaches \/ PollSleeps \/ GivesUp

EvalInit == NerInit \/ SentimentInit \/ LatencyInit \/ ThroughputInit

EvalSpec == EvalInit /\ [][EvalNext]_evalVars
-----------------------------------------------------------------------------
Read == 1 .. at - 1

\* The counts of a type are the sums of the documents' own counts: a span
\* counts against the spans of its document only.
NerAddsUp ==
    script = "ner" =>
        /\ \A t \in Types :
              LET gold(i) == OfType(Objects(input[i]), t)
                  pred(i) == OfType(Extract(input[i]), t)
              IN  /\ Score(t).tp = Total([i \in Read |-> Cardinality(gold(i) \cap pred(i))])
                  /\ Score(t).fp = Total([i \in Read |-> Cardinality(pred(i) \ gold(i))])
                  /\ Score(t).fn = Total([i \in Read |-> Cardinality(gold(i) \ pred(i))])
        /\ Micro("tp") + Micro("fn") = Cardinality(tally.gold)

\* The tallies of a class are the margins of the confusion matrix, and every
\* mistake is one class's false positive and another one's false negative.
SentimentAddsUp ==
    script = "sentiment" =>
        \A c \in Classes :
            LET cell(g, p) == tally.confusion[<<g, p>>] IN
            /\ tally.tp[c] = cell(c, c)
            /\ tally.fp[c] = Total([g \in Classes \ {c} |-> cell(g, c)])
            /\ tally.fn[c] = Total([p \in Classes \ {c} |-> cell(c, p)])
            /\ tally.support[c] = Cardinality({i \in Read : LabelMap[input[i].label] = c})

\* Every request is a sample or an error, and a percentile is a sample at the
\* rank nearest to it: half the samples lie on either side of the median.
LatencyAddsUp ==
    script = "latency" =>
        LET s == tally.samples IN
            /\ Len(s) + tally.errors = at - 1
            /\ s # <<>> => \A p \in {50, 95, 99} :
                  LET v == Percentile(s, p) IN
                  /\ v \in ToSet(s)
                  /\ 100 * Cardinality(Below(s, v)) <= p * (Len(s) - 1) + 50
                  /\ 100 * Cardinality(UpTo(s, v)) >= p * (Len(s) - 1) + 50

\* What the times mean: a stage's own time starts where the one before it
\* ended, so the moment its target was seen to be reached is the sum of all
\* times so far, and it was not reached one poll earlier.
ThroughputAddsUp ==
    script = "throughput" =>
        \A k \in DOMAIN tally.times :
            LET took(j) == IF tally.times[j] = Error THEN Timeout ELSE tally.times[j]
                seen == Total([j \in 1 .. k |-> took(j)])
            IN  /\ tally.times[k] # Error => Grown(k, seen) >= Goal(k)
                /\ took(k) > 0 => Grown(k, seen - 1) < Goal(k)

\* What the report and the README say the times mean: a stage had reached its
\* target when its time had passed since the posts were published.
TimesAreEndToEnd ==
    script = "throughput" =>
        \A k \in DOMAIN tally.times :
            tally.times[k] # Error => Grown(k, tally.times[k]) >= Goal(k)
=============================================================================
