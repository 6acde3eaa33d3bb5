----------------------------- MODULE StreamPipe -----------------------------
(***************************************************************************)
(* streamPipe() and its stages (src/pipe/stream.ts): a source, a sequence  *)
(* of asynchronous generators, each pulling from the one before, and a     *)
(* sink.  A generator runs until it yields, returns or throws; one that is *)
(* left early closes the one it pulls from, here in one step.  Items are    *)
(* sequences, so that a batch is one too.  sTap and sPluck are sMap here;  *)
(* sThrottle, which looks at the clock, and the sinks that only fold what  *)
(* sToArray collects are left out.                                         *)
(***************************************************************************)
EXTENDS Naturals, SequencesExt

CONSTANTS
  Stages,    \* the pipelines: sequences of the names of stages
  Yieldable, \* the items a source may come up with
  N,         \* of sTake, sSkip and sChunk
  MaxItems   \* bound: items of a source

StageName ==
  {"filter", "map", "flatMap", "take", "skip", "unique", "chunk", "scan", "takeWhile", "skipWhile"}

ASSUME StreamAssumption ==
  /\ N \in Nat /\ MaxItems \in Nat
  /\ \A i \in Yieldable : i \in Seq(Nat)
  /\ \A s \in Stages : s \in Seq(StageName)

\* The functions that are given to stages.
Holds(item) == item[1] # 0
Mapped(item) == item \o <<9>>

VARIABLES
  stages,   \* the pipeline
  sink,     \* "toArray" or "first"
  at,       \* the generator that runs: 0 the source, Len(stages) + 1 the sink
  passing,  \* what the one that runs was given: a "pull", an "item", the "end"
  item,     \* the item that is passed
  memory,   \* what each stage remembers: items, or as many of them
  toYield,  \* what each stage has still to yield before it pulls again
  ended,    \* the stages that have returned
  sourced,  \* (history) the items of the source
  dry,      \* (history) the source has ended by itself
  received, \* what the sink has
  pipe      \* "running", "done", "failed"

pipeVars ==
  <<stages, sink, at, passing, item, memory, toYield, ended, sourced, dry, received, pipe>>

Sink == Len(stages) + 1

PipeInit ==
  /\ stages \in Stages /\ sink \in {"toArray", "first"}
  /\ at = Len(stages) + 1 /\ passing = "end" /\ item = <<>>
  /\ memory = [k \in DOMAIN stages |-> <<>>] /\ toYield = [k \in DOMAIN stages |-> <<>>]
  /\ ended = {} /\ sourced = <<>> /\ dry = FALSE
  /\ received = <<>> /\ pipe = "new"

-----------------------------------------------------------------------------
(* What a stage makes of an item: what it yields, what it remembers, and   *)
(* whether it returns.                                                     *)

Yielding(out, mem) == [yields |-> out, memory |-> mem, returns |-> FALSE]
Returning == [yields |-> <<>>, memory |-> <<>>, returns |-> TRUE]

\* The count of an item of sTake and sSkip goes up with it.
Counted(mem, i) == IF Len(mem) < N THEN Append(mem, i) ELSE mem

Filter(mem, i) == Yielding(IF Holds(i) THEN <<i>> ELSE <<>>, mem)
Map(mem, i) == Yielding(<<Mapped(i)>>, mem)
FlatMap(mem, i) == Yielding([n \in DOMAIN i |-> <<i[n]>>], mem)
Take(mem, i) == IF Len(mem) >= N THEN Returning ELSE Yielding(<<i>>, Counted(mem, i))
Skip(mem, i) == Yielding(IF Len(mem) >= N THEN <<i>> ELSE <<>>, Counted(mem, i))
Unique(mem, i) == IF i \in Range(mem) THEN Yielding(<<>>, mem) ELSE Yielding(<<i>>, Append(mem, i))
Chunk(mem, i) ==
  LET batch == Append(mem, i)
  IN  IF Len(batch) >= N THEN Yielding(<<FlattenSeq(batch)>>, <<>>) ELSE Yielding(<<>>, batch)
Scan(mem, i) == Yielding(<<FlattenSeq(mem) \o i>>, Append(mem, i))
TakeWhile(mem, i) == IF Holds(i) THEN Yielding(<<i>>, mem) ELSE Returning
SkipWhile(mem, i) ==
  IF mem = <<>> /\ Holds(i) THEN Yielding(<<>>, mem) ELSE Yielding(<<i>>, <<i>>)

Made(stage, mem, i) ==
  CASE stage = "filter" -> Filter(mem, i)
    [] stage = "map" -> Map(mem, i)
    [] stage = "flatMap" -> FlatMap(mem, i)
    [] stage = "take" -> Take(mem, i)
    [] stage = "skip" -> Skip(mem, i)
    [] stage = "unique" -> Unique(mem, i)
    [] stage = "chunk" -> Chunk(mem, i)
    [] stage = "scan" -> Scan(mem, i)
    [] stage = "takeWhile" -> TakeWhile(mem, i)
    [] stage = "skipWhile" -> SkipWhile(mem, i)

\* At its end sChunk yields the batch it has begun.
BugFlushed(stage, mem) == IF stage = "chunk" /\ Len(mem) >= N THEN <<FlattenSeq(mem)>> ELSE <<>>
Flushed(stage, mem) == IF stage = "chunk" /\ mem # <<>> THEN <<FlattenSeq(mem)>> ELSE <<>>

-----------------------------------------------------------------------------
\* To the generator after, or before, the one that runs.
Pass(what, i) == at' = at + 1 /\ passing' = what /\ item' = i
Pull == at' = at - 1 /\ passing' = "pull" /\ item' = <<>>

\* The sink's loop; sFirst closes the pipe after an item.
SinkPulls ==
  /\ at = Sink /\ pipe = "new" /\ pipe' = "running" /\ Pull
  /\ UNCHANGED <<stages, sink, memory, toYield, ended, sourced, dry, received>>

SinkTakes ==
  /\ at = Sink /\ pipe = "running" /\ passing = "item"
  /\ received' = Append(received, item)
  /\ IF sink = "first"
     THEN pipe' = "done" /\ UNCHANGED <<at, passing, item>>
     ELSE Pull /\ UNCHANGED pipe
  /\ UNCHANGED <<stages, sink, memory, toYield, ended, sourced, dry>>

SinkEnds ==
  /\ at = Sink /\ pipe = "running" /\ passing = "end" /\ pipe' = "done"
  /\ UNCHANGED <<stages, sink, at, passing, item, memory, toYield, ended, sourced, dry, received>>

SourceYields(i) ==
  /\ at = 0 /\ Len(sourced) < MaxItems
  /\ sourced' = Append(sourced, i) /\ Pass("item", i)
  /\ UNCHANGED <<stages, sink, memory, toYield, ended, dry, received, pipe>>

SourceEnds ==
  /\ at = 0 /\ dry' = TRUE /\ Pass("end", <<>>)
  /\ UNCHANGED <<stages, sink, memory, toYield, ended, sourced, received, pipe>>

AtStage == at \in DOMAIN stages /\ pipe = "running"

\* A stage that is pulled from goes on yielding, pulls, or has returned.
StagePulled ==
  /\ AtStage /\ passing = "pull"
  /\ IF toYield[at] # <<>>
     THEN Pass("item", Head(toYield[at])) /\ toYield' = [toYield EXCEPT ![at] = Tail(@)]
     ELSE UNCHANGED toYield /\ IF at \in ended THEN Pass("end", <<>>) ELSE Pull
  /\ UNCHANGED <<stages, sink, memory, ended, sourced, dry, received, pipe>>

\* It is given an item; one that returns for it closes those it pulls from.
StageGiven ==
  /\ AtStage /\ passing = "item"
  /\ LET made == Made(stages[at], memory[at], item)
     IN  /\ memory' = [memory EXCEPT ![at] = made.memory]
         /\ toYield' = [toYield EXCEPT ![at] = made.yields]
         /\ ended' = IF made.returns THEN ended \cup 1 .. at ELSE ended
  /\ passing' = "pull" /\ item' = <<>>
  /\ UNCHANGED <<stages, sink, at, sourced, dry, received, pipe>>

StageEnds ==
  /\ AtStage /\ passing = "end" /\ ended' = ended \cup {at}
  /\ toYield' = [toYield EXCEPT ![at] = Flushed(stages[at], memory[at])]
  /\ passing' = "pull"
  /\ UNCHANGED <<stages, sink, at, item, memory, sourced, dry, received, pipe>>

\* A function that was given to it throws: every loop is left.
StageThrows ==
  /\ AtStage /\ passing = "item" /\ pipe' = "failed"
  /\ UNCHANGED <<stages, sink, at, passing, item, memory, toYield, ended, sourced, dry, received>>

PipeNext ==
  \/ SinkPulls \/ SinkTakes \/ SinkEnds \/ SourceEnds \/ \E i \in Yieldable : SourceYields(i)
  \/ StagePulled \/ StageGiven \/ StageEnds \/ StageThrows

PipeSpec == PipeInit /\ [][PipeNext]_pipeVars
-----------------------------------------------------------------------------
PipeTypeOK ==
  /\ at \in 0 .. Sink /\ passing \in {"pull", "item", "end"} /\ pipe \in {"new", "running", "done", "failed"}
  /\ ended \subseteq DOMAIN stages /\ Len(sourced) <= MaxItems /\ dry \in BOOLEAN

(* What the stages are to make of a whole sequence, with no word of how.   *)

\* The items at these places, in their order.
Kept(s, places) ==
  [n \in 1 .. Cardinality(places) |-> s[Min({m \in places : Cardinality({p \in places : p <= m}) = n})]]

\* A group has N items, and one at least.
Groups(s, whole) ==
  LET size == IF N = 0 THEN 1 ELSE N
      full == Len(s) \div size
      groups == IF whole /\ size * full < Len(s) THEN full + 1 ELSE full
  IN  [g \in 1 .. groups |->
         FlattenSeq(SubSeq(s, size * (g - 1) + 1, IF g <= full THEN size * g ELSE Len(s)))]

\* As many of the first items as satisfy the predicate.
Leading(s) ==
  LET failing == {n \in DOMAIN s : ~Holds(s[n])}
  IN  IF failing = {} THEN Len(s) ELSE (CHOOSE n \in failing : \A m \in failing : n <= m) - 1

Result(stage, s, whole) ==
  CASE stage = "filter" -> Kept(s, {n \in DOMAIN s : Holds(s[n])})
    [] stage = "map" -> [n \in DOMAIN s |-> Mapped(s[n])]
    [] stage = "flatMap" -> LET parts == FlattenSeq(s) IN [n \in DOMAIN parts |-> <<parts[n]>>]
    [] stage = "take" -> SubSeq(s, 1, IF Len(s) < N THEN Len(s) ELSE N)
    [] stage = "skip" -> SubSeq(s, N + 1, Len(s))
    [] stage = "unique" -> Kept(s, {n \in DOMAIN s : \A m \in 1 .. n - 1 : s[m] # s[n]})
    [] stage = "chunk" -> Groups(s, whole)
    [] stage = "scan" -> [n \in DOMAIN s |-> FlattenSeq(SubSeq(s, 1, n))]
    [] stage = "takeWhile" -> SubSeq(s, 1, Leading(s))
    [] stage = "skipWhile" -> SubSeq(s, Leading(s) + 1, Len(s))

\* Whether a stage is over after these items.
Over(stage, s, whole) ==
  \/ whole
  \/ stage = "take" /\ Len(s) > N
  \/ stage = "takeWhile" /\ Leading(s) < Len(s)

\* After its first k stages.
Promised(k) ==
  LET upTo[j \in 0 .. k] ==
        IF j = 0 THEN [items |-> sourced, whole |-> dry]
        ELSE [items |-> Result(stages[j], upTo[j - 1].items, upTo[j - 1].whole),
              whole |-> Over(stages[j], upTo[j - 1].items, upTo[j - 1].whole)]
  IN  upTo[k].items

\* Item by item the sink is given what the stages make of the whole of what the
\* source has yielded: nothing else, in no other order, and when the pipe is
\* through all of it (or, for sFirst, the first).
PipeDelivers ==
  /\ IsPrefix(received, Promised(Len(stages)))
  /\ pipe = "done" /\ sink = "toArray" => received = Promised(Len(stages))

\* The comment on sTake says that the upstream is not consumed beyond N.
TakeConsumesNoMore == stages # <<>> /\ stages[1] = "take" => Len(sourced) <= N

\* What it keeps to: as the first stage it asks its source for one item more than it
\* passes on, but for no second.
TakeAsksOnceMore == stages # <<>> /\ stages[1] = "take" => Len(sourced) <= N + 1
=============================================================================
