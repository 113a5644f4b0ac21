------------------------------ MODULE SquadMemory -------------------------------
(***************************************************************************)
(* The agents' episodic memory (btv_squad/memory.py): one JSON line per    *)
(* decision in a file that every squad process of a directory appends to   *)
(* and the memory service reads, and a reader's parsed copy of it, kept    *)
(* until the file's stamp changes.  A line longer than the write buffer    *)
(* goes out in two writes.  A file is the sequence of what was written to  *)
(* it.                                                                     *)
(***************************************************************************)
EXTENDS Naturals, Sequences, FiniteSets, SequencesExt, FiniteSetsExt

CONSTANTS
  Memory,  \* decisions remembered, each by a call in some process
  Long,    \* those longer than the buffer
  Similar, \* those that share a term with what is asked for
  OfOne,   \* those of one agent, the others being another's
  TopK,    \* memories a recall gives at most, and a list
  MaxLoads \* bound: loads of the reader

ASSUME SquadMemoryConstants ==
  {Long, Similar, OfOne} \subseteq SUBSET Memory /\ TopK \in Nat

VARIABLES
  corpus,  \* agent_memories.jsonl: pieces, <<memory, last piece of its line>>
  scribe,  \* per memory: how far its `remember_decision` is
  reader,  \* the reader's load: where it is, the stamp it took, how many so far
  cache,   \* _corpus_cache and _corpus_stamp
  due,     \* history: what was whole in the file when the load began
  answer   \* what the caller was given: a list of memories, or a map of agents

memVars == <<corpus, scribe, reader, cache, due, answer>>

NoRecall == [kind |-> "none"]

MemInit ==
  /\ corpus = <<>>
  /\ scribe = [m \in Memory |-> "new"]
  /\ reader = [at |-> "idle", stamp |-> 0, loads |-> 0]
  /\ cache = [stamp |-> 0, known |-> << >>]
  /\ due = {}
  /\ answer = NoRecall

(* The file only grows: its size tells its states apart. *)
CorpusFingerprint == Len(corpus)

(* `_load_corpus` skips a line that is no JSON: one with pieces of two       *)
(* memories in it, or without its end.                                       *)
LineStarts(i) == i = 1 \/ corpus[i - 1][2]
LineIsWhole(i) ==
  /\ LineStarts(i)
  /\ \/ corpus[i][2] /\ corpus[i][1] \notin Long
     \/ i < Len(corpus) /\ ~corpus[i][2] /\ corpus[i + 1] = <<corpus[i][1], TRUE>>

(* The records, in the order of their lines. *)
Records ==
  LET whole == SetToSortSeq({i \in DOMAIN corpus : LineIsWhole(i)}, <)
  IN  [n \in DOMAIN whole |-> corpus[whole[n]][1]]
Parsed == ToSet(Records)

-----------------------------------------------------------------------------
Write(m, last, phase) ==
  /\ corpus' = Append(corpus, <<m, last>>)
  /\ scribe' = [scribe EXCEPT ![m] = phase]
  /\ UNCHANGED <<reader, cache, due, answer>>

(* `remember_decision`: what fits the buffer is written when the file is     *)
(* closed.                                                                   *)
Remember(m) == scribe[m] = "new" /\ m \notin Long /\ Write(m, TRUE, "kept")
RememberFirstHalf(m) == scribe[m] = "new" /\ m \in Long /\ Write(m, FALSE, "half")
RememberRest(m) == scribe[m] = "half" /\ Write(m, TRUE, "kept")

(* The process dies between the two. *)
ScribeDies(m) ==
  /\ scribe[m] = "half"
  /\ scribe' = [scribe EXCEPT ![m] = "dead"]
  /\ UNCHANGED <<corpus, reader, cache, due, answer>>

(* Bug: what was once loaded is not looked at again. *)
LoadCorpusOnce ==
  /\ reader.at = "idle"
  /\ reader.loads < MaxLoads
  /\ due' = Parsed
  /\ answer' = NoRecall
  /\ reader' = [at |-> IF cache.stamp > 0 THEN "answered" ELSE "stamped",
                stamp |-> CorpusFingerprint, loads |-> reader.loads + 1]
  /\ UNCHANGED <<corpus, scribe, cache>>

(* `_load_corpus`: the stamp, *)
LoadCorpus ==
  /\ reader.at = "idle"
  /\ reader.loads < MaxLoads
  /\ due' = Parsed
  /\ answer' = NoRecall
  /\ reader' = [at |-> IF CorpusFingerprint = cache.stamp THEN "answered" ELSE "stamped",
                stamp |-> CorpusFingerprint, loads |-> reader.loads + 1]
  /\ UNCHANGED <<corpus, scribe, cache>>

(* then the file, as it is by now. *)
ReadCorpus ==
  /\ reader.at = "stamped"
  /\ cache' = [stamp |-> reader.stamp, known |-> Records]
  /\ reader' = [reader EXCEPT !.at = "answered"]
  /\ UNCHANGED <<corpus, scribe, due, answer>>

(* `list_memories`: the newest first, of one agent or all, so many.        *)
ListMemories(agents) ==
  LET of == SelectSeq(Reverse(cache.known), LAMBDA m : m \in agents)
  IN  SubSeq(of, 1, Min({TopK, Len(of)}))

(* `recall.rank`: with the smoothed IDF no term weighs nothing, so what    *)
(* shares one scores and what shares none does not; which score best       *)
(* changes with the corpus.                                                *)
Scored(docs) == docs \cap Similar
Ranked == LET scored == Scored(ToSet(cache.known))
          IN  kSubset(Min({TopK, Cardinality(scored)}), scored)

(* `_summarize_by_agent` of the memory server. *)
SummarizeByAgent(records) ==
  {[count |-> Len(of), latest |-> of[1]] :
     of \in {SelectSeq(records, LAMBDA m : m \in agents) : agents \in {OfOne, Memory \ OfOne}} \ {<< >>}}

(* `recall_similar` in a squad, `Recall` and `List` of the memory server.  *)
RecallSimilar == \E best \in Ranked : answer' = [kind |-> "recall", memories |-> best]
ListByAgent ==
  \E agents \in {OfOne, Memory} :
    answer' = [kind |-> "list", agents |-> agents, map |-> SummarizeByAgent(ListMemories(agents))]

Answered ==
  /\ reader.at = "answered"
  /\ RecallSimilar \/ ListByAgent
  /\ reader' = [reader EXCEPT !.at = "idle"]
  /\ UNCHANGED <<corpus, scribe, cache, due>>

RememberDecision(m) == Remember(m) \/ RememberFirstHalf(m) \/ RememberRest(m)

MemNext ==
  \/ \E m \in Memory : RememberDecision(m) \/ ScribeDies(m)
  \/ LoadCorpus \/ ReadCorpus \/ Answered

MemSpec == MemInit /\ [][MemNext]_memVars

-----------------------------------------------------------------------------
LineOf(m) == CHOOSE i \in DOMAIN corpus : corpus[i] = <<m, TRUE>>

(* What the caller is given holds every memory that was whole when it      *)
(* asked, as far as so many fit, whatever other processes append meanwhile:*)
(* a recall every similar one, the map of agents every agent, and as its   *)
(* latest decision none older than one of then.                            *)
RecallIsUpToDate ==
  /\ answer.kind = "recall" =>
       /\ answer.memories \subseteq Similar
       /\ due \cap Similar \subseteq answer.memories \/ Cardinality(answer.memories) = TopK
  /\ answer.kind = "list" =>
       LET told == FoldSet(LAMBDA e, n : e.count + n, 0, answer.map)
           Same(m, e) == m \in OfOne <=> e.latest \in OfOne
       IN \A m \in due \cap answer.agents :
            \/ \E e \in answer.map : Same(m, e) /\ LineOf(e.latest) >= LineOf(m)
            \/ told = TopK /\ \A e \in answer.map : ~Same(m, e) /\ LineOf(e.latest) >= LineOf(m)

(* What `remember_decision` has written is found again.                      *)
MemoriesAreFound == \A m \in Memory : scribe[m] = "kept" => m \in Parsed
=============================================================================
