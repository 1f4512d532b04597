------------------------------ MODULE Retrieval ------------------------------
(***************************************************************************)
(* What is put in front of a prompt (internal/rag, internal/index): texts  *)
(* cut into chunks, chunks ranked for a question, the best of them and the *)
(* map of the project fitted into their shares of the context window.      *)
(*                                                                         *)
(* Only sizes are modelled: a word, a line, an entry is its length, and a  *)
(* chunk the positions of what it holds.                                   *)
(***************************************************************************)
EXTENDS Integers, Sequences, FiniteSets, SequencesExt, FiniteSetsExt

CONSTANTS
  Documents,      \* sequences of paragraphs, each a sequence of words
  Conversations,  \* sequences of [role, size]
  Sources,        \* sequences of lines
  Rankings,       \* what an index holds: sequences of [size, score]
  Budgets,        \* token budgets of a question
  Maps,           \* sequences of files, each the sizes of its detail levels
  MaxChunk,       \* maxChunkSize and maxSourceChunk
  Overlap,        \* overlapLines
  MinExchange,    \* minExchangeLen
  TopK,           \* chunks of an index that are asked for
  Reserve         \* characters kept for "... and N more files"

VARIABLE job   \* the piece of work done last: [kind, in, out]

Sum(sizes) == FoldLeft(LAMBDA a, b : a + b, 0, sizes)
\* The length of things joined by separators of length sep.
Joined(sizes, sep) == Sum(sizes) + (IF sizes = <<>> THEN 0 ELSE sep * (Len(sizes) - 1))

\* A buffer that things are added to; a thing it has no room for flushes it.
Flush(b) == IF b.buf = <<>> THEN b ELSE [b EXCEPT !.out = Append(@, b.buf), !.buf = <<>>, !.len = 0]
Put(b, thing, size, sep) ==
  [b EXCEPT !.buf = Append(@, thing), !.len = @ + size + (IF b.buf = <<>> THEN 0 ELSE sep)]
Room(b, size, sep) == b.buf = <<>> \/ b.len + size + sep <= MaxChunk
Empty == [out |-> <<>>, buf |-> <<>>, len |-> 0]

\* chunkText and splitLong: paragraphs, and the words of one that is too long;
\* a chunk is a sequence of <<paragraph, word>>, the word 0 for all of them.
SplitLong(p, words) ==
  Flush(FoldLeft(LAMBDA b, w :
      LET c == IF Room(b, words[w], 1) THEN b ELSE Flush(b) IN Put(c, <<p, w>>, words[w], 1),
    Empty, [w \in 1..Len(words) |-> w])).out
ChunkText(paragraphs) ==
  Flush(FoldLeft(LAMBDA b, p :
      LET size == Joined(paragraphs[p], 1)
          c == IF Room(b, size, 2) THEN b ELSE Flush(b)
      IN IF size = 0 THEN b
         ELSE IF size > MaxChunk
         THEN LET d == Flush(c) IN [d EXCEPT !.out = @ \o SplitLong(p, paragraphs[p])]
         ELSE Put(c, <<p, 0>>, size, 2),
    Empty, [p \in 1..Len(paragraphs) |-> p])).out

\* SourceStore.chunkByLines: a chunk that is full is followed by one that begins
\* with its last lines; a chunk is [from, to, size], its lines and its text.
ChunkByLines(lines) ==
  LET added(n, size) == n + size + (IF n > 0 THEN 1 ELSE 0)
      step(b, i) ==
        IF b.len > 0 /\ b.len + lines[i] + 1 > MaxChunk
        THEN LET from == Max({i - Overlap, 1}) IN
             [out |-> Append(b.out, [from |-> b.from, to |-> i - 1, size |-> b.len]),
              from |-> from, len |-> FoldLeft(added, 0, SubSeq(lines, from, i))]
        ELSE [b EXCEPT !.len = added(@, lines[i])]
      all == FoldLeft(step, [out |-> <<>>, from |-> 1, len |-> 0], [i \in 1..Len(lines) |-> i])
  IN IF all.len > 0 THEN Append(all.out, [from |-> all.from, to |-> Len(lines), size |-> all.len])
     ELSE all.out

\* SessionStore.loadSession: each question with the answer that came before the
\* next question.
LoadSession(msgs) ==
  LET answer(i) ==
        {j \in (i + 1)..Len(msgs) :
           /\ msgs[j].role = "assistant"
           /\ \A k \in (i + 1)..(j - 1) : msgs[k].role \notin {"user", "assistant"}}
  IN {e \in (1..Len(msgs)) \X (1..Len(msgs)) :
        /\ msgs[e[1]].role = "user" /\ e[2] \in answer(e[1])
        /\ msgs[e[1]].size + msgs[e[2]].size >= MinExchange}

\* BM25Index.Query: the best of the chunks that score at all, found by selection.
Selected(ranking) ==
  LET results == SelectSeq([i \in 1..Len(ranking) |-> i], LAMBDA i : ranking[i].score > 0)
      k == Min({TopK, Len(results)})
      score(r, i) == ranking[r[i]].score
      best(r, i) == CHOOSE j \in i..Len(r) :
                      /\ \A l \in i..Len(r) : score(r, l) <= score(r, j)
                      /\ \A l \in i..(j - 1) : score(r, l) < score(r, j)
      swap(r, i) == [r EXCEPT ![i] = r[best(r, i)], ![best(r, i)] = r[i]]
  IN SubSeq(FoldLeft(swap, results, [i \in 1..k |-> i]), 1, k)

\* formatChunks: the first chunk that does not fit ends the section.
FormatChunks(ranking, chosen, chars) ==
  LET step(b, c) ==
        IF b.full \/ b.len + ranking[c].size + 2 > chars THEN [b EXCEPT !.full = TRUE]
        ELSE [b EXCEPT !.len = @ + ranking[c].size + (IF b.len > 0 THEN 2 ELSE 0), !.out = Append(@, c)]
  IN FoldLeft(step, [len |-> 0, out |-> <<>>, full |-> chars <= 0], chosen)

\* RAG.Query: the budget is shared by two kinds of chunks, or by three.
Shares(sources, budget) ==
  LET src == IF sources = <<>> THEN 0 ELSE (budget * 40) \div 100
      doc == IF sources = <<>> THEN (budget * 60) \div 100 ELSE (budget * 30) \div 100
  IN <<src, doc, budget - src - doc>>
Query(stores, budget) ==
  LET share == Shares(stores[1], budget)
  IN [s \in 1..3 |-> FormatChunks(stores[s], Selected(stores[s]), share[s] * 4)]

\* Index.RepoMap: the first level of detail that fits, or a part of the paths.
TruncateFileList(files, chars) ==
  LET fits(n) == Sum([i \in 1..n |-> files[i][4] + 1]) <= chars - Reserve
      n == CHOOSE n \in 0..Len(files) :
             (n = Len(files) \/ ~fits(n + 1)) /\ \A m \in 1..n : fits(m)
  IN [level |-> 5, files |-> n,
      size |-> Sum([i \in 1..n |-> files[i][4] + 1]) + (IF n < Len(files) THEN Reserve ELSE 0)]
RepoMap(files, budget) ==
  LET size(l) == Joined([i \in 1..Len(files) |-> files[i][l]], 1)
      fit == {l \in 1..4 : size(l) <= budget * 4}
  IN IF budget <= 0 \/ files = <<>> THEN [level |-> 0, files |-> 0, size |-> 0]
     ELSE IF fit # {} THEN [level |-> Min(fit), files |-> Len(files), size |-> size(Min(fit))]
     ELSE TruncateFileList(files, budget * 4)

-----------------------------------------------------------------------------
RetrievalInit == job = [kind |-> "none", in |-> <<>>, out |-> <<>>]

Does(kind, in, out) == job' = [kind |-> kind, in |-> in, out |-> out]
Fresh == job.kind = "none"

AddDocument == Fresh /\ \E d \in Documents : Does("document", d, ChunkText(d))
AddSession == Fresh /\ \E c \in Conversations : Does("session", c, LoadSession(c))
AddSource == Fresh /\ \E s \in Sources : Does("source", s, ChunkByLines(s))
Ask == Fresh /\ \E s, d \in Rankings, n \in Budgets :
         Does("ask", <<<<s, d, d>>, n>>, Query(<<s, d, d>>, n))
MapRepo == Fresh /\ \E m \in Maps, n \in Budgets : Does("map", <<m, n>>, RepoMap(m, n))

RetrievalNext == AddDocument \/ AddSession \/ AddSource \/ Ask \/ MapRepo

-----------------------------------------------------------------------------
\* Every word of a document is in one chunk, in its order, and only a word that
\* is longer than a chunk makes one that is too long.
WordsKept(d, chunks) ==
  LET words(c) == FlattenSeq([k \in 1..Len(c) |->
                    IF c[k][2] # 0 THEN <<c[k]>>
                    ELSE [w \in 1..Len(d[c[k][1]]) |-> <<c[k][1], w>>]])
      size(c) == IF c[1][2] # 0 THEN Joined([k \in 1..Len(c) |-> d[c[k][1]][c[k][2]]], 1)
                 ELSE Joined([k \in 1..Len(c) |-> Joined(d[c[k][1]], 1)], 2)
  IN /\ FlattenSeq([i \in 1..Len(chunks) |-> words(chunks[i])]) =
          FlattenSeq([p \in 1..Len(d) |-> [w \in 1..Len(d[p]) |-> <<p, w>>]])
     /\ \A i \in 1..Len(chunks) :
          size(chunks[i]) <= MaxChunk \/ (Len(chunks[i]) = 1 /\ chunks[i][1][2] # 0)

\* Every line that is not blank is in a chunk of its file, the chunks follow each
\* other, and only overlapping lines or a long line make one that is too long.
LinesKept(s, chunks) ==
  /\ \A i \in 1..Len(s) : s[i] > 0 => \E k \in 1..Len(chunks) : chunks[k].from <= i /\ i <= chunks[k].to
  /\ \A k \in 1..(Len(chunks) - 1) :
       /\ chunks[k + 1].from <= chunks[k].to + 1 /\ chunks[k].to < chunks[k + 1].to
       /\ chunks[k].size <= MaxChunk \/ Sum(SubSeq(s, chunks[k].from, chunks[k].to)) > MaxChunk - Overlap - 1

\* A section shows the best chunks of its index, in order, and the sections
\* together stay within the budget of the question.
BestWithin(stores, budget, sections) ==
  /\ sections[1].len + sections[2].len + sections[3].len <= 4 * budget
  /\ \A s \in 1..3 : \A k \in 1..Len(sections[s].out) :
       LET c == sections[s].out[k]  score(i) == stores[s][i].score IN
       /\ score(c) > 0 /\ \A j \in 1..(k - 1) : sections[s].out[j] # c
       /\ k > 1 => score(sections[s].out[k - 1]) >= score(c)
       /\ \A i \in 1..Len(stores[s]) : score(i) > score(c) => \E j \in 1..k : sections[s].out[j] = i

\* A map of the project fits into its share, with all files unless not even
\* their paths fit; a share too small for the closing line is the exception.
MapFits(files, budget, map) ==
  /\ budget * 4 >= Reserve => map.size <= budget * 4
  /\ budget > 0 /\ map.files < Len(files) => Joined([i \in 1..Len(files) |-> files[i][4]], 1) > budget * 4

\* Nothing that was indexed is lost on its way to the prompt, and what reaches
\* the prompt stays within the share of the context window it was given.
ContextIsWhole ==
  CASE job.kind = "document" -> WordsKept(job.in, job.out)
    [] job.kind = "source" -> LinesKept(job.in, job.out)
    [] job.kind = "session" ->
         \A p, q \in job.out : (p[1] = q[1]) = (p[2] = q[2]) /\ (p[1] < q[1] => p[2] < q[1])
    [] job.kind = "ask" -> BestWithin(job.in[1], job.in[2], job.out)
    [] job.kind = "map" -> MapFits(job.in[1], job.in[2], job.out)
    [] OTHER -> TRUE
=============================================================================
