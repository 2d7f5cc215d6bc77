------------------------------ MODULE Retrieval ------------------------------
(***************************************************************************)
(* The pure part of go-agent/internal/vault: how a page is cut into        *)
(* chunks, which pages a query finds, and which part of a page answers it. *)
(* A text is a sequence of words, a paragraph is a text, a section a       *)
(* sequence of paragraphs and a page's body a sequence of sections;        *)
(* lengths are counted in words.  Headings, case and punctuation, the      *)
(* rules for numbers and the scores themselves are left out.               *)
(***************************************************************************)
EXTENDS Integers, SequencesExt

CONSTANTS
  ChunkMaxLen, ChunkMinLen, ChunkOverlapLen, \* the constants of chunker.go
  WholeLen,  \* bodies up to this length are quoted whole (FindBestChunk)
  StopWords

ASSUME RetrievalAssumption ==
  {ChunkMaxLen, ChunkMinLen, ChunkOverlapLen, WholeLen} \subseteq Nat

Text(section) == FlattenSeq(section)

BodyText(content) == FlattenSeq([i \in DOMAIN content.body |-> Text(content.body[i])])

Prefix(text, n) == SubSeq(text, 1, IF n < Len(text) THEN n ELSE Len(text))

LastNChars(text, n) == SubSeq(text, IF n < Len(text) THEN Len(text) - n + 1 ELSE 1, Len(text))

-----------------------------------------------------------------------------
(* chunker.go                                                               *)

SplitLongSection(paragraphs) ==
  IF Len(Text(paragraphs)) <= ChunkMaxLen THEN <<Text(paragraphs)>>
  ELSE LET Add(acc, p) ==
             IF acc.current # <<>> /\ Len(acc.current) + Len(p) > ChunkMaxLen
             THEN [done |-> Append(acc.done, acc.current), current |-> p]
             ELSE [acc EXCEPT !.current = @ \o p]
           parts == FoldLeft(Add, [done |-> <<>>, current |-> <<>>], paragraphs)
       IN IF parts.current = <<>> THEN parts.done ELSE Append(parts.done, parts.current)

\* A long page is cut at its headings; a section begins with the end of the one
\* before it, and a section that is too short is only heard of that way.
ChunkPage(content) ==
  LET text == BodyText(content)
      AddSection(acc, section) ==
        [chunks |-> IF Len(Text(section)) < ChunkMinLen THEN acc.chunks
                    ELSE acc.chunks \o SplitLongSection(
                           (IF acc.tail = <<>> THEN <<>> ELSE <<acc.tail>>) \o section),
         tail |-> LastNChars(Text(section), ChunkOverlapLen)]
      chunks == FoldLeft(AddSection, [chunks |-> <<>>, tail |-> <<>>], content.body).chunks
  IN IF text = <<>> THEN <<>>
     ELSE IF Len(text) <= ChunkMaxLen \/ chunks = <<>> THEN <<text>>
     ELSE chunks

-----------------------------------------------------------------------------
(* tokenizer.go, inverted.go, retrieval.go, page_filter.go                  *)

TokenizeQuery(query) == ToSet(query) \ StopWords

MinMatch(tokens) == IF Cardinality(tokens) > 2 THEN 2 ELSE 1

Matched(tokens, words) == Cardinality(tokens \cap words)

\* The sparse index tokenizes the file, its frontmatter included.
FileWords(content) == ToSet(BodyText(content)) \cup content.tags \cup {content.category}

\* A document is a hit when enough distinct tokens of the query occur in it.
IsHit(query, content) ==
  LET tokens == TokenizeQuery(query)
  IN tokens # {} /\ Matched(tokens, FileWords(content)) >= MinMatch(tokens)

\* Which texts an embedding model (external) finds similar to a query.
IsSimilar(query, text) == ToSet(query) \cap ToSet(text) # {}

\* The chunk with most of the query, the first of equals; without one, the
\* beginning of the body.
FindBestChunk(content, query) ==
  LET text == BodyText(content)
      chunks == ChunkPage(content)
      Score(chunk) == Matched(ToSet(query), ToSet(chunk))
      best == { i \in DOMAIN chunks :
                  /\ Score(chunks[i]) > 0
                  /\ \A j \in DOMAIN chunks : Score(chunks[j]) <= Score(chunks[i]) }
  IN IF Len(text) <= WholeLen THEN text
     ELSE IF best = {} THEN Prefix(text, WholeLen)
     ELSE chunks[CHOOSE i \in best : \A j \in best : i <= j]

IsInternalPage(content) ==
  \/ "internal" \in content.tags
  \/ content.category = "concept" /\ "user-facing" \notin content.tags

===============================================================================
