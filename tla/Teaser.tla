-------------------------------- MODULE Teaser --------------------------------
(***************************************************************************)
(* The excerpt of a page that the search of the documentation site shows   *)
(* (static/js/search.js: makeTeaser, substringByByte): the window of words *)
(* with the largest sum of weights, quoted from the page by the positions  *)
(* that were counted while its lower-case form was split into sentences    *)
(* and words.                                                              *)
(*                                                                         *)
(* A page is a sequence of UTF-16 code units, of which only what the code  *)
(* looks at is kept: blanks, full stops, letters by size, surrogates and   *)
(* the joiner, and that a letter can become two in lower case.  A word     *)
(* matches the search if it begins with "t".                               *)
(***************************************************************************)
EXTENDS Integers, FiniteSetsExt, SequencesExt

CONSTANTS
  TEASER_MAX_WORDS,   \* words of an excerpt, 30 in the code
  LongWord,           \* length, and bytes left, of a word that is cut: 12
  MaxPage             \* bound: length of the pages and words looked at

ASSUME TeaserAssumption == TEASER_MAX_WORDS \in Nat \ {0} /\ MaxPage \in Nat

VARIABLES
  page,     \* the body of a page, or one word of it
  limit,    \* the byte limit for the word, 0 when `page` is a page
  quoted    \* the excerpt of the page, or what is left of the word

teaserVars == <<page, limit, quoted>>

TERM_WEIGHT == 40
NORMAL_WORD_WEIGHT == 2
FIRST_WORD_WEIGHT == 8

\* "w" is outside of Latin-1, and so is the capital I with a dot, "dotted",
\* whose lower case is an i and a dot to be put over it.
Letter == {"t", "a", "w", "dotted"}
Char == Letter \cup {"blank", "stop"}
CodePoint == {<<"a">>, <<"w">>, <<"joiner">>, <<"high", "low">>}

NotYet == <<"not yet">>

TeaserLoad(text, bytes) == page = text /\ limit = bytes /\ quoted = NotYet

TeaserInit ==
  \/ \E n \in 0..MaxPage : \E text \in [1..n -> Char] : TeaserLoad(text, 0)
  \/ \E n \in 0..(MaxPage - 1), bytes \in 1..(2 * MaxPage) :
       \E points \in [1..n -> CodePoint] : TeaserLoad(FlattenSeq(points), bytes)
-----------------------------------------------------------------------------
\* getByteByHex(): the bytes of the code point at i, not those of UTF-8.
Bytes(text, i) == CASE text[i] = "a" -> 1 [] text[i] = "high" -> 3 [] OTHER -> 2

\* One turn of the loop of substringByByte(): `flag` says that the characters up
\* to the next pair of surrogates belong to one with a joiner, whose bytes add
\* up in `len`; a character that no longer fits ends the loop.
NextCharacter(text, max, s) ==
  LET pair == text[s.i] = "high"
      i    == IF pair THEN s.i + 1 ELSE s.i
      flag == IF pair /\ i < Len(text) THEN text[i + 1] = "joiner" ELSE s.flag
      len  == s.len + Bytes(text, s.i)
      next == [s EXCEPT !.i = i + 1, !.flag = flag]
  IN IF flag /\ i # Len(text) THEN [next EXCEPT !.len = len]
     ELSE IF s.length + len > max THEN [s EXCEPT !.full = TRUE]
     ELSE [next EXCEPT !.len = 0, !.length = @ + len, !.kept = i]

SubstringByByte(text, max) ==
  LET after[n \in 0..Len(text)] ==
        IF n = 0 THEN [i |-> 1, flag |-> FALSE, len |-> 0, length |-> 0, kept |-> 0,
                       full |-> FALSE]
        ELSE IF after[n - 1].full \/ after[n - 1].i > Len(text) THEN after[n - 1]
        ELSE NextCharacter(text, max, after[n - 1])
  IN SubSeq(text, 1, after[Len(text)].kept)

\* String.toLowerCase(), where a letter may become two; others keep their size.
LowerCase(text) ==
  LET lower[i \in 0..Len(text)] ==
        IF i = 0 THEN <<>>
        ELSE lower[i - 1] \o (IF text[i] = "dotted" THEN <<"a", "w">> ELSE <<text[i]>>)
  IN lower[Len(text)]

\* String.substring(), which ends with the text.
Substring(text, first, last) == SubSeq(text, first, IF last <= Len(text) THEN last ELSE Len(text))

\* String.split(): the text is read to its end, where `from` is the beginning of
\* the piece after the last separator.
Split(text, separator) ==
  LET n == Len(separator)
      read[i \in 0..Len(text)] ==
        IF i = 0 THEN [pieces |-> <<>>, from |-> 1]
        ELSE LET r == read[i - 1]
             IN IF r.from <= i - n + 1 /\ SubSeq(text, i - n + 1, i) = separator
                THEN [pieces |-> Append(r.pieces, SubSeq(text, r.from, i - n)),
                      from |-> i + 1]
                ELSE r
      end == read[Len(text)]
  IN Append(end.pieces, SubSeq(text, end.from, Len(text)))

\* The loops that weigh the words: the index moves on by the separators that
\* split() took away, of one character between words and two after a sentence.
WeighWord(acc, word) ==
  IF word = <<>> THEN [acc EXCEPT !.index = @ + 1]
  ELSE [index |-> acc.index + Len(word) + 1,
        value |-> NORMAL_WORD_WEIGHT,
        words |-> Append(acc.words,
          [word |-> word, index |-> acc.index,
           weight |-> IF word[1] = "t" THEN TERM_WEIGHT ELSE acc.value])]

WeighWords(acc, words) ==
  LET weighed[n \in 0..Len(words)] ==
        IF n = 0 THEN [acc EXCEPT !.value = FIRST_WORD_WEIGHT]
        ELSE WeighWord(weighed[n - 1], words[n])
  IN weighed[Len(words)]

\* Mutant of WeighSentence: split() took two characters, and one is counted.
WeighSentenceShort(acc, sentence) == WeighWords(acc, Split(sentence, <<"blank">>))

WeighSentence(acc, sentence) ==
  [WeighWords(acc, Split(sentence, <<"blank">>)) EXCEPT !.index = @ + 1]

Weighted(text) ==
  LET sentences == Split(text, <<"stop", "blank">>)
      weighed[n \in 0..Len(sentences)] ==
        IF n = 0 THEN [index |-> 0, value |-> 0, words |-> <<>>]
        ELSE WeighSentence(weighed[n - 1], sentences[n])
  IN weighed[Len(sentences)].words

\* The sums of the sliding window, each from the one before it.
WindowWeights(words, size) ==
  LET first[n \in 0..size] == IF n = 0 THEN 0 ELSE first[n - 1] + words[n].weight
      curSum[k \in 0..(Len(words) - size)] ==
        IF k = 0 THEN first[size]
        ELSE curSum[k - 1] - words[k].weight + words[k + size].weight
  IN curSum

\* The last of the windows with the largest sum, found backwards; the first one
\* without a match.
MaxSumIndex(words, sums, last) ==
  LET best[n \in 0..(last + 1)] ==
        IF n = 0 THEN [sum |-> 0, at |-> 0]
        ELSE LET k == last + 1 - n
             IN IF sums[k] > best[n - 1].sum THEN [sum |-> sums[k], at |-> k]
                ELSE best[n - 1]
  IN IF \A i \in DOMAIN words : words[i].weight # TERM_WEIGHT THEN 0
     ELSE best[last + 1].at

IsCut(w) == w.weight # TERM_WEIGHT /\ Len(w.word) >= LongWord /\ "w" \in Range(w.word)

\* The words of the window and the text between them, by their positions.
Quote(text, words) ==
  LET teaser[n \in 0..Len(words)] ==
        IF n = 0 THEN [text |-> <<>>, startIndex |-> words[1].index]
        ELSE LET w    == words[n]
                 acc  == teaser[n - 1]
                 end  == w.index + Len(w.word)
                 word == Substring(text, w.index + 1, end)
             IN [text |-> acc.text \o Substring(text, acc.startIndex + 1, w.index)
                            \o (IF IsCut(w) THEN SubstringByByte(word, LongWord) ELSE word),
                 startIndex |-> end]
  IN teaser[Len(words)].text

TeaserWords(text) ==
  LET words == Weighted(LowerCase(text))
      size  == Min({Len(words), TEASER_MAX_WORDS})
      last  == Len(words) - size
      first == MaxSumIndex(words, WindowWeights(words, size), last)
  IN SubSeq(words, first + 1, first + size)

MakeTeaser(text) ==
  LET words == TeaserWords(text)
  IN IF words = <<>> THEN SubSeq(text, 1, Min({Len(text), TEASER_MAX_WORDS * 10}))
     ELSE Quote(text, words)

TeaserNext ==
  /\ quoted = NotYet
  /\ quoted' = IF limit = 0 THEN MakeTeaser(page) ELSE SubstringByByte(page, limit)
  /\ UNCHANGED <<page, limit>>
-----------------------------------------------------------------------------
Done == quoted # NotYet

\* The words of the page by the text around them: between blanks, and without
\* the full stop of a sentence; the first of a sentence is worth more.
Separator(i) == page[i] = "blank" \/ (page[i] = "stop" /\ i < Len(page) /\ page[i + 1] = "blank")
Starts == {i \in DOMAIN page : ~Separator(i) /\ (i = 1 \/ Separator(i - 1))}
End(i) == Max({j \in i..Len(page) : \A k \in i..j : ~Separator(k)})
Before(i) == {k \in 1..(i - 1) : \A j \in k..(i - 1) : Separator(j)}
Opens(i) == Before(i) = 1..(i - 1) \/ \E k \in Before(i) : page[k] = "stop"
Worth(i) == IF page[i] = "t" THEN TERM_WEIGHT
            ELSE IF Opens(i) THEN FIRST_WORD_WEIGHT ELSE NORMAL_WORD_WEIGHT

\* The words of a window by its first one, and the sum of their weights.
Window(i) ==
  {j \in Starts : i <= j /\ Cardinality({k \in Starts : i <= k /\ k < j}) < TEASER_MAX_WORDS}
Windows ==
  {i \in Starts : Cardinality(Window(i)) = Min({Cardinality(Starts), TEASER_MAX_WORDS})}
Sum(W) ==
  LET Number(x) == Cardinality({i \in W : Worth(i) = x})
  IN TERM_WEIGHT * Number(TERM_WEIGHT) + FIRST_WORD_WEIGHT * Number(FIRST_WORD_WEIGHT)
       + NORMAL_WORD_WEIGHT * Number(NORMAL_WORD_WEIGHT)

\* "Then use the window that got the maximum sum.  If there are multiple
\* maximas, then get the last one."
Best ==
  IF \A i \in Starts : page[i] # "t" THEN Min(Starts)
  ELSE Max({i \in Windows : \A j \in Windows : Sum(Window(j)) <= Sum(Window(i))})

Cuts(i) == page[i] # "t" /\ End(i) - i + 1 >= LongWord /\ \E k \in i..End(i) : page[k] = "w"

\* The excerpt is the passage of the page from the first to the last word of
\* the best window, letter by letter: the positions counted while splitting
\* are those of the words, and no window with a larger sum is passed over.
\* (A window with a word that is cut quotes less; of a page with a letter that
\* becomes two in lower case, see TermsAreEnclosed.)
TeaserIsBestPassage ==
  /\ Done /\ limit = 0 /\ Starts # {}
  /\ "dotted" \notin Range(page) /\ ~(\E i \in Window(Best) : Cuts(i))
  => quoted = SubSeq(page, Best, End(Max(Window(Best))))

\* "Enclose the terms in <b>": what the tags enclose, which is a word that
\* matches quoted by its position, is a word that matches, on every page.
TermsAreEnclosed ==
  Done /\ limit = 0 =>
    \A w \in Range(TeaserWords(page)) : w.weight = TERM_WEIGHT =>
      LET enclosed == Substring(page, w.index + 1, w.index + Len(w.word))
      IN enclosed # <<>> /\ enclosed[1] = "t"

\* Where a character ends, a joined emoji being one: not between two surrogates
\* and on neither side of a joiner.
Whole(n) ==
  \/ n \in {0, Len(page)}
  \/ page[n] \notin {"high", "joiner"} /\ page[n + 1] # "joiner"

\* The joiners of the word join pairs of surrogates.
PairsJoined ==
  \A i \in DOMAIN page :
    page[i] = "joiner" => i \in 2..(Len(page) - 1) /\ page[i - 1] = "low" /\ page[i + 1] = "high"

BytesUpTo(n) ==
  LET bytes[i \in 0..Len(page)] ==
        IF i = 0 THEN 0 ELSE bytes[i - 1] + (IF page[i] = "low" THEN 0 ELSE Bytes(page, i))
  IN bytes[n]

\* Half of a pair is never shown, which is why substring() was not used: a long
\* word is cut to a beginning within the limit that ends with a whole code
\* point.  Where emoji are joined that are pairs of surrogates, as most are, it
\* is the longest beginning of whole characters, joined emoji included.
CutKeepsCharacters ==
  Done /\ limit > 0 =>
    /\ \E n \in 0..Len(page) :
         /\ quoted = SubSeq(page, 1, n) /\ BytesUpTo(n) <= limit
         /\ n > 0 => page[n] # "high"
    /\ PairsJoined =>
         quoted = SubSeq(page, 1, Max({n \in 0..Len(page) : Whole(n) /\ BytesUpTo(n) <= limit}))
=============================================================================
