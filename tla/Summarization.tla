--------------------------- MODULE Summarization ---------------------------
(***************************************************************************)
(* What becomes of one submitted text: the schema validates and strips it, *)
(* the mock summariser splits it into sentences and reports on it.  Three  *)
(* kinds of characters make all the difference: blanks (what strip, split  *)
(* and \s agree on), sentence ends, and all the others.                    *)
(***************************************************************************)
EXTENDS Integers, SequencesExt

CONSTANTS MaxText,        \* bound: the longest text a client sends
          MaxLength,      \* max_length of the field
          MaxSentences,   \* _MAX_SUMMARY_SENTENCES
          MaxKeyPoints,   \* _MAX_KEY_POINTS
          CharLimit       \* _SUMMARY_TEXT_CHAR_LIMIT
ASSUME SummarizationAssumption ==
  /\ {MaxText, MaxLength} \subseteq Nat
  /\ {MaxSentences, MaxKeyPoints, CharLimit} \subseteq Nat \ {0}

VARIABLES stage,     \* "sent", "refused", "accepted" or "summarised"
          raw,       \* the field as the client sent it
          content,   \* as it is stored
          summary    \* a SummaryModel

vars == <<stage, raw, content, summary>>

Blank == " "
End == "."
Chars == {Blank, End, "a"}

(* str.strip *)
Strip(text) ==
  LET marks == {i \in DOMAIN text : text[i] # Blank}
  IN IF marks = {} THEN <<>> ELSE SubSeq(text, Min(marks), Max(marks))

(* Where the i-th position begins a run of characters that are (not) blank. *)
StartsRun(text, i) == i = 1 \/ (text[i] = Blank) # (text[i - 1] = Blank)

(* str.split: the words, of which only the number is reported. *)
WordCount(text) ==
  Cardinality({i \in DOMAIN text : text[i] # Blank /\ StartsRun(text, i)})

(* Mutant: any run of blanks ends a sentence. *)
AnyBlanks(text) ==
  {b \in (DOMAIN text) \X (DOMAIN text) :
     /\ b[1] > 1 /\ b[1] <= b[2]
     /\ \A k \in b[1]..b[2] : text[k] = Blank
     /\ text[b[1] - 1] # Blank
     /\ b[2] < Len(text) => text[b[2] + 1] # Blank}

(* What _SENTENCE_BOUNDARY matches: a maximal run of blanks right after an end. *)
Boundaries(text) ==
  {b \in (DOMAIN text) \X (DOMAIN text) :
     /\ b[1] > 1 /\ b[1] <= b[2]
     /\ text[b[1] - 1] = End
     /\ \A k \in b[1]..b[2] : text[k] = Blank
     /\ b[2] < Len(text) => text[b[2] + 1] # Blank}

(* re.split: what lies between the matches. *)
Split(text) ==
  LET starts == {1} \cup {b[2] + 1 : b \in Boundaries(text)}
      ends == {b[1] - 1 : b \in Boundaries(text)} \cup {Len(text)}
      PieceFrom(i) == SubSeq(text, i, Min({j \in ends : j >= i - 1}))
      order == SetToSortSeq(starts, <)
  IN [n \in DOMAIN order |-> PieceFrom(order[n])]

Sentences(text) ==
  LET pieces == Split(Strip(text))
  IN SelectSeq([n \in DOMAIN pieces |-> Strip(pieces[n])], LAMBDA s : s # <<>>)

(* sentences[:limit] or fallback *)
AtMost(limit, pieces) == SubSeq(pieces, 1, IF Len(pieces) < limit THEN Len(pieces) ELSE limit)
FirstOr(limit, pieces, fallback) ==
  IF pieces = <<>> THEN fallback ELSE AtMost(limit, pieces)

(* " ".join *)
Join(pieces) ==
  FlattenSeq([n \in DOMAIN pieces |-> IF n = 1 THEN pieces[n] ELSE <<Blank>> \o pieces[n]])

(* Mutant: nothing bounds the text of the summary but the number of sentences. *)
UncutSummary(text) ==
  LET chosen == FirstOr(MaxSentences, Sentences(text), <<Strip(text)>>)
  IN [ summary_text |-> Join(chosen), word_count |-> WordCount(text),
       character_count |-> Len(text), key_points |-> FirstOr(MaxKeyPoints, Sentences(text), chosen) ]

GenerateMockSummary(text) ==
  LET chosen == FirstOr(MaxSentences, Sentences(text), <<Strip(text)>>)
  IN [ summary_text |-> AtMost(CharLimit, Join(chosen)),
       word_count |-> WordCount(text),
       character_count |-> Len(text),
       key_points |-> FirstOr(MaxKeyPoints, Sentences(text), chosen) ]
-----------------------------------------------------------------------------
Init ==
  /\ stage = "sent"
  /\ \E n \in 0..MaxText : raw \in [1..n -> Chars]
  /\ content = <<>> /\ summary = <<>>

(* Mutant: not_blank returns the value instead of the stripped one. *)
ValidateKeepingBlanks ==
  /\ stage = "sent"
  /\ \/ /\ Len(raw) \in 1..MaxLength /\ Strip(raw) # <<>>
        /\ stage' = "accepted" /\ content' = raw
     \/ /\ Len(raw) \notin 1..MaxLength \/ Strip(raw) = <<>>
        /\ stage' = "refused" /\ UNCHANGED content
  /\ UNCHANGED <<raw, summary>>

(* DocumentCreateRequest: the length as sent, then not_blank.  Refused is a 422. *)
Validate ==
  /\ stage = "sent"
  /\ \/ /\ Len(raw) \in 1..MaxLength /\ Strip(raw) # <<>>
        /\ stage' = "accepted" /\ content' = Strip(raw)
     \/ /\ Len(raw) \notin 1..MaxLength \/ Strip(raw) = <<>>
        /\ stage' = "refused" /\ UNCHANGED content
  /\ UNCHANGED <<raw, summary>>

(* The worker, some time later. *)
Summarise ==
  /\ stage = "accepted"
  /\ stage' = "summarised"
  /\ summary' = GenerateMockSummary(content)
  /\ UNCHANGED <<raw, content>>

Next == Validate \/ Summarise

Spec == Init /\ [][Next]_vars
-----------------------------------------------------------------------------
(* A stored text is a core of what was sent: only blanks were cut off, and all  *)
(* at both ends, so texts that differ in their padding share hash, cache entry   *)
(* and summary.  It is never blank and never longer than the limit.             *)
StoredTextsAreCanonical ==
  stage \in {"accepted", "summarised"} =>
    /\ content # <<>> /\ Len(content) <= MaxLength
    /\ content[1] # Blank /\ content[Len(content)] # Blank
    /\ \E i \in DOMAIN raw :
         /\ content = SubSeq(raw, i, i + Len(content) - 1)
         /\ \A j \in DOMAIN raw : j < i \/ j >= i + Len(content) => raw[j] = Blank

(* The sentences of a stored text are the text cut exactly where a blank follows *)
(* an end: no cut is missed, none is made elsewhere, and no character but blanks *)
(* is lost.                                                                      *)
SentencesAreExact ==
  stage = "summarised" =>
    LET pieces == Sentences(content)
    IN /\ SelectSeq(FlattenSeq(pieces), LAMBDA c : c # Blank)
            = SelectSeq(content, LAMBDA c : c # Blank)
       /\ \A n \in DOMAIN pieces :
            /\ pieces[n] = Strip(pieces[n]) /\ pieces[n] # <<>>
            /\ n < Len(pieces) => pieces[n][Len(pieces[n])] = End
            /\ \A i \in 2..Len(pieces[n]) :
                 pieces[n][i] = Blank => pieces[n][i - 1] # End

(* A summary is never empty and never longer than the limit, and a text without  *)
(* an end is cut as it stands.  The fallbacks are never needed: a stored text    *)
(* has a sentence.  No word is lost or split between sentences.                  *)
SummariesAreBounded ==
  stage = "summarised" =>
    /\ Len(summary.summary_text) \in 1..CharLimit
    /\ Sentences(content) # <<>>
    /\ Len(summary.key_points) \in 1..MaxKeyPoints
    /\ IsPrefix(summary.key_points, Sentences(content))
    /\ End \notin ToSet(content) => summary.summary_text = AtMost(CharLimit, content)
    /\ summary.word_count = WordCount(Join(Sentences(content)))
    /\ summary.character_count = Len(content)
=============================================================================
