--------------------------- MODULE NameValidation ---------------------------
(***************************************************************************)
(* locale::IsNameValid (src/src/libserver/util/Locale.cpp), the nickname   *)
(* check of character creation.  A name is a sequence of letter classes:   *)
(* "K" a Hangul syllable ([가-힣]), "L" a letter of [A-Za-z0-9._-], "X"    *)
(* any other character.  The input is UTF-8, in which a Hangul syllable    *)
(* takes three bytes; in EUC-KR it takes two.                              *)
(***************************************************************************)
EXTENDS Naturals, Sequences, SequencesExt

LetterClasses == {"K", "L", "X"}

EucKrWideByteCount == 2
EucKrNarrowByteCount == 1
MinLatinLetterCount == 3
MinKoreanLetterCount == 2

\* The UTF-8 length of a letter: utext_nativeLength counts UTF-8 bytes.
Utf8Bytes(x) == IF x = "K" THEN 3 ELSE 1

CountOf(name, cls) == Len(SelectSeq(name, LAMBDA x : x = cls))

\* The two counts of countRegexMatches.  Its UErrorCode is declared without
\* an initializer, and uregex_findNext returns FALSE at once when the
\* status it is given already holds a failure code; each count is therefore
\* either the number of matches or zero, depending on the stack contents.
CountOutcomes(name) ==
  { [korean |-> k, latin |-> l] :
      k \in {CountOf(name, "K"), 0}, l \in {CountOf(name, "L"), 0} }

\* Variant: the minimum length check rejects a name of exactly the minimum.
IsNameValidStrictMin(name, maxStringByteCapacity, counts) ==
  LET inputStringLength == FoldLeft(LAMBDA acc, x : acc + Utf8Bytes(x), 0, name)
      isPureKorean == counts.latin = 0 /\ counts.korean > 0
  IN /\ name /= <<>>
     /\ CountOf(name, "X") = 0
     /\ counts.korean * EucKrWideByteCount + counts.latin * EucKrNarrowByteCount
          <= maxStringByteCapacity
     /\ inputStringLength > IF isPureKorean THEN MinKoreanLetterCount ELSE MinLatinLetterCount

\* IsNameValid for one outcome of the two counts.
IsNameValidWith(name, maxStringByteCapacity, counts) ==
  LET byteCount == counts.korean * EucKrWideByteCount
                     + counts.latin * EucKrNarrowByteCount
      isPureKorean == counts.latin = 0 /\ counts.korean > 0
      minLetterCount == IF isPureKorean THEN MinKoreanLetterCount
                                        ELSE MinLatinLetterCount
      inputStringLength == FoldLeft(LAMBDA acc, x : acc + Utf8Bytes(x), 0, name)
  IN /\ name /= <<>>
     /\ CountOf(name, "X") = 0
     /\ byteCount <= maxStringByteCapacity
     /\ inputStringLength >= minLetterCount

\* The verdicts IsNameValid can return for a name.
IsNameValidOutcomes(name, maxStringByteCapacity) ==
  { IsNameValidWith(name, maxStringByteCapacity, counts) : counts \in CountOutcomes(name) }

\* The nickname rule of the protocol: Hangul syllables and [A-Za-z0-9._-]
\* only, at most the capacity in EUC-KR bytes, and at least three letters,
\* or two when the name is pure Hangul.
NicknameRule(name, maxStringByteCapacity) ==
  LET k == CountOf(name, "K")
      l == CountOf(name, "L")
  IN /\ name /= <<>>
     /\ CountOf(name, "X") = 0
     /\ k * EucKrWideByteCount + l * EucKrNarrowByteCount <= maxStringByteCapacity
     /\ k + l >= IF l = 0 THEN MinKoreanLetterCount ELSE MinLatinLetterCount
=============================================================================
