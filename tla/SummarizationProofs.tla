------------------------ MODULE SummarizationProofs ------------------------
(***************************************************************************)
(* What the schema stores, for texts and limits of any length.             *)
(***************************************************************************)
EXTENDS Summarization, SequenceTheorems, WellFoundedInduction, TLAPS

(* Every set of positions has a first and a last one. *)
LEMMA FirstPosition ==
  ASSUME NEW S \in SUBSET Nat, S # {}
  PROVE  \E x \in S : \A y \in S : x <= y
<1>1. PICK x \in S : \A y \in S : <<y, x>> \notin OpToRel(<, Nat)
  BY NatLessThanWellFounded, WFMin
<1>2. \A y \in S : ~(y < x)
  BY <1>1 DEF OpToRel
<1> QED BY <1>2

LEMMA LastPosition ==
  ASSUME NEW n \in Nat, NEW S \in SUBSET (1..n), S # {}
  PROVE  \E x \in S : \A y \in S : y <= x
<1> DEFINE T == {n - x : x \in S}
<1>1. T \in SUBSET Nat /\ T # {}
  <2>1. \A x \in S : x \in Nat /\ x <= n /\ n - x \in Nat
    OBVIOUS
  <2> QED BY <2>1
<1>2. PICK t \in T : \A u \in T : t <= u
  <2> HIDE DEF T
  <2> QED BY <1>1, FirstPosition
<1>3. PICK x \in S : t = n - x
  BY <1>2
<1>4. \A y \in S : n - x <= n - y
  BY <1>2, <1>3
<1> QED BY <1>4

LEMMA MinMax ==
  ASSUME NEW n \in Nat, NEW S \in SUBSET (1..n), S # {}
  PROVE  /\ Min(S) \in S /\ Max(S) \in S
         /\ \A x \in S : Min(S) <= x /\ x <= Max(S)
<1>1. \E x \in S : \A y \in S : x <= y
  BY FirstPosition
<1>2. \E x \in S : \A y \in S : x >= y
  BY LastPosition
<1> QED BY <1>1, <1>2 DEF Min, Max

(* strip cuts off blanks only, and every blank at the ends. *)
LEMMA StripIsACore ==
  ASSUME NEW text \in Seq(Chars), Strip(text) # <<>>
  PROVE  \E i, j \in 1..Len(text) :
           /\ i <= j /\ Strip(text) = SubSeq(text, i, j)
           /\ text[i] # Blank /\ text[j] # Blank
           /\ \A k \in DOMAIN text : k < i \/ k > j => text[k] = Blank
<1> DEFINE marks == {i \in DOMAIN text : text[i] # Blank}
<1>1. Len(text) \in Nat /\ DOMAIN text = 1..Len(text) /\ marks \in SUBSET (1..Len(text))
  BY LenProperties
<1>2. marks # {} /\ Strip(text) = SubSeq(text, Min(marks), Max(marks))
  BY DEF Strip
<1>3. /\ Min(marks) \in marks /\ Max(marks) \in marks
      /\ \A x \in marks : Min(marks) <= x /\ x <= Max(marks)
  <2> HIDE DEF marks
  <2> QED BY <1>1, <1>2, MinMax
<1>4. \A k \in DOMAIN text : k < Min(marks) \/ k > Max(marks) => text[k] = Blank
  <2>1. (\A k \in DOMAIN text : k \notin marks => text[k] = Blank) /\ \A k \in marks : k \in Nat
    BY <1>1
  <2> HIDE DEF marks
  <2>2. ASSUME NEW x \in marks PROVE ~(x < Min(marks)) /\ ~(x > Max(marks))
    <3>1. x \in Nat /\ Min(marks) \in Nat /\ Max(marks) \in Nat
      BY <1>3, <2>1
    <3>2. Min(marks) <= x /\ x <= Max(marks)
      BY <1>3
    <3> QED BY <3>1, <3>2
  <2> QED BY <2>1, <2>2
<1> QED BY <1>1, <1>2, <1>3, <1>4
-----------------------------------------------------------------------------
(* The invariant: what is stored is that core, of a text within the limit. *)
SubmissionInv ==
  /\ raw \in Seq(Chars)
  /\ stage \in {"accepted", "summarised"} =>
       Len(raw) <= MaxLength /\ content = Strip(raw) /\ content # <<>>

LEMMA SubmissionInit == Init => SubmissionInv
BY DEF Init, SubmissionInv

LEMMA SubmissionStep == SubmissionInv /\ [Next]_vars => SubmissionInv'
<1> SUFFICES ASSUME SubmissionInv, [Next]_vars PROVE SubmissionInv'
  OBVIOUS
<1>1. CASE Validate
  BY <1>1, LenProperties DEF Validate, SubmissionInv
<1>2. CASE Summarise
  BY <1>2 DEF Summarise, SubmissionInv
<1>3. CASE UNCHANGED vars
  BY <1>3 DEF vars, SubmissionInv
<1> QED BY <1>1, <1>2, <1>3 DEF Next

LEMMA CoresAreCanonical == SubmissionInv => StoredTextsAreCanonical
<1> SUFFICES ASSUME SubmissionInv, stage \in {"accepted", "summarised"}
             PROVE  StoredTextsAreCanonical
  BY DEF StoredTextsAreCanonical
<1>1. /\ raw \in Seq(Chars) /\ Len(raw) <= MaxLength
      /\ content = Strip(raw) /\ content # <<>>
  BY DEF SubmissionInv
<1>2. PICK i, j \in 1..Len(raw) :
        /\ i <= j /\ content = SubSeq(raw, i, j)
        /\ raw[i] # Blank /\ raw[j] # Blank
        /\ \A k \in DOMAIN raw : k < i \/ k > j => raw[k] = Blank
  BY <1>1, StripIsACore
<1>3. Len(raw) \in Nat /\ DOMAIN raw = 1..Len(raw) /\ MaxLength \in Nat
  BY <1>1, LenProperties, SummarizationAssumption
<1>4. /\ Len(content) = j - i + 1
      /\ \A k \in 1..(j - i + 1) : content[k] = raw[i + k - 1]
  <2>1. \A k \in i..j : raw[k] \in Chars
    BY <1>1, <1>3
  <2> QED BY <1>2, <2>1, SubSeqProperties
<1>5. content[1] # Blank /\ content[Len(content)] # Blank
  BY <1>2, <1>3, <1>4
<1>6. Len(content) <= MaxLength /\ i + Len(content) - 1 = j
  BY <1>1, <1>2, <1>3, <1>4
<1>7. \A k \in DOMAIN raw : k < i \/ k >= i + Len(content) => raw[k] = Blank
  BY <1>2, <1>3, <1>4
<1> QED BY <1>1, <1>2, <1>3, <1>5, <1>6, <1>7 DEF StoredTextsAreCanonical

(* A stored text is never blank and never too long; it begins and ends with    *)
(* characters of its own, and it is the text that was sent but for blanks at   *)
(* both ends: for texts of any length and any limit of the field.              *)
THEOREM StoredIsCanonical == Spec => []StoredTextsAreCanonical
BY SubmissionInit, SubmissionStep, CoresAreCanonical, PTL DEF Spec
=============================================================================
