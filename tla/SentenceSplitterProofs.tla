------------------------ MODULE SentenceSplitterProofs ------------------------
(***************************************************************************)
(* Proofs about SentenceSplitter.  WholeFrom is recursive, so the proofs   *)
(* need induction over positions: it is done by the least counterexample,  *)
(* a set of naturals that is not empty having a least element.             *)
(***************************************************************************)
EXTENDS SentenceSplitter, SequenceTheorems, WellFoundedInduction, TLAPS

\* A set of naturals that is not empty has a least element.
LEMMA LeastNatural ==
  ASSUME NEW T \in SUBSET Nat, T # {}
  PROVE  \E n \in T : \A m \in T : n <= m
<1> DEFINE Less == {p \in Nat \X Nat : p[1] < p[2]}
<1>1. IsWellFoundedOn(Less, Nat)
  <2>1. OpToRel(<, Nat) = Less
    BY DEF OpToRel
  <2> QED BY <2>1, NatLessThanWellFounded, Zenon
<1>2. PICK n \in T : \A m \in T : ~ (<<m, n>> \in Less)
  <2> HIDE DEF Less
  <2> QED BY <1>1, WFMin
<1>3. ASSUME NEW m \in T PROVE n <= m
  <2>1. n \in Nat /\ m \in Nat
    OBVIOUS
  <2>2. m < n => <<m, n>> \in Less
    <3> SUFFICES ASSUME m < n PROVE <<m, n>> \in Less
      OBVIOUS
    <3> DEFINE p == <<m, n>>
    <3>1. p \in Nat \X Nat /\ p[1] < p[2]
      BY <2>1
    <3> QED BY <3>1, Zenon
  <2>3. ~ (m < n)
    <3> HIDE DEF Less
    <3> QED BY <2>2, <1>2
  <2> QED BY <2>1, <2>3
<1> QED BY <1>3

\* Min of such a set is that element.
LEMMA MinOfNaturals ==
  ASSUME NEW T \in SUBSET Nat, T # {}
  PROVE  Min(T) \in T /\ \A m \in T : Min(T) <= m
BY LeastNatural DEF Min

(***************************************************************************)
(* WholeFrom satisfies its equation.                                       *)
(***************************************************************************)
\* What WholeFrom is at b, if w is what it is further on.
PieceFrom(w, b) ==
  LET e == Endings(b, Len(reply)) IN
    IF e # {} THEN <<<<b + 1, Min(e)>>>> \o w[Min(e)]
    ELSE IF Stripped(b) >= MinChunk THEN <<<<b + 1, Len(reply)>>>> ELSE <<>>

\* An ending that counts lies behind the position it is looked for from.
LEMMA EndingsAhead ==
  ASSUME reply \in Replies, NEW b \in Positions, NEW e \in Nat, e <= Len(reply),
         Endings(b, e) # {}
  PROVE  /\ Min(Endings(b, e)) \in Endings(b, e)
         /\ \A i \in Endings(b, e) : Min(Endings(b, e)) <= i
         /\ Min(Endings(b, e)) \in Positions
         /\ Min(Endings(b, e)) > b
         /\ Min(Endings(b, e)) <= e
<1>1. Endings(b, e) \in SUBSET Nat
  BY SplitterAssumption DEF Endings, Positions
<1>2. Len(reply) \in Nat /\ Len(reply) <= MaxLength
  BY SplitterAssumption DEF Replies
<1>3. /\ Min(Endings(b, e)) \in Endings(b, e)
      /\ \A i \in Endings(b, e) : Min(Endings(b, e)) <= i
  BY <1>1, MinOfNaturals
<1>4. Min(Endings(b, e)) > b /\ Min(Endings(b, e)) <= e /\ Min(Endings(b, e)) \in Nat
  BY <1>3, SplitterAssumption DEF Endings, Positions
<1> QED BY <1>2, <1>3, <1>4, SplitterAssumption DEF Positions

\* The positions that are at most n from the end.
LastPositions(n) == MaxLength - n .. MaxLength

LEMMA WholeExists ==
  ASSUME reply \in Replies
  PROVE  \E w : w = [b \in Positions |-> PieceFrom(w, b)]
<1> DEFINE Solves(w, n) == w = [b \in LastPositions(n) |-> PieceFrom(w, b)]
           Bad == {n \in 0 .. MaxLength : ~ \E w : Solves(w, n)}
<1>1. Bad = {}
  <2> SUFFICES ASSUME Bad # {} PROVE FALSE
    OBVIOUS
  <2>1. Bad \in SUBSET Nat
    BY SplitterAssumption
  <2>2. PICK n \in Bad : \A m \in Bad : n <= m
    BY <2>1, LeastNatural
  <2>3. n \in 0 .. MaxLength
    BY <2>2
  <2>4. PICK v : \A b \in Positions : b > MaxLength - n =>
                   /\ b \in DOMAIN v
                   /\ v[b] = PieceFrom(v, b)
    <3>1. CASE n = 0
      BY <3>1, SplitterAssumption DEF Positions
    <3>2. CASE n # 0
      <4>1. n - 1 \in 0 .. MaxLength /\ n - 1 \notin Bad
        BY <2>2, <2>3, <3>2, SplitterAssumption
      <4>2. PICK v : Solves(v, n - 1)
        BY <4>1
      <4> HIDE DEF Bad
      <4>3. ASSUME NEW b \in Positions, b > MaxLength - n
            PROVE  b \in DOMAIN v /\ v[b] = PieceFrom(v, b)
        <5>1. b \in LastPositions(n - 1)
          BY <4>3, <2>3, SplitterAssumption DEF LastPositions, Positions
        <5>2. DOMAIN v = LastPositions(n - 1) /\ \A c \in LastPositions(n - 1) : v[c] = PieceFrom(v, c)
          BY <4>2
        <5> QED BY <5>1, <5>2
      <4> QED BY <4>3
    <3> QED BY <3>1, <3>2
  <2> DEFINE w == [b \in LastPositions(n) |-> PieceFrom(v, b)]
  <2>5. ASSUME NEW b \in LastPositions(n)
        PROVE  PieceFrom(w, b) = PieceFrom(v, b)
    <3>1. b \in Positions
      BY <2>3, <2>5, SplitterAssumption DEF LastPositions, Positions
    <3>2. CASE Endings(b, Len(reply)) = {}
      BY <3>2 DEF PieceFrom
    <3>3. CASE Endings(b, Len(reply)) # {}
      <4> DEFINE i == Min(Endings(b, Len(reply)))
      <4>0. Len(reply) \in Nat
        BY SplitterAssumption DEF Replies
      <4>1. i \in Positions /\ i > b
        BY <3>1, <3>3, <4>0, EndingsAhead
      <4>2. i > MaxLength - n /\ i \in LastPositions(n)
        BY <4>1, <2>3, <2>5, SplitterAssumption DEF LastPositions, Positions
      <4> HIDE DEF i
      <4>3. w[i] = PieceFrom(v, i) /\ v[i] = PieceFrom(v, i)
        BY <4>1, <4>2, <2>4
      <4> QED BY <4>3 DEF PieceFrom, i
    <3> QED BY <3>2, <3>3
  <2>6. Solves(w, n)
    <3> HIDE DEF w
    <3>1. w = [b \in LastPositions(n) |-> PieceFrom(v, b)]
      BY DEF w
    <3> QED BY <2>5, <3>1
  <2> QED BY <2>2, <2>6
<1>2. PICK w : Solves(w, MaxLength)
  BY <1>1, SplitterAssumption
<1>3. LastPositions(MaxLength) = Positions
  BY SplitterAssumption DEF LastPositions, Positions
<1> QED BY <1>2, <1>3

LEMMA WholeEquation ==
  ASSUME reply \in Replies
  PROVE  \A b \in Positions : WholeFrom[b] = PieceFrom(WholeFrom, b)
<1> DEFINE Eq(w) == w = [b \in Positions |-> PieceFrom(w, b)]
<1>1. \E w : Eq(w)
  BY WholeExists
<1>2. WholeFrom = CHOOSE w : Eq(w)
  BY DEF WholeFrom, PieceFrom
<1>3. Eq(WholeFrom)
  <2> HIDE DEF Eq
  <2> QED BY <1>1, <1>2
<1> QED BY <1>3

Pieces == Nat \X Nat

\* What is yielded from any position on is a sequence of pieces.
LEMMA WholeTyped ==
  ASSUME reply \in Replies
  PROVE  \A b \in Positions : WholeFrom[b] \in Seq(Pieces)
<1> DEFINE Bad == {n \in 0 .. MaxLength : WholeFrom[MaxLength - n] \notin Seq(Pieces)}
<1>1. Len(reply) \in Nat
  BY SplitterAssumption DEF Replies
<1>2. Bad = {}
  <2> SUFFICES ASSUME Bad # {} PROVE FALSE
    OBVIOUS
  <2>1. Bad \in SUBSET Nat
    BY SplitterAssumption
  <2>2. PICK n \in Bad : \A m \in Bad : n <= m
    BY <2>1, LeastNatural
  <2> DEFINE b == MaxLength - n
             i == Min(Endings(b, Len(reply)))
  <2>3. b \in Positions /\ b \in Nat
    BY <2>2, SplitterAssumption DEF Positions
  <2>4. WholeFrom[b] = PieceFrom(WholeFrom, b)
    BY <2>3, WholeEquation
  <2>5. CASE Endings(b, Len(reply)) = {}
    <3>1. <<b + 1, Len(reply)>> \in Pieces
      BY <1>1, <2>3 DEF Pieces
    <3>2. WholeFrom[b] \in Seq(Pieces)
      <4> HIDE DEF b
      <4> QED BY <2>4, <2>5, <3>1 DEF PieceFrom
    <3> QED BY <2>2, <3>2
  <2>6. CASE Endings(b, Len(reply)) # {}
    <3>1. i \in Positions /\ i > b
      <4> HIDE DEF b
      <4> QED BY <1>1, <2>3, <2>6, EndingsAhead
    <3>2. MaxLength - i \in 0 .. MaxLength /\ MaxLength - i < n
      <4> HIDE DEF i
      <4> QED BY <2>2, <3>1, SplitterAssumption DEF Positions
    <3>3. MaxLength - (MaxLength - i) = i
      <4> HIDE DEF i
      <4> QED BY <3>1, SplitterAssumption DEF Positions
    <3>4. WholeFrom[i] \in Seq(Pieces)
      <4> HIDE DEF i, b
      <4>1. MaxLength - i \notin Bad
        <5> HIDE DEF Bad
        <5> QED BY <2>1, <2>2, <3>2
      <4> QED BY <4>1, <3>2, <3>3
    <3>5. <<b + 1, i>> \in Pieces
      <4> HIDE DEF b, i
      <4> QED BY <2>3, <3>1 DEF Pieces, Positions
    <3>6. WholeFrom[b] = <<<<b + 1, i>>>> \o WholeFrom[i]
      <4> HIDE DEF b
      <4> QED BY <2>4, <2>6 DEF PieceFrom
    <3>7. <<<<b + 1, i>>>> \in Seq(Pieces)
      <4> HIDE DEF b, i
      <4> QED BY <3>5
    <3>8. WholeFrom[b] \in Seq(Pieces)
      <4> HIDE DEF b, i
      <4> QED BY <3>4, <3>6, <3>7, ConcatProperties
    <3> QED BY <2>2, <3>8
  <2> QED BY <2>5, <2>6
<1>3. ASSUME NEW b \in Positions
      PROVE  WholeFrom[b] \in Seq(Pieces)
  <2>1. MaxLength - b \in 0 .. MaxLength /\ MaxLength - (MaxLength - b) = b
    BY SplitterAssumption DEF Positions
  <2> QED BY <1>2, <2>1
<1> QED BY <1>3

\* It depends on the reply only.
LEMMA WholeUnchanged ==
  ASSUME reply' = reply
  PROVE  WholeFrom' = WholeFrom
BY SMT DEF WholeFrom, Endings, Stripped

(***************************************************************************)
(* The invariant.                                                          *)
(***************************************************************************)
TypeInv ==
  /\ reply \in Replies
  /\ arrived \in 0 .. Len(reply) /\ start \in 0 .. Len(reply)
  /\ spoken \in Seq(Pieces)
  /\ pc \in {"token", "extract", "done", "failed"}
  /\ pc \in {"token", "extract"} => start <= arrived

\* What has been spoken and what follows from there are the whole.
WholeInv ==
  /\ WholeFrom[0] = IF pc = "done" THEN spoken ELSE spoken \o WholeFrom[start]
  /\ pc = "token" => Endings(start, arrived) = {}

SplitterInv == TypeInv /\ WholeInv

LEMMA LengthType ==
  ASSUME reply \in Replies
  PROVE  Len(reply) \in Nat /\ Len(reply) <= MaxLength
BY SplitterAssumption DEF Replies

LEMMA InitSplitter == Init => SplitterInv
<1> SUFFICES ASSUME Init PROVE SplitterInv
  OBVIOUS
<1>1. TypeInv
  BY LengthType DEF Init, TypeInv
<1>2. 0 \in Positions
  BY SplitterAssumption DEF Positions
<1>3. WholeFrom[0] \in Seq(Pieces)
  BY <1>2, WholeTyped DEF Init
<1>4. Endings(start, arrived) = {}
  BY SplitterAssumption DEF Init, Endings
<1>5. WholeFrom[0] = spoken \o WholeFrom[start]
  BY <1>3, ConcatEmptySeq DEF Init
<1> QED BY <1>1, <1>4, <1>5 DEF SplitterInv, WholeInv, Init

LEMMA PieceAppended ==
  ASSUME NEW s \in Seq(Pieces), NEW p \in Pieces
  PROVE  Append(s, p) = s \o <<p>> /\ Append(s, p) \in Seq(Pieces)
OBVIOUS

\* One piece moves from what follows to what has been spoken.
LEMMA PieceMoves ==
  ASSUME NEW s \in Seq(Pieces), NEW p \in Pieces, NEW t \in Seq(Pieces)
  PROVE  s \o (<<p>> \o t) = Append(s, p) \o t
<1>1. <<p>> \in Seq(Pieces) /\ Append(s, p) = s \o <<p>>
  BY PieceAppended
<1> QED BY <1>1, ConcatAssociative

LEMMA StepSplitter == SplitterInv /\ [Next]_vars => SplitterInv'
<1> SUFFICES ASSUME SplitterInv, [Next]_vars PROVE SplitterInv'
  OBVIOUS
<1> USE DEF SplitterInv
<1>0. /\ Len(reply) \in Nat /\ Len(reply) <= MaxLength
      /\ start \in Positions /\ 0 \in Positions
      /\ WholeFrom[0] \in Seq(Pieces) /\ WholeFrom[start] \in Seq(Pieces)
  <2>1. Len(reply) \in Nat /\ Len(reply) <= MaxLength
    BY LengthType DEF TypeInv
  <2>2. start \in Positions /\ 0 \in Positions
    BY <2>1, SplitterAssumption DEF TypeInv, Positions
  <2> QED BY <2>1, <2>2, WholeTyped DEF TypeInv
<1>1. ASSUME NEW n \in arrived + 1 .. Len(reply), Token(n)
      PROVE  SplitterInv'
  <2>1. TypeInv'
    BY <1>0, <1>1 DEF Token, TypeInv
  <2>2. WholeFrom' = WholeFrom
    BY <1>1, WholeUnchanged DEF Token
  <2> QED BY <1>1, <2>1, <2>2 DEF Token, WholeInv
<1>2. CASE ExtractSentence
  <2>0. WholeFrom' = WholeFrom
    BY <1>2, WholeUnchanged DEF ExtractSentence
  <2>1. CASE Endings(start, arrived) = {}
    <3>1. TypeInv'
      BY <1>0, <1>2, <2>1 DEF ExtractSentence, TypeInv
    <3>2. Endings(start, arrived)' = Endings(start, arrived)
      BY <1>2, <2>1 DEF ExtractSentence, Endings
    <3> QED BY <1>2, <2>0, <2>1, <3>1, <3>2 DEF ExtractSentence, WholeInv
  <2>2. CASE Endings(start, arrived) # {}
    <3> DEFINE i == Min(Endings(start, arrived))
               j == Min(Endings(start, Len(reply)))
    <3>1. /\ i \in Endings(start, arrived)
          /\ \A k \in Endings(start, arrived) : i <= k
          /\ i \in Positions /\ i > start /\ i <= arrived
      BY <1>0, <2>2, EndingsAhead DEF TypeInv
    <3>2. i \in Endings(start, Len(reply))
      <4> HIDE DEF i
      <4> QED BY <1>0, <3>1 DEF Endings, TypeInv, Positions
    <3>3. /\ j \in Endings(start, Len(reply))
          /\ \A k \in Endings(start, Len(reply)) : j <= k
          /\ j \in Positions
      <4> HIDE DEF i
      <4> QED BY <1>0, <3>2, EndingsAhead DEF TypeInv
    <3>4. j \in Endings(start, arrived)
      <4> HIDE DEF i, j
      <4> QED BY <1>0, <3>1, <3>2, <3>3 DEF Endings, TypeInv, Positions
    <3>5. i = j
      <4> HIDE DEF i, j
      <4> QED BY <3>1, <3>2, <3>3, <3>4 DEF Positions
    <3>6. start' = i /\ spoken' = Append(spoken, <<start + 1, i>>) /\ pc' = "extract"
          /\ pc = "extract" /\ reply' = reply /\ arrived' = arrived
      BY <1>2, <2>2 DEF ExtractSentence
    <3>7. WholeFrom[start] = <<<<start + 1, i>>>> \o WholeFrom[i]
      <4>1. WholeFrom[start] = PieceFrom(WholeFrom, start)
        BY <1>0, WholeEquation DEF TypeInv
      <4> HIDE DEF i
      <4> QED BY <4>1, <3>2, <3>5 DEF PieceFrom
    <3> HIDE DEF i, j
    <3>8. <<start + 1, i>> \in Pieces /\ WholeFrom[i] \in Seq(Pieces)
      BY <1>0, <3>1, WholeTyped DEF Pieces, Positions, TypeInv
    <3>9. spoken \o WholeFrom[start] = Append(spoken, <<start + 1, i>>) \o WholeFrom[i]
      BY <3>7, <3>8, PieceMoves DEF TypeInv
    <3>10. TypeInv'
      BY <1>0, <3>1, <3>6, <3>8 DEF TypeInv, Positions
    <3> QED BY <2>0, <3>6, <3>9, <3>10 DEF WholeInv
  <2> QED BY <2>1, <2>2
<1>3. CASE Finish
  <2>0. WholeFrom' = WholeFrom
    BY <1>3, WholeUnchanged DEF Finish
  <2>1. Endings(start, Len(reply)) = {}
    BY <1>3 DEF Finish, WholeInv
  <2>2. WholeFrom[start] = PieceFrom(WholeFrom, start)
    BY <1>0, WholeEquation DEF TypeInv
  <2>3. CASE Stripped(start) >= MinChunk
    <3>1. WholeFrom[start] = <<<<start + 1, Len(reply)>>>>
      BY <2>1, <2>2, <2>3 DEF PieceFrom
    <3>2. <<start + 1, Len(reply)>> \in Pieces
      BY <1>0 DEF Pieces, Positions, TypeInv
    <3> DEFINE p == <<start + 1, Len(reply)>>
    <3>3. spoken' = Append(spoken, p)
      BY <1>3, <2>3 DEF Finish
    <3>4. p \in Pieces
      BY <3>2
    <3>5. Append(spoken, p) = spoken \o <<p>> /\ Append(spoken, p) \in Seq(Pieces)
      <4> HIDE DEF p
      <4> QED BY <3>4, PieceAppended DEF TypeInv
    <3>6. spoken' = spoken \o WholeFrom[start]
      BY <3>1, <3>3, <3>5
    <3>7. TypeInv'
      <4>1. spoken' \in Seq(Pieces)
        BY <3>3, <3>5
      <4> QED BY <1>0, <1>3, <2>3, <4>1 DEF Finish, TypeInv
    <3> QED BY <1>3, <2>0, <3>6, <3>7 DEF Finish, WholeInv
  <2>4. CASE ~ (Stripped(start) >= MinChunk)
    <3>1. WholeFrom[start] = <<>>
      BY <2>1, <2>2, <2>4 DEF PieceFrom
    <3>2. spoken \o WholeFrom[start] = spoken
      BY <3>1, ConcatEmptySeq DEF TypeInv
    <3>3. TypeInv'
      BY <1>0, <1>3, <2>4 DEF Finish, TypeInv
    <3> QED BY <1>3, <2>0, <2>4, <3>2, <3>3 DEF Finish, WholeInv
  <2> QED BY <2>3, <2>4
<1>4. CASE Fail
  <2>1. WholeFrom' = WholeFrom
    BY <1>4, WholeUnchanged DEF Fail
  <2> QED BY <1>0, <1>4, <2>1 DEF Fail, WholeInv, TypeInv
<1>5. CASE UNCHANGED vars
  <2>1. WholeFrom' = WholeFrom
    BY <1>5, WholeUnchanged DEF vars
  <2>2. Endings(start, arrived)' = Endings(start, arrived)
    BY <1>5 DEF vars, Endings
  <2> QED BY <1>5, <2>1, <2>2 DEF vars, WholeInv, TypeInv
<1> QED BY <1>1, <1>2, <1>3, <1>4, <1>5 DEF Next

LEMMA SplitterTokens == SplitterInv => TokensDoNotMatter
<1> SUFFICES ASSUME SplitterInv PROVE TokensDoNotMatter
  OBVIOUS
<1> USE DEF SplitterInv
<1>1. start \in Positions /\ 0 \in Positions /\ spoken \in Seq(Pieces)
  BY LengthType, SplitterAssumption DEF TypeInv, Positions
<1>2. WholeFrom[start] \in Seq(Pieces) /\ WholeFrom[0] \in Seq(Pieces)
  BY <1>1, WholeTyped DEF TypeInv
<1>3. PICK rest \in Seq(Pieces) : WholeFrom[0] = spoken \o rest
  <2>1. CASE pc = "done"
    <3>1. WholeFrom[0] = spoken \o <<>>
      BY <1>1, <2>1, ConcatEmptySeq DEF WholeInv
    <3>2. <<>> \in Seq(Pieces)
      OBVIOUS
    <3> QED BY <3>1, <3>2
  <2>2. CASE pc # "done"
    BY <1>2, <2>2 DEF WholeInv
  <2> QED BY <2>1, <2>2
<1>4. Len(spoken) <= Len(spoken \o rest) /\ spoken = SubSeq(spoken \o rest, 1, Len(spoken))
  <2>1. /\ Len(spoken) \in Nat /\ Len(rest) \in Nat
        /\ Len(spoken \o rest) = Len(spoken) + Len(rest)
        /\ \A i \in 1 .. Len(spoken) : (spoken \o rest)[i] = spoken[i] /\ spoken[i] \in Pieces
    BY <1>1, <1>3, ConcatProperties, ElementOfSeq, LenProperties
  <2>2. /\ SubSeq(spoken \o rest, 1, Len(spoken)) \in Seq(Pieces)
        /\ Len(SubSeq(spoken \o rest, 1, Len(spoken))) = Len(spoken)
        /\ \A i \in 1 .. Len(spoken) :
             SubSeq(spoken \o rest, 1, Len(spoken))[i] = spoken[i]
    BY <2>1, SubSeqProperties
  <2> QED BY <1>1, <2>1, <2>2, SeqEqual
<1>5. ASSUME pc = "token", Len(spoken) < Len(WholeFrom[0]),
             NEW end, end = WholeFrom[0][Len(spoken) + 1][2]
      PROVE  end > arrived \/ Endings(start, end) = {}
  <2> DEFINE i == Min(Endings(start, Len(reply)))
  <2>1. WholeFrom[0] = spoken \o WholeFrom[start]
    BY <1>5 DEF WholeInv
  <2>2. /\ WholeFrom[start] # <<>>
        /\ WholeFrom[0][Len(spoken) + 1] = WholeFrom[start][1]
    <3>1. /\ Len(spoken) \in Nat /\ Len(WholeFrom[start]) \in Nat
          /\ Len(WholeFrom[0]) = Len(spoken) + Len(WholeFrom[start])
          /\ \A k \in 1 .. Len(spoken) + Len(WholeFrom[start]) :
               WholeFrom[0][k] =
                 IF k <= Len(spoken) THEN spoken[k] ELSE WholeFrom[start][k - Len(spoken)]
      BY <1>1, <1>2, <2>1, ConcatProperties, LenProperties
    <3>2. Len(WholeFrom[start]) > 0
      BY <1>5, <3>1
    <3>3. Len(spoken) + 1 \in 1 .. Len(spoken) + Len(WholeFrom[start])
      BY <3>1, <3>2
    <3>4. WholeFrom[0][Len(spoken) + 1] = WholeFrom[start][Len(spoken) + 1 - Len(spoken)]
      BY <3>1, <3>3
    <3> QED BY <3>1, <3>2, <3>4
  <2>3. WholeFrom[start] = PieceFrom(WholeFrom, start)
    BY <1>1, WholeEquation DEF TypeInv
  <2>4. CASE Endings(start, Len(reply)) # {}
    <3>1. i \in Positions /\ i \in Endings(start, Len(reply))
      BY <1>1, <2>4, LengthType, EndingsAhead DEF TypeInv
    <3>2. WholeFrom[start] = <<<<start + 1, i>>>> \o WholeFrom[i] /\ WholeFrom[i] \in Seq(Pieces)
      <4> HIDE DEF i
      <4>1. WholeFrom[i] \in Seq(Pieces)
        BY <3>1, WholeTyped DEF TypeInv
      <4> QED BY <2>3, <2>4, <4>1 DEF PieceFrom, i
    <3> HIDE DEF i
    <3>3. <<start + 1, i>> \in Pieces
      BY <1>1, <3>1 DEF Pieces, Positions
    <3>4. WholeFrom[start][1] = <<start + 1, i>>
      <4> DEFINE p == <<start + 1, i>>
      <4>1. <<p>> \in Seq(Pieces) /\ Len(<<p>>) = 1 /\ <<p>>[1] = p
        <5> HIDE DEF p
        <5> QED BY <3>3 DEF p
      <4>2. Len(WholeFrom[i]) \in Nat
        BY <3>2, LenProperties
      <4>3. (<<p>> \o WholeFrom[i])[1] = p
        <5> HIDE DEF p
        <5> QED BY <3>2, <4>1, <4>2, ConcatProperties
      <4> QED BY <3>2, <4>3
    <3>5. end = i
      BY <1>5, <2>2, <3>4
    <3>6. i \notin Endings(start, arrived)
      BY <1>5 DEF WholeInv
    <3> QED BY <1>1, <3>1, <3>5, <3>6, LengthType DEF Endings, TypeInv, Positions
  <2>5. CASE Endings(start, Len(reply)) = {}
    <3>1. WholeFrom[start] = <<<<start + 1, Len(reply)>>>>
      BY <2>2, <2>3, <2>5 DEF PieceFrom
    <3>2. end = Len(reply)
      BY <1>5, <2>2, <3>1
    <3> QED BY <2>5, <3>2
  <2> QED BY <2>4, <2>5
<1>6. pc = "done" => spoken = WholeFrom[0]
  BY DEF WholeInv
<1>7. Len(spoken) <= Len(WholeFrom[0]) /\ spoken = SubSeq(WholeFrom[0], 1, Len(spoken))
  BY <1>3, <1>4
<1> QED BY <1>5, <1>6, <1>7 DEF TokensDoNotMatter

\* generate_stream yields the same pieces however the model cuts its reply into
\* tokens, for replies of any length and every shortest piece.
THEOREM TokensAreInvisible == Spec => []TokensDoNotMatter
<1>1. Spec => []SplitterInv
  BY InitSplitter, StepSplitter, PTL DEF Spec
<1> QED BY <1>1, SplitterTokens, PTL
=============================================================================
