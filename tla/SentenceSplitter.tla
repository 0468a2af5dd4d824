--------------------------- MODULE SentenceSplitter ---------------------------
(***************************************************************************)
(* generate_stream and _extract_sentences of llm/engine.py: the reply of   *)
(* the language model arrives in tokens, is cut after a sentence ending,   *)
(* and each piece is spoken while the rest is still being generated.  An   *)
(* ending among the first MinChunk characters of what is left does not     *)
(* count.                                                                  *)
(*                                                                         *)
(* A reply is a sequence of characters, of which only their kind matters;  *)
(* a piece is the pair of its first and last position.  The model may cut  *)
(* the reply into tokens anywhere and may fail between two of them.        *)
(***************************************************************************)
EXTENDS Integers, Sequences, FiniteSetsExt

CONSTANTS
  MaxLength,  \* characters of a reply (bounds behaviours)
  MinChunk    \* _MIN_CHUNK_LENGTH

ASSUME SplitterAssumption == MaxLength \in Nat /\ MinChunk \in Nat \ {0}

VARIABLES
  reply,    \* the characters the model generates
  arrived,  \* how many of them have arrived
  start,    \* how many of them have left the buffer
  spoken,   \* the pieces yielded so far
  pc        \* waiting for a token, extracting, done or failed

vars == <<reply, arrived, start, spoken, pc>>

Kinds == {"letter", "ending", "space"}
Replies == UNION {[1 .. n -> Kinds] : n \in 0 .. MaxLength}
Positions == 0 .. MaxLength

Init == reply \in Replies /\ arrived = 0 /\ start = 0 /\ spoken = <<>> /\ pc = "token"

\* The endings at which text from position b on, up to position e, may be cut.
Endings(b, e) == {i \in b + MinChunk + 1 .. e : reply[i] = "ending"}

Token(n) ==
  /\ pc = "token" /\ arrived' = n /\ pc' = "extract"
  /\ UNCHANGED <<reply, start, spoken>>

\* A bug: the buffer is cut at its last ending.
ExtractGreedily ==
  /\ pc = "extract"
  /\ IF Endings(start, arrived) = {} THEN pc' = "token" /\ UNCHANGED <<start, spoken>>
     ELSE LET i == Max(Endings(start, arrived)) IN
            start' = i /\ spoken' = Append(spoken, <<start + 1, i>>) /\ UNCHANGED pc
  /\ UNCHANGED <<reply, arrived>>

\* One turn of the loop.
ExtractSentence ==
  /\ pc = "extract"
  /\ IF Endings(start, arrived) = {} THEN pc' = "token" /\ UNCHANGED <<start, spoken>>
     ELSE LET i == Min(Endings(start, arrived)) IN
            start' = i /\ spoken' = Append(spoken, <<start + 1, i>>) /\ UNCHANGED pc
  /\ UNCHANGED <<reply, arrived>>

\* The length of what is left once it has been stripped.
Stripped(b) ==
  LET visible == {i \in b + 1 .. Len(reply) : reply[i] # "space"} IN
    IF visible = {} THEN 0 ELSE Max(visible) - Min(visible) + 1

\* The stream ends: what is left is yielded unless it is too short.
Finish ==
  /\ pc = "token" /\ arrived = Len(reply) /\ pc' = "done"
  /\ IF Stripped(start) >= MinChunk
     THEN start' = Len(reply) /\ spoken' = Append(spoken, <<start + 1, Len(reply)>>)
     ELSE UNCHANGED <<start, spoken>>
  /\ UNCHANGED <<reply, arrived>>

\* An apology is yielded in place of what has not been.
Fail ==
  /\ pc = "token" /\ pc' = "failed"
  /\ UNCHANGED <<reply, arrived, start, spoken>>

Next ==
  \/ \E n \in arrived + 1 .. Len(reply) : Token(n)
  \/ ExtractSentence \/ Finish \/ Fail

Spec == Init /\ [][Next]_vars

(***************************************************************************)
(* Properties.                                                             *)
(***************************************************************************)
\* The pieces of the whole reply from position b on, as if it came at once.
WholeFrom[b \in Positions] ==
  LET e == Endings(b, Len(reply)) IN
    IF e # {} THEN <<<<b + 1, Min(e)>>>> \o WholeFrom[Min(e)]
    ELSE IF Stripped(b) >= MinChunk THEN <<<<b + 1, Len(reply)>>>> ELSE <<>>

\* What is spoken does not depend on how the model cut the reply into tokens.
\* While a token is awaited the pieces are those of the whole reply that have come
\* in full, none of them held back but a rest; in the end they are all of them.
TokensDoNotMatter ==
  LET whole == WholeFrom[0] IN
    /\ Len(spoken) <= Len(whole) /\ spoken = SubSeq(whole, 1, Len(spoken))
    /\ pc = "token" /\ Len(spoken) < Len(whole) =>
         LET end == whole[Len(spoken) + 1][2] IN end > arrived \/ Endings(start, end) = {}
    /\ pc = "done" => spoken = whole
=============================================================================
