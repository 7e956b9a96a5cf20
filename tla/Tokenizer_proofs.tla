-------------------------- MODULE Tokenizer_proofs --------------------------
(***************************************************************************)
(* Safety of the scan loop, for every set of statements.  The inductive    *)
(* invariant adds to the types that the token counts of nested commands    *)
(* are ordered, so that cutting the list back for the inner one never cuts *)
(* below the outer one's, and that no open payload has reached a           *)
(* semicolon.  A second one, Spells, adds what the tokens spell and the    *)
(* lines they are on.                                                      *)
(***************************************************************************)
EXTENDS Tokenizer, FiniteSetTheorems, SequenceTheorems, TLAPS

FramesNest ==
    \A j, k \in 1..Len(frames) : j <= k => frames[j].n <= frames[k].n

OpenPayloadsHaveNoSemicolon ==
    \A k \in 1..Len(frames) : \A i \in (frames[k].start + 1)..cur : input[i] # "semi"

\* A line is remembered only with a token on it: appendComments has one to
\* append to.
LineHasToken == prevTokenLine # -1 => Len(tokens) >= 1

\* A nested scan does not start in front of a semicolon, which it would take.
NoEmptyPayload ==
    \A k \in 1..Len(frames) : frames[k].start = cur => ~PeekIs(cur, "semi")

Inv ==
    /\ TypeOK
    /\ NoEmptyPayload
    /\ FramesNest
    /\ OpenPayloadsHaveNoSemicolon
    /\ PayloadStopsAtSemicolon
    /\ LineHasToken

SameButComments(t, u) ==
    /\ t.type = u.type /\ t.text = u.text /\ t.line = u.line
    /\ t.start = u.start /\ t.end = u.end

\* Attach keeps the number of tokens and everything but the comments of the
\* last one, which it extends.
LEMMA AttachFacts ==
    ASSUME NEW ts \in Seq(Token), ts # <<>>, NEW cs \in Seq(Nat)
    PROVE  /\ Attach(ts, cs) \in Seq(Token)
           /\ Len(Attach(ts, cs)) = Len(ts)
           /\ \A k \in 1..Len(ts) : SameButComments(Attach(ts, cs)[k], ts[k])
           /\ \A k \in 1..Len(ts) : Attach(ts, cs)[k].comments = ts[k].comments
                                    \/ Attach(ts, cs)[k].comments = ts[k].comments \o cs
<1> DEFINE n == Len(ts)
           t == ts[n]
           u == [t EXCEPT !.comments = @ \o cs]
<1>1. n \in Nat /\ n >= 1 /\ t \in Token
  OBVIOUS
<1>2. u \in Token /\ SameButComments(u, t) /\ u.comments = t.comments \o cs
  <2>1. t.comments \o cs \in Seq(Nat)
    BY <1>1 DEF Token
  <2> QED BY <1>1, <2>1 DEF Token, SameButComments
<1>3. Attach(ts, cs) = [ts EXCEPT ![n] = u]
  BY <1>1 DEF Attach
<1> DEFINE us == [ts EXCEPT ![n] = u]
<1>4. us \in Seq(Token) /\ Len(us) = n
  <2> HIDE DEF u
  <2> QED BY <1>1, <1>2
<1>5. us[n] = u /\ \A k \in 1..n : k # n => us[k] = ts[k]
  <2> HIDE DEF u
  <2> QED BY <1>1
<1>6. ASSUME NEW k \in 1..n
      PROVE  SameButComments(us[k], ts[k])
             /\ (us[k].comments = ts[k].comments \/ us[k].comments = ts[k].comments \o cs)
  <2> HIDE DEF us, u
  <2>1. CASE k = n BY <2>1, <1>2, <1>5
  <2>2. CASE k # n BY <2>2, <1>5 DEF SameButComments
  <2> QED BY <2>1, <2>2
<1> HIDE DEF us
<1> QED BY <1>3, <1>4, <1>6 DEF us

\* u is the token t, perhaps with more comments.
MoreComments(u, t) ==
    /\ SameButComments(u, t)
    /\ u.comments = t.comments \/ \E cs \in Seq(Nat) : u.comments = t.comments \o cs

\* us begins with the first n tokens of ts, which may have more comments.
Extends(us, ts, n) ==
    Len(us) >= n /\ \A k \in 1..n : MoreComments(us[k], ts[k])

LEMMA AttachExtends ==
    ASSUME NEW ts \in Seq(Token), ts # <<>>, NEW cs \in Seq(Nat)
    PROVE  /\ Attach(ts, cs) \in Seq(Token)
           /\ Len(Attach(ts, cs)) = Len(ts)
           /\ Extends(Attach(ts, cs), ts, Len(ts))
<1>1. ASSUME NEW k \in 1..Len(ts) PROVE MoreComments(Attach(ts, cs)[k], ts[k])
  BY AttachFacts DEF MoreComments
<1> QED BY <1>1, AttachFacts DEF Extends

LEMMA AppendExtends ==
    ASSUME NEW ts \in Seq(Token), NEW us \in Seq(Token), NEW t \in Token,
           Len(us) = Len(ts), Extends(us, ts, Len(ts))
    PROVE  /\ Append(us, t) \in Seq(Token)
           /\ Len(Append(us, t)) = Len(ts) + 1
           /\ Append(us, t)[Len(ts) + 1] = t
           /\ Extends(Append(us, t), ts, Len(ts))
<1>1. /\ Append(us, t) \in Seq(Token)
      /\ Len(Append(us, t)) = Len(ts) + 1
      /\ Append(us, t)[Len(ts) + 1] = t
      /\ \A k \in 1..Len(ts) : Append(us, t)[k] = us[k]
  OBVIOUS
<1>2. Len(ts) \in Nat
  OBVIOUS
<1>3. \A k \in 1..Len(ts) : MoreComments(us[k], ts[k])
  BY DEF Extends
<1>4. \A k \in 1..Len(ts) : MoreComments(Append(us, t)[k], ts[k])
  BY <1>1, <1>3
<1> QED BY <1>1, <1>2, <1>4 DEF Extends

\* add lengthens the list by the new token and changes nothing before it but
\* comments.
LEMMA AddFacts ==
    ASSUME tokens \in Seq(Token), comments \in Seq(Nat),
           NEW type \in Lexemes, NEW text \in SUBSET Nat, NEW ln \in Nat,
           NEW st \in Nat, NEW end \in Nat
    PROVE  LET us == Add(type, text, ln, st, end)
           IN  /\ us \in Seq(Token)
               /\ Len(us) = Len(tokens) + 1
               /\ us[Len(tokens) + 1].type = type
               /\ us[Len(tokens) + 1].text = text
               /\ us[Len(tokens) + 1].line = ln /\ us[Len(tokens) + 1].end = end
               /\ Extends(us, tokens, Len(tokens))
<1> DEFINE tok(cs) == [type |-> type, text |-> text, line |-> ln, start |-> st,
                       end |-> end, comments |-> cs]
<1>1. \A cs \in Seq(Nat) : /\ tok(cs) \in Token /\ tok(cs).type = type
                          /\ tok(cs).text = text /\ tok(cs).line = ln /\ tok(cs).end = end
  BY DEF Token
<1>2. <<>> \in Seq(Nat) /\ Len(tokens) \in Nat
  OBVIOUS
<1>3. Extends(tokens, tokens, Len(tokens))
  BY <1>2 DEF Extends, MoreComments, SameButComments
<1>4. CASE comments # <<>> /\ type = "semi" /\ tokens # <<>>
  <2>1. Add(type, text, ln, st, end) = Append(Attach(tokens, comments), tok(<<>>))
    BY <1>4 DEF Add
  <2>2. /\ Attach(tokens, comments) \in Seq(Token)
        /\ Len(Attach(tokens, comments)) = Len(tokens)
        /\ Extends(Attach(tokens, comments), tokens, Len(tokens))
    BY <1>4, AttachExtends
  <2>3. /\ tok(<<>>) \in Token /\ tok(<<>>).type = type
        /\ tok(<<>>).text = text /\ tok(<<>>).line = ln /\ tok(<<>>).end = end
    BY <1>1, <1>2
  <2> HIDE DEF tok
  <2> QED BY <2>1, <2>2, <2>3, AppendExtends
<1>5. CASE ~(comments # <<>> /\ type = "semi" /\ tokens # <<>>)
  <2>1. Add(type, text, ln, st, end) = Append(tokens, tok(comments))
    BY <1>5 DEF Add
  <2>2. /\ tok(comments) \in Token /\ tok(comments).type = type
        /\ tok(comments).text = text /\ tok(comments).line = ln /\ tok(comments).end = end
    BY <1>1
  <2> HIDE DEF tok
  <2> QED BY <1>3, <2>1, <2>2, AppendExtends
<1> QED BY <1>4, <1>5

PayloadOK(t) ==
    t.type = "string" =>
        /\ \A i \in t.text : input[i] # "semi"
        /\ t.end = Len(input) \/ input[t.end + 1] = "semi"

LEMMA PayloadByToken ==
    PayloadStopsAtSemicolon <=> \A k \in 1..Len(tokens) : PayloadOK(tokens[k])
BY DEF PayloadStopsAtSemicolon, PayloadOK

\* A step that only lengthens the list by one token keeps what is known of the
\* payloads, when that token is none or a good one.
LEMMA PayloadsKept ==
    ASSUME tokens \in Seq(Token), tokens' \in Seq(Token), PayloadStopsAtSemicolon,
           input' = input, NEW n \in 0..Len(tokens), Extends(tokens', tokens, n),
           Len(tokens') \in {n, n + 1}, Len(tokens') = n + 1 => PayloadOK(tokens'[n + 1])
    PROVE  PayloadStopsAtSemicolon'
<1>1. \A k \in 1..n : PayloadOK(tokens'[k])
  <2> TAKE k \in 1..n
  <2>1. PayloadOK(tokens[k]) /\ SameButComments(tokens'[k], tokens[k])
    BY PayloadByToken DEF Extends, MoreComments
  <2> QED BY <2>1 DEF PayloadOK, SameButComments
<1>2. \A k \in 1..Len(tokens') : PayloadOK(tokens'[k])
  BY <1>1
<1>3. \A t : PayloadOK(t) => PayloadOK(t)'
  BY DEF PayloadOK
<1> QED BY <1>2 DEF PayloadStopsAtSemicolon, PayloadOK

LEMMA InitInv == Init => Inv
BY InputsAssumption
   DEF Init, Inv, TypeOK, FramesNest, OpenPayloadsHaveNoSemicolon,
       PayloadStopsAtSemicolon, LineHasToken, NoEmptyPayload

\* The line numbers are naturals whatever was counted.
LEMMA LineFacts ==
    ASSUME TypeOK, cur < Len(input)
    PROVE  /\ LineNow \in Nat \ {0}
           /\ LineNow + Breaks(cur + 1, cur + 1) \in Nat \ {0}
           /\ LineNow + TagLines(cur + 1) \in Nat \ {0}
<1>1. ASSUME NEW from \in Int, NEW to \in Int, NEW S \in SUBSET (from..to)
      PROVE  Cardinality(S) \in Nat
  BY <1>1, FS_Interval, FS_Subset, FS_CardinalityType
<1>2. LineNow \in Nat \ {0}
  BY DEF LineNow, TypeOK
<1>3. Breaks(cur + 1, cur + 1) \in Nat
  <2>1. cur + 1 \in Int
    BY DEF TypeOK
  <2> QED BY <2>1, <1>1 DEF Breaks
<1>4. TagLines(cur + 1) \in Nat
  <2> DEFINE tag == {j \in (cur + 1 + 1)..Len(input) : \A m \in (cur + 1 + 1)..j : input[m] # "dollar"}
  <2>1. Cardinality({j \in tag : input[j] \in {"nl", "spread", "text"}}) \in Nat
    <3>1. {j \in tag : input[j] \in {"nl", "spread", "text"}} \in SUBSET ((cur + 2)..Len(input))
      BY DEF TypeOK
    <3>2. cur + 2 \in Int /\ Len(input) \in Int
      BY DEF TypeOK
    <3> QED BY <3>1, <3>2, <1>1
  <2> QED BY <2>1 DEF TagLines
<1> QED BY <1>2, <1>3, <1>4

\* What the scanning actions have in common: one lexeme is consumed, the list
\* grows by at most one token that is not a payload, and a command may open.
LEMMA ScanStep ==
    ASSUME Inv, Scanning, input' = input, cur' = cur + 1,
           start' \in {cur + 1, cur + 2}, line' \in Nat \ {0},
           \/ prevTokenLine' = prevTokenLine
           \/ prevTokenLine' = line' /\ Len(tokens') >= 1,
           comments' \in Seq(Nat),
           tokens' \in Seq(Token), Extends(tokens', tokens, Len(tokens)),
           Len(tokens') \in {Len(tokens), Len(tokens) + 1},
           Len(tokens') = Len(tokens) + 1 => tokens'[Len(tokens) + 1].type # "string",
           \/ frames' = frames
           \/ /\ frames' = Opened(cur + 1) /\ Next1 = "cmd" /\ ~PeekIs(cur + 1, "semi")
              /\ Len(tokens') = Len(tokens) + 1,
           result' = result
    PROVE  Inv'
<1> USE DEF Inv
<1>1. cur < Len(input) /\ cur \in Nat /\ (frames # <<>> => Next1 # "semi")
  <2>1. cur < Len(input) /\ cur \in Nat
    BY DEF Scanning, LoopEnds, AtEnd, TypeOK
  <2>2. ASSUME frames # <<>> PROVE Next1 # "semi"
    <3>1. Len(frames) \in 1..Len(frames) /\ frames[Len(frames)].start \in 1..cur
      BY <2>2 DEF TypeOK
    <3> QED BY <2>1, <2>2, <3>1 DEF NoEmptyPayload, PeekIs, Next1, Scanning, LoopEnds
  <2> QED BY <2>1, <2>2
<1>2. PayloadStopsAtSemicolon'
  <2>1. Len(tokens) \in 0..Len(tokens) /\ tokens \in Seq(Token)
    BY DEF TypeOK
  <2>2. Len(tokens') = Len(tokens) + 1 => PayloadOK(tokens'[Len(tokens) + 1])
    BY DEF PayloadOK
  <2> QED BY <2>1, <2>2, PayloadsKept
<1>3. /\ frames' \in Seq(Frame)
      /\ \A k \in 1..Len(frames') : frames'[k].n \in 1..Len(tokens') /\ frames'[k].start \in 1..cur'
      /\ FramesNest'
      /\ OpenPayloadsHaveNoSemicolon'
      /\ NoEmptyPayload'
  <2>0. /\ frames \in Seq(Frame) /\ Len(tokens) \in Nat
        /\ \A k \in 1..Len(frames) : frames[k].n \in 1..Len(tokens) /\ frames[k].start \in 1..cur
    BY DEF TypeOK
  <2>1. CASE frames' = frames
    <3>1. ASSUME NEW k \in 1..Len(frames')
          PROVE  frames'[k].n \in 1..Len(tokens') /\ frames'[k].start \in 1..cur'
      <4>1. frames'[k].n \in 1..Len(tokens) /\ frames'[k].start \in 1..cur
        BY <2>0, <2>1
      <4>2. Len(tokens') \in Nat /\ Len(tokens') >= Len(tokens) /\ cur' = cur + 1
        BY <2>0
      <4> QED BY <4>1, <4>2, <2>0, <1>1
    <3>2. FramesNest'
      BY <2>1 DEF FramesNest
    <3>3. OpenPayloadsHaveNoSemicolon'
      BY <2>0, <2>1, <1>1 DEF OpenPayloadsHaveNoSemicolon, Next1
    <3>4. NoEmptyPayload'
      <4>1. \A k \in 1..Len(frames') : frames'[k].start # cur'
        BY <2>0, <2>1, <1>1
      <4> QED BY <4>1 DEF NoEmptyPayload
    <3> QED BY <2>0, <2>1, <3>1, <3>2, <3>3, <3>4
  <2>2. CASE /\ frames' = Opened(cur + 1) /\ Next1 = "cmd" /\ ~PeekIs(cur + 1, "semi")
             /\ Len(tokens') = Len(tokens) + 1
    <3> DEFINE f == [n |-> Len(tokens) + 1, start |-> cur + 1]
    <3>1. f \in Frame /\ f.n = Len(tokens) + 1 /\ f.start = cur + 1
      BY <1>1, <2>0 DEF Frame
    <3>2. frames' = Append(frames, f)
      BY <2>2 DEF Opened
    <3> HIDE DEF f
    <3>3. /\ frames' \in Seq(Frame) /\ Len(frames') = Len(frames) + 1
          /\ frames'[Len(frames) + 1] = f
          /\ \A k \in 1..Len(frames) : frames'[k] = frames[k]
      BY <2>0, <3>1, <3>2
    <3>a. Len(frames) \in Nat
      BY <2>0
    <3>b. ASSUME NEW k \in 1..Len(frames')
          PROVE  \/ k \in 1..Len(frames) /\ frames'[k] = frames[k]
                 \/ k = Len(frames) + 1 /\ frames'[k] = f
      BY <3>3, <3>a
    <3>4. ASSUME NEW k \in 1..Len(frames')
          PROVE  frames'[k].n \in 1..Len(tokens') /\ frames'[k].start \in 1..cur'
      <4>1. CASE k \in 1..Len(frames) /\ frames'[k] = frames[k]
        <5>1. frames[k].n \in 1..Len(tokens) /\ frames[k].start \in 1..cur
          BY <4>1, <2>0
        <5>2. Len(tokens') = Len(tokens) + 1 /\ cur' = cur + 1
          BY <2>2, <1>1, <2>0
        <5>3. Len(tokens) \in Nat /\ cur \in Nat
          BY <1>1, <2>0
        <5> HIDE DEF f
        <5> QED BY <4>1, <5>1, <5>2, <5>3
      <4>2. CASE frames'[k] = f
        BY <4>2, <3>1, <2>0, <2>2, <1>1
      <4> QED BY <3>b, <4>1, <4>2
    <3>5. ASSUME NEW j \in 1..Len(frames'), NEW k \in 1..Len(frames'), j <= k
          PROVE  frames'[j].n <= frames'[k].n
      <4>1. CASE k \in 1..Len(frames) /\ frames'[k] = frames[k]
        <5>1. j \in 1..Len(frames) /\ frames'[j] = frames[j]
          BY <4>1, <3>a, <3>3, <3>5
        <5> QED BY <4>1, <5>1, <3>5 DEF FramesNest
      <4>2. CASE frames'[k] = f
        BY <4>2, <3>1, <3>4, <2>2, <2>0
      <4> QED BY <3>b, <4>1, <4>2
    <3>6. ASSUME NEW k \in 1..Len(frames'), NEW i \in (frames'[k].start + 1)..cur'
          PROVE  input'[i] # "semi"
      <4>1. CASE k \in 1..Len(frames) /\ frames'[k] = frames[k]
        <5>1. frames[k].start \in Nat
          BY <4>1, <2>0
        <5>2. CASE i = cur + 1
          BY <5>2, <2>2 DEF Next1
        <5>3. CASE i # cur + 1
          <6>1. i \in (frames[k].start + 1)..cur
            BY <5>3, <5>1, <4>1, <3>6, <1>1
          <6> QED BY <6>1, <4>1 DEF OpenPayloadsHaveNoSemicolon
        <5> QED BY <5>2, <5>3
      <4>2. CASE frames'[k] = f
        BY <4>2, <3>1, <3>6, <1>1
      <4> QED BY <3>b, <4>1, <4>2
    <3>7. NoEmptyPayload'
      BY <2>2 DEF NoEmptyPayload, PeekIs
    <3> QED BY <3>3, <3>4, <3>5, <3>6, <3>7 DEF FramesNest, OpenPayloadsHaveNoSemicolon
  <2> QED BY <2>1, <2>2
<1>4. TypeOK'
  BY <1>1, <1>3 DEF TypeOK
<1>5. LineHasToken'
  BY DEF LineHasToken, TypeOK
<1> QED BY <1>2, <1>3, <1>4, <1>5

LEMMA SameTokens ==
    ASSUME tokens \in Seq(Token)
    PROVE  Extends(tokens, tokens, Len(tokens)) /\ Len(tokens) \in Nat
BY DEF Extends, MoreComments, SameButComments

LEMMA BlankStep == Inv /\ ScanBlank => Inv' /\ Extends(tokens', tokens, Len(tokens))
<1> SUFFICES ASSUME Inv, ScanBlank PROVE Inv' /\ Extends(tokens', tokens, Len(tokens))
  OBVIOUS
<1> USE DEF Inv
<1>1. cur < Len(input) /\ LineNow \in Nat \ {0} /\ cur \in Nat
  BY LineFacts DEF ScanBlank, Scanning, LoopEnds, AtEnd, TypeOK
<1>2. Extends(tokens', tokens, Len(tokens)) /\ Len(tokens') = Len(tokens) /\ Len(tokens) \in Nat
  BY SameTokens DEF ScanBlank, TypeOK
<1>3. start' \in {cur + 1, cur + 2} /\ cur' = cur + 1
  BY DEF ScanBlank, Offset
<1> QED BY <1>1, <1>2, <1>3, ScanStep DEF ScanBlank, TypeOK

LEMMA TokenStep == Inv /\ ScanToken => Inv' /\ Extends(tokens', tokens, Len(tokens))
<1> SUFFICES ASSUME Inv, ScanToken PROVE Inv' /\ Extends(tokens', tokens, Len(tokens))
  OBVIOUS
<1> USE DEF Inv
<1> DEFINE ln == LineNow + Breaks(cur + 1, cur + 1)
<1>1. cur < Len(input) /\ cur \in Nat /\ ln \in Nat \ {0}
  BY LineFacts DEF ScanToken, Scanning, LoopEnds, AtEnd, TypeOK
<1>2. Next1 \in Lexemes /\ Next1 # "string" /\ {cur + 1} \in SUBSET Nat
  BY <1>1 DEF ScanToken, Plain, Lexemes
<1>3. /\ tokens' \in Seq(Token)
      /\ Len(tokens') = Len(tokens) + 1
      /\ tokens'[Len(tokens) + 1].type = Next1
      /\ Extends(tokens', tokens, Len(tokens))
  <2>1. tokens' = Add(Next1, {cur + 1}, ln, cur + 1, cur + 1)
    BY DEF ScanToken
  <2>2. tokens \in Seq(Token) /\ comments \in Seq(Nat) /\ cur + 1 \in Nat /\ ln \in Nat
    BY <1>1 DEF TypeOK
  <2> HIDE DEF ln
  <2> QED BY <1>2, <2>1, <2>2, AddFacts
<1>4. \/ frames' = frames
      \/ frames' = Opened(cur + 1) /\ Next1 = "cmd" /\ ~PeekIs(cur + 1, "semi")
  BY DEF ScanToken, StartsCommand, Next1
<1>5. Len(tokens) \in Nat /\ <<>> \in Seq(Nat)
  BY DEF TypeOK
<1>6. /\ Scanning /\ input' = input /\ cur' = cur + 1 /\ start' = cur + 1 /\ line' = ln
      /\ prevTokenLine' = ln /\ comments' = <<>> /\ result' = result
  BY DEF ScanToken
<1> HIDE DEF ln
<1> QED BY <1>1, <1>2, <1>3, <1>4, <1>5, <1>6, ScanStep

LEMMA ParameterStep == Inv /\ ScanParameter => Inv' /\ Extends(tokens', tokens, Len(tokens))
<1> SUFFICES ASSUME Inv, ScanParameter PROVE Inv' /\ Extends(tokens', tokens, Len(tokens))
  OBVIOUS
<1> USE DEF Inv
<1> DEFINE ln == LineNow + TagLines(cur + 1)
<1>1. cur < Len(input) /\ cur \in Nat /\ ln \in Nat \ {0}
  BY LineFacts DEF ScanParameter, Scanning, LoopEnds, AtEnd, TypeOK
<1>2. "dollar" \in Lexemes /\ {cur + 1} \in SUBSET Nat
  BY <1>1 DEF Lexemes
<1>3. /\ tokens' \in Seq(Token)
      /\ Len(tokens') = Len(tokens) + 1
      /\ tokens'[Len(tokens) + 1].type = "dollar"
      /\ Extends(tokens', tokens, Len(tokens))
  <2>1. tokens' = Add("dollar", {cur + 1}, ln, cur + 1, cur + 1)
    BY DEF ScanParameter
  <2>2. tokens \in Seq(Token) /\ comments \in Seq(Nat) /\ cur + 1 \in Nat /\ ln \in Nat
    BY <1>1 DEF TypeOK
  <2> HIDE DEF ln
  <2> QED BY <1>2, <2>1, <2>2, AddFacts
<1>4. Len(tokens) \in Nat /\ <<>> \in Seq(Nat)
  BY DEF TypeOK
<1>5. /\ Scanning /\ input' = input /\ cur' = cur + 1 /\ start' = cur + 1 /\ line' = ln
      /\ prevTokenLine' = ln /\ comments' = <<>> /\ result' = result /\ frames' = frames
  BY DEF ScanParameter
<1> HIDE DEF ln
<1> QED BY <1>1, <1>3, <1>4, <1>5, ScanStep

LEMMA CommentStep == Inv /\ ScanComment => Inv' /\ Extends(tokens', tokens, Len(tokens))
<1> SUFFICES ASSUME Inv, ScanComment PROVE Inv' /\ Extends(tokens', tokens, Len(tokens))
  OBVIOUS
<1> USE DEF Inv
<1> DEFINE ln == LineNow + Breaks(cur + 1, cur + 1)
           pending == Append(comments, cur + 1)
<1>1. cur < Len(input) /\ cur \in Nat /\ ln \in Nat \ {0}
  BY LineFacts DEF ScanComment, Scanning, LoopEnds, AtEnd, TypeOK
<1>2. pending \in Seq(Nat) /\ <<>> \in Seq(Nat) /\ tokens \in Seq(Token) /\ Len(tokens) \in Nat
  BY <1>1 DEF TypeOK
<1>3. /\ Scanning /\ input' = input /\ cur' = cur + 1 /\ start' = cur + 1 /\ line' = ln
      /\ result' = result /\ frames' = frames
  BY DEF ScanComment
<1>4. CASE SameLine(LineNow)
  <2>1. tokens # <<>> /\ Len(tokens) >= 1
    BY <1>4, <1>1, LineFacts DEF SameLine, LineHasToken, TypeOK
  <2>2. tokens' = Attach(tokens, pending) /\ comments' = <<>> /\ prevTokenLine' = ln
    BY <1>4 DEF ScanComment
  <2> HIDE DEF ln, pending
  <2>3. /\ tokens' \in Seq(Token) /\ Len(tokens') = Len(tokens)
        /\ Extends(tokens', tokens, Len(tokens))
    BY <1>2, <2>1, <2>2, AttachExtends
  <2> QED BY <1>1, <1>2, <1>3, <2>1, <2>2, <2>3, ScanStep
<1>5. CASE ~SameLine(LineNow)
  <2>1. comments' = pending /\ tokens' = tokens /\ prevTokenLine' = prevTokenLine
    BY <1>5 DEF ScanComment
  <2> HIDE DEF ln, pending
  <2> QED BY <1>1, <1>2, <1>3, <2>1, SameTokens, ScanStep
<1> QED BY <1>4, <1>5

LEMMA HintStep == Inv /\ ScanHint => Inv' /\ Extends(tokens', tokens, Len(tokens))
<1> SUFFICES ASSUME Inv, ScanHint PROVE Inv' /\ Extends(tokens', tokens, Len(tokens))
  OBVIOUS
<1> USE DEF Inv
<1> DEFINE ln == LineNow + Breaks(cur + 1, cur + 1)
           t == [type |-> "hint", text |-> {cur + 1}, line |-> ln, start |-> cur + 1,
                 end |-> cur + 1, comments |-> Append(comments, cur + 1)]
<1>1. cur < Len(input) /\ cur \in Nat /\ ln \in Nat \ {0}
  BY LineFacts DEF ScanHint, Scanning, LoopEnds, AtEnd, TypeOK
<1>2. tokens \in Seq(Token) /\ Len(tokens) \in Nat /\ <<>> \in Seq(Nat)
  BY DEF TypeOK
<1>3. /\ Scanning /\ input' = input /\ cur' = cur + 1 /\ start' = cur + 1 /\ line' = ln
      /\ prevTokenLine' = ln /\ comments' = <<>> /\ result' = result /\ frames' = frames
      /\ tokens' = Append(tokens, t)
  BY DEF ScanHint
<1>4. t \in Token /\ t.type = "hint"
  <2>1. Append(comments, cur + 1) \in Seq(Nat) /\ {cur + 1} \in SUBSET Nat
    BY <1>1 DEF TypeOK
  <2> HIDE DEF ln
  <2> QED BY <1>1, <2>1 DEF Token, Lexemes, Comments
<1> HIDE DEF ln, t
<1>5. /\ tokens' \in Seq(Token)
      /\ Len(tokens') = Len(tokens) + 1
      /\ tokens'[Len(tokens) + 1] = t
      /\ Extends(tokens', tokens, Len(tokens))
  BY <1>2, <1>3, <1>4, SameTokens, AppendExtends
<1> QED BY <1>1, <1>2, <1>3, <1>4, <1>5, ScanStep

\* The inner payload ends below no outer one, and holds no semicolon.
LEMMA EndPayloadStep ==
    Inv /\ EndPayload =>
        Inv' /\ (\E n \in 1..Len(tokens) : n = frames[Len(frames)].n /\ Extends(tokens', tokens, n))
<1> SUFFICES ASSUME Inv, EndPayload
             PROVE  Inv' /\ (\E n \in 1..Len(tokens) : n = frames[Len(frames)].n
                                                      /\ Extends(tokens', tokens, n))
  OBVIOUS
<1> USE DEF Inv
<1> DEFINE f == frames[Len(frames)]
           payload == Payload(f.start + 1, cur)
           ts == IF comments = <<>> THEN tokens ELSE Attach(tokens, comments)
           t == [type |-> "string", text |-> payload, line |-> line,
                 start |-> start, end |-> cur, comments |-> comments]
<1>1. /\ Len(frames) \in Nat \ {0} /\ frames \in Seq(Frame)
      /\ f.n \in 1..Len(tokens) /\ f.start \in 1..cur
      /\ tokens \in Seq(Token) /\ Len(tokens) \in Nat /\ comments \in Seq(Nat)
      /\ cur \in Nat /\ start \in Nat /\ line \in Nat \ {0}
  BY DEF EndPayload, TypeOK
<1>2. /\ input' = input /\ cur' = cur /\ start' = start /\ line' = line /\ result' = result
      /\ frames' = SubSeq(frames, 1, Len(frames) - 1)
      /\ cur = Len(input) \/ PeekIs(cur, "semi")
  BY DEF EndPayload, LoopEnds, AtEnd
<1>3. /\ ts \in Seq(Token) /\ Len(ts) = Len(tokens) /\ Extends(ts, tokens, Len(tokens))
  <2>1. CASE comments = <<>>
    BY <2>1, <1>1, SameTokens
  <2>2. CASE comments # <<>>
    BY <2>2, <1>1, AttachExtends
  <2> QED BY <2>1, <2>2
<1>4. \A i \in payload : i \in Nat /\ input[i] # "semi"
  BY <1>1 DEF Payload, OpenPayloadsHaveNoSemicolon
<1>5. t \in Token /\ t.type = "string" /\ t.text = payload /\ t.end = cur
  <2>1. payload \in SUBSET Nat
    BY <1>4
  <2> HIDE DEF payload
  <2> QED BY <1>1, <2>1 DEF Token
<1>6. PayloadOK(t)
  BY <1>2, <1>4, <1>5 DEF PayloadOK, PeekIs
<1> DEFINE kept == Kept(ts, f.n)
<1>7. \/ tokens' = kept /\ comments' = comments /\ prevTokenLine' = prevTokenLine
      \/ tokens' = Append(kept, t) /\ comments' = <<>> /\ prevTokenLine' = line
  BY DEF EndPayload
<1> HIDE DEF f, payload, ts, t
<1>8. /\ kept \in Seq(Token) /\ Len(kept) = f.n
      /\ \A k \in 1..f.n : kept[k] = ts[k]
  BY <1>1, <1>3 DEF Kept
<1> HIDE DEF kept
<1>9. /\ tokens' \in Seq(Token) /\ Len(tokens') \in {f.n, f.n + 1}
      /\ \A k \in 1..f.n : tokens'[k] = ts[k]
      /\ Len(tokens') = f.n + 1 => tokens'[f.n + 1] = t
  <2>1. f.n \in Nat
    BY <1>1
  <2>2. CASE tokens' = kept
    BY <2>1, <2>2, <1>8
  <2>3. CASE tokens' = Append(kept, t)
    BY <2>1, <2>3, <1>5, <1>8
  <2> QED BY <1>7, <2>2, <2>3
<1>10. Extends(tokens', tokens, f.n)
  BY <1>1, <1>3, <1>9 DEF Extends
<1>11. PayloadStopsAtSemicolon'
  <2>1. f.n \in 0..Len(tokens)
    BY <1>1
  <2> QED BY <2>1, <1>1, <1>2, <1>6, <1>9, <1>10, PayloadsKept
<1>12. /\ frames' \in Seq(Frame) /\ Len(frames') = Len(frames) - 1
       /\ \A k \in 1..Len(frames') : frames'[k] = frames[k]
  <2> DEFINE m == Len(frames) - 1
  <2>1. m \in 0..Len(frames) /\ frames' = SubSeq(frames, 1, m)
    BY <1>1, <1>2
  <2> HIDE DEF m
  <2>2. \A k \in 1..m : k \in 1..Len(frames)
    BY <2>1, <1>1
  <2>3. frames' \in Seq(Frame) /\ Len(frames') = m /\ \A k \in 1..m : frames'[k] = frames[k]
    BY <2>1, <2>2, <1>1
  <2> QED BY <2>3 DEF m
<1>13. ASSUME NEW k \in 1..Len(frames')
       PROVE  frames'[k].n \in 1..Len(tokens') /\ frames'[k].start \in 1..cur'
  <2>1. k \in 1..Len(frames) /\ k <= Len(frames) /\ Len(frames) \in 1..Len(frames)
    BY <1>1, <1>12
  <2>2. /\ frames[k].n \in 1..Len(tokens) /\ frames[k].start \in 1..cur
        /\ frames[k].n <= f.n
    BY <2>1 DEF TypeOK, FramesNest, f
  <2> QED BY <2>2, <1>1, <1>2, <1>9, <1>12
<1>14. FramesNest' /\ OpenPayloadsHaveNoSemicolon'
  <2>1. \A k \in 1..Len(frames') : k \in 1..Len(frames)
    BY <1>1, <1>12
  <2>2. FramesNest'
    BY <1>12, <2>1 DEF FramesNest
  <2>3. OpenPayloadsHaveNoSemicolon'
    BY <1>2, <1>12, <2>1 DEF OpenPayloadsHaveNoSemicolon
  <2> QED BY <2>2, <2>3
<1>15. TypeOK'
  <2>1. comments' \in Seq(Nat) /\ prevTokenLine' \in {-1} \cup Nat
    <3>1. CASE comments' = comments /\ prevTokenLine' = prevTokenLine
      BY <3>1, <1>1 DEF TypeOK
    <3>2. CASE comments' = <<>> /\ prevTokenLine' = line
      BY <3>2, <1>1
    <3> QED BY <1>7, <3>1, <3>2
  <2> QED BY <1>2, <1>9, <1>12, <1>13, <2>1 DEF TypeOK
<1>16. LineHasToken'
  BY <1>1, <1>9 DEF LineHasToken
<1>17. NoEmptyPayload'
  <2>1. \A k \in 1..Len(frames') : k \in 1..Len(frames)
    BY <1>1, <1>12
  <2> QED BY <2>1, <1>2, <1>12 DEF NoEmptyPayload, PeekIs
<1> QED BY <1>1, <1>10, <1>11, <1>14, <1>15, <1>16, <1>17 DEF f

LEMMA ReturnStep == Inv /\ Return => Inv' /\ Extends(tokens', tokens, Len(tokens))
<1> SUFFICES ASSUME Inv, Return PROVE Inv' /\ Extends(tokens', tokens, Len(tokens))
  OBVIOUS
<1> USE DEF Inv
<1>1. tokens \in Seq(Token) /\ Len(tokens) \in Nat /\ comments \in Seq(Nat)
  BY DEF TypeOK
<1>2. /\ tokens' \in Seq(Token) /\ Len(tokens') = Len(tokens)
      /\ Extends(tokens', tokens, Len(tokens))
  <2>1. CASE tokens # <<>> /\ comments # <<>>
    BY <2>1, <1>1, AttachExtends DEF Return, Flushed
  <2>2. CASE ~(tokens # <<>> /\ comments # <<>>)
    BY <2>2, <1>1, SameTokens DEF Return, Flushed
  <2> QED BY <2>1, <2>2
<1>3. PayloadStopsAtSemicolon'
  <2>1. Len(tokens) \in 0..Len(tokens) /\ Len(tokens') # Len(tokens) + 1 /\ input' = input
    BY <1>1, <1>2 DEF Return
  <2> QED BY <1>1, <1>2, <2>1, PayloadsKept
<1>4. TypeOK' /\ LineHasToken'
  BY <1>2 DEF Return, TypeOK, LineHasToken
<1>5. FramesNest' /\ OpenPayloadsHaveNoSemicolon' /\ NoEmptyPayload'
  BY DEF Return, FramesNest, OpenPayloadsHaveNoSemicolon, NoEmptyPayload, PeekIs
<1> QED BY <1>2, <1>3, <1>4, <1>5

LEMMA IdleStep == Inv /\ (Fail \/ UNCHANGED vars) => Inv'
BY DEF Inv, Fail, vars, TypeOK, FramesNest, OpenPayloadsHaveNoSemicolon,
       PayloadStopsAtSemicolon, LineHasToken, NoEmptyPayload, Breaks, PeekIs

\* The tokens that no open payload counts as its own.
SettledCount == IF frames = <<>> THEN Len(tokens) ELSE frames[1].n

LEMMA SettledStep == Inv /\ [Next]_vars => Extends(tokens', tokens, SettledCount)
<1> SUFFICES ASSUME Inv, [Next]_vars PROVE Extends(tokens', tokens, SettledCount)
  OBVIOUS
<1>1. /\ tokens \in Seq(Token) /\ Len(tokens) \in Nat
      /\ frames \in Seq(Frame) /\ Len(frames) \in Nat /\ (frames # <<>> => 1 \in 1..Len(frames))
  BY DEF Inv, TypeOK
<1>2. SettledCount \in 0..Len(tokens)
  BY <1>1 DEF SettledCount, Inv, TypeOK
<1>3. ASSUME NEW n \in Nat, SettledCount <= n, Extends(tokens', tokens, n)
      PROVE  Extends(tokens', tokens, SettledCount)
  BY <1>2, <1>3 DEF Extends
<1>4. CASE EndPayload
  <2>1. PICK n \in 1..Len(tokens) : n = frames[Len(frames)].n /\ Extends(tokens', tokens, n)
    BY <1>4, EndPayloadStep
  <2>2. frames # <<>> /\ 1 \in 1..Len(frames) /\ Len(frames) \in 1..Len(frames)
    BY <1>1, <1>4 DEF EndPayload
  <2>3. SettledCount <= n
    BY <1>1, <2>1, <2>2 DEF SettledCount, Inv, FramesNest
  <2> QED BY <1>1, <1>3, <2>1, <2>3
<1>5. CASE tokens' = tokens
  BY <1>1, <1>2, <1>3, <1>5, SameTokens
<1>6. CASE Extends(tokens', tokens, Len(tokens))
  BY <1>1, <1>2, <1>3, <1>6
<1> QED BY <1>4, <1>5, <1>6, BlankStep, TokenStep, ParameterStep, CommentStep, HintStep,
           ReturnStep
        DEF Next, Fail, vars

LEMMA StepInv == Inv /\ [Next]_vars => Inv'
BY BlankStep, TokenStep, ParameterStep, CommentStep, HintStep, EndPayloadStep,
   ReturnStep, IdleStep
   DEF Next

THEOREM Invariance == Spec => []Inv
<1>1. Init => Inv BY InitInv
<1>2. Inv /\ [Next]_vars => Inv' BY StepInv
<1> QED BY <1>1, <1>2, PTL DEF Spec

\* The variables of the scan keep their types for every set of statements, and
\* an open payload never outlives the tokens it counts (tokenizer.go:376-399).
THEOREM TypeCorrect == Spec => []TypeOK
BY Invariance, PTL DEF Inv

\* The verbatim text of a command never contains a semicolon and is followed by
\* one or by the end, for statements of any length (tokenizer.go:376-397).
THEOREM PayloadsEndAtSemicolon == Spec => []PayloadStopsAtSemicolon
BY Invariance, PTL DEF Inv

LEMMA ExtendedPrefix ==
    ASSUME NEW c \in Seq(Nat), NEW cs \in Seq(Nat)
    PROVE  SubSeq(c \o cs, 1, Len(c)) = c /\ SubSeq(c, 1, Len(c)) = c
           /\ Len(c) \in 0..Len(c \o cs) /\ Len(c) \in 0..Len(c)
OBVIOUS

LEMMA Bared ==
    ASSUME NEW r \in Token
    PROVE  [r EXCEPT !.comments = <<>>]
               = [type |-> r.type, text |-> r.text, line |-> r.line,
                  start |-> r.start, end |-> r.end, comments |-> <<>>]
BY DEF Token

LEMMA SettledStayStep ==
    ASSUME Inv, Inv', [Next]_vars
    PROVE  LET n == IF frames = <<>> THEN Len(tokens) ELSE frames[1].n
           IN  /\ Len(tokens') >= n
               /\ \A k \in 1..n :
                      /\ [tokens'[k] EXCEPT !.comments = <<>>] = [tokens[k] EXCEPT !.comments = <<>>]
                      /\ \E m \in 0..Len(tokens'[k].comments) :
                             SubSeq(tokens'[k].comments, 1, m) = tokens[k].comments
<1>1. Extends(tokens', tokens, SettledCount)
  BY SettledStep
<1>2. /\ Len(tokens) \in Nat /\ tokens \in Seq(Token) /\ tokens' \in Seq(Token)
      /\ frames \in Seq(Frame) /\ (frames # <<>> => 1 \in 1..Len(frames))
  BY DEF Inv, TypeOK
<1>9. \A i \in 1..Len(frames) : frames[i].n \in 1..Len(tokens)
  BY DEF Inv, TypeOK
<1>3. SettledCount \in 0..Len(tokens) /\ Len(tokens') >= SettledCount /\ Len(tokens') \in Nat
  <2>1. SettledCount \in 0..Len(tokens)
    BY <1>2, <1>9 DEF SettledCount
  <2>2. Len(tokens') >= SettledCount /\ Len(tokens') \in Nat
    BY <1>1, <1>2, <2>1 DEF Extends
  <2> QED BY <2>1, <2>2
<1>4. ASSUME NEW k \in 1..SettledCount
      PROVE  /\ [tokens'[k] EXCEPT !.comments = <<>>] = [tokens[k] EXCEPT !.comments = <<>>]
             /\ \E m \in 0..Len(tokens'[k].comments) :
                    SubSeq(tokens'[k].comments, 1, m) = tokens[k].comments
  <2> DEFINE t == tokens[k]
             u == tokens'[k]
  <2>1. t \in Token /\ u \in Token /\ MoreComments(u, t)
    BY <1>1, <1>2, <1>3 DEF Extends
  <2> HIDE DEF t, u
  <2>2. [u EXCEPT !.comments = <<>>] = [t EXCEPT !.comments = <<>>]
    <3> DEFINE bare(r) == [type |-> r.type, text |-> r.text, line |-> r.line,
                           start |-> r.start, end |-> r.end, comments |-> <<>>]
    <3>1. [u EXCEPT !.comments = <<>>] = bare(u) BY <2>1, Bared
    <3>2. [t EXCEPT !.comments = <<>>] = bare(t) BY <2>1, Bared
    <3>3. bare(u) = bare(t) BY <2>1 DEF MoreComments, SameButComments
    <3> QED BY <3>1, <3>2, <3>3
  <2>3. t.comments \in Seq(Nat)
    BY <2>1 DEF Token
  <2>4. \E m \in 0..Len(u.comments) : SubSeq(u.comments, 1, m) = t.comments
    <3>1. CASE u.comments = t.comments
      BY <3>1, <2>3, ExtendedPrefix
    <3>2. CASE \E cs \in Seq(Nat) : u.comments = t.comments \o cs
      BY <3>2, <2>3, ExtendedPrefix
    <3> QED BY <2>1, <3>1, <3>2 DEF MoreComments
  <2> QED BY <2>2, <2>4 DEF t, u
<1> QED BY <1>3, <1>4 DEF SettledCount

\* However deep commands nest, cutting back the shared token list never drops or
\* rewrites a token scanned before the outermost of them (tokenizer.go:389-392).
THEOREM SettledTokens == Spec => SettledTokensStay
<1>1. Inv /\ Inv' /\ [Next]_vars =>
          [LET n == IF frames = <<>> THEN Len(tokens) ELSE frames[1].n
           IN  /\ Len(tokens') >= n
               /\ \A k \in 1..n :
                      /\ [tokens'[k] EXCEPT !.comments = <<>>] = [tokens[k] EXCEPT !.comments = <<>>]
                      /\ \E m \in 0..Len(tokens'[k].comments) :
                             SubSeq(tokens'[k].comments, 1, m) = tokens[k].comments]_vars
  BY SettledStayStep
<1> QED BY <1>1, Invariance, PTL DEF Spec, SettledTokensStay

----------------------------------------------------------------------------
\* What the tokens spell, and the lines they are on.

Significant(i) == input[i] \notin Blanks \cup Comments

\* A lexeme the scan has passed is spelled by a token.
SpelledSoFar ==
    \A i \in 1..cur : Significant(i) => \E k \in 1..Len(tokens) : i \in tokens[k].text

\* Tokens spell what was passed, in order.
TokensInOrder ==
    /\ \A k \in 1..Len(tokens) : \A i \in tokens[k].text : i \in 1..cur
    /\ \A k, m \in 1..Len(tokens) : k < m =>
           \A i \in tokens[k].text, j \in tokens[m].text : i < j

\* An open payload begins after what the tokens it counts spell, and holds what
\* the others spell; a nested one begins no earlier.
PayloadsApart ==
    /\ \A k \in 1..Len(frames) : \A m \in 1..Len(tokens) : \A i \in tokens[m].text :
           IF m <= frames[k].n THEN i <= frames[k].start ELSE frames[k].start < i
    /\ \A j, k \in 1..Len(frames) : j <= k => frames[j].start <= frames[k].start

ReadToTheEnd == result = "tokens" => cur = Len(input)

\* Where the line counter stands, when no parameter was scanned ahead for.
NoParameter == \A i \in 1..Len(input) : input[i] # "dollar"
LineAt(e) == 1 + Breaks(1, e) - (IF e > 0 /\ input[e] = "nl" THEN 1 ELSE 0)
LinesCounted ==
    NoParameter =>
        /\ line = LineAt(cur)
        /\ \A k \in 1..Len(tokens) : tokens[k].end \in 1..cur
                                    /\ tokens[k].line = LineAt(tokens[k].end)

Spells == SpelledSoFar /\ TokensInOrder /\ PayloadsApart /\ ReadToTheEnd /\ LinesCounted

LEMMA SpellsInit == Init => Spells
<1> SUFFICES ASSUME Init PROVE Spells OBVIOUS
<1>1. cur = 0 /\ tokens = <<>> /\ frames = <<>> /\ line = 1 /\ result = "scanning"
  BY DEF Init
<1>2. Breaks(1, 0) = 0
  <2>1. {i \in 1..0 : input[i] \in {"nl", "spread", "text"}} = {} OBVIOUS
  <2> QED BY <2>1, FS_EmptySet DEF Breaks
<1>3. LineAt(0) = 1 BY <1>2 DEF LineAt
<1>4. SpelledSoFar /\ TokensInOrder /\ PayloadsApart /\ ReadToTheEnd
  BY <1>1 DEF SpelledSoFar, TokensInOrder, PayloadsApart, ReadToTheEnd
<1>5. LinesCounted BY <1>1, <1>3 DEF LinesCounted
<1> QED BY <1>4, <1>5 DEF Spells

\* The breaks up to a lexeme are those before it and its own.
LEMMA BreaksGrow ==
    ASSUME NEW n \in Nat
    PROVE  /\ Breaks(1, n) \in Nat /\ Breaks(n + 1, n + 1) \in Nat
           /\ Breaks(1, n + 1) = Breaks(1, n) + Breaks(n + 1, n + 1)
           /\ Breaks(n + 1, n + 1) = IF input[n + 1] \in {"nl", "spread", "text"} THEN 1 ELSE 0
<1> DEFINE B(from, to) == {i \in from..to : input[i] \in {"nl", "spread", "text"}}
<1>0. Breaks(1, n) = Cardinality(B(1, n)) /\ Breaks(n + 1, n + 1) = Cardinality(B(n + 1, n + 1))
      /\ Breaks(1, n + 1) = Cardinality(B(1, n + 1))
  BY DEF Breaks
<1>1. IsFiniteSet(B(1, n)) /\ Cardinality(B(1, n)) \in Nat
  <2>1. IsFiniteSet(1..n) BY FS_Interval
  <2>2. B(1, n) \subseteq 1..n OBVIOUS
  <2> HIDE DEF B
  <2> QED BY <2>1, <2>2, FS_Subset, FS_CardinalityType
<1>2. CASE input[n + 1] \in {"nl", "spread", "text"}
  <2>1. B(1, n + 1) = B(1, n) \cup {n + 1} /\ n + 1 \notin B(1, n) /\ B(n + 1, n + 1) = {n + 1}
    BY <1>2
  <2> HIDE DEF B
  <2>2. Cardinality(B(1, n + 1)) = Cardinality(B(1, n)) + 1 BY <1>1, <2>1, FS_AddElement
  <2>3. Cardinality(B(n + 1, n + 1)) = 1 BY <2>1, FS_Singleton
  <2> QED BY <1>0, <1>1, <1>2, <2>2, <2>3
<1>3. CASE input[n + 1] \notin {"nl", "spread", "text"}
  <2>1. B(1, n + 1) = B(1, n) /\ B(n + 1, n + 1) = {} BY <1>3
  <2> HIDE DEF B
  <2>2. Cardinality(B(n + 1, n + 1)) = 0 BY <2>1, FS_EmptySet
  <2> QED BY <1>0, <1>1, <1>3, <2>1, <2>2
<1> QED BY <1>2, <1>3

\* What scan advances the counter to before the next lexeme.
LEMMA LineGrows ==
    ASSUME Inv, cur < Len(input), line = LineAt(cur)
    PROVE  LineNow = 1 + Breaks(1, cur) /\ LineAt(cur + 1) \in Int
           /\ LineAt(cur + 1) = LineNow + Breaks(cur + 1, cur + 1)
                                  - (IF input[cur + 1] = "nl" THEN 1 ELSE 0)
<1>1. cur \in Nat /\ line \in Nat BY DEF Inv, TypeOK
<1>2. /\ Breaks(1, cur) \in Nat /\ Breaks(cur + 1, cur + 1) \in Nat
      /\ Breaks(1, cur + 1) = Breaks(1, cur) + Breaks(cur + 1, cur + 1)
  BY <1>1, BreaksGrow
<1>3. LineNow = 1 + Breaks(1, cur) BY <1>1, <1>2 DEF LineNow, LineAt
<1> QED BY <1>1, <1>2, <1>3 DEF LineAt

LEMMA AttachLength ==
    ASSUME NEW ts \in Seq(Token), NEW cs
    PROVE  Len(Attach(ts, cs)) = Len(ts)
BY DEF Attach

\* One lexeme is consumed: it is spelled by a token of its own, or none spells
\* it and it needs none.
LEMMA SpellsScan ==
    ASSUME Inv, Spells, Scanning, input' = input, cur' = cur + 1, result' = result,
           tokens' \in Seq(Token), Extends(tokens', tokens, Len(tokens)),
           \/ Len(tokens') = Len(tokens) /\ ~ Significant(cur + 1)
           \/ /\ Len(tokens') = Len(tokens) + 1
              /\ tokens'[Len(tokens) + 1].text = {cur + 1}
              /\ NoParameter => /\ tokens'[Len(tokens) + 1].end = cur + 1
                                /\ tokens'[Len(tokens) + 1].line = line'
              /\ Next1 # "nl",
           \/ frames' = frames
           \/ frames' = Opened(cur + 1) /\ Len(tokens') = Len(tokens) + 1,
           NoParameter => line' = LineNow + (IF Next1 \in Blanks THEN 0
                                             ELSE Breaks(cur + 1, cur + 1))
    PROVE  Spells'
<1> DEFINE n == Len(tokens)
           i == cur + 1
<1>1. /\ n \in Nat /\ tokens \in Seq(Token) /\ cur \in Nat /\ cur < Len(input)
      /\ frames \in Seq(Frame) /\ Len(frames) \in Nat /\ Len(input) \in Nat
      /\ \A k \in 1..Len(frames) : frames[k].n \in 1..n /\ frames[k].start \in 1..cur
  BY DEF Inv, TypeOK, Scanning, LoopEnds, AtEnd
<1>2. \A k \in 1..n : /\ tokens'[k].text = tokens[k].text
                      /\ tokens'[k].end = tokens[k].end /\ tokens'[k].line = tokens[k].line
  BY DEF Extends, MoreComments, SameButComments
<1>3. \A k \in 1..Len(tokens') : k \notin 1..n =>
        k = n + 1 /\ Len(tokens') = n + 1 /\ tokens'[k].text = {i}
  BY <1>1
<1>4. Len(tokens') \in {n, n + 1} OBVIOUS
<1>5. SpelledSoFar'
  <2> SUFFICES ASSUME NEW j \in 1..i, Significant(j)
               PROVE  \E k \in 1..Len(tokens') : j \in tokens'[k].text
    BY DEF SpelledSoFar, Significant
  <2>1. CASE j = i
    <3>1. Len(tokens') = n + 1 /\ tokens'[n + 1].text = {i} BY <2>1
    <3>2. n + 1 \in 1..Len(tokens') BY <1>1, <3>1
    <3> QED BY <2>1, <3>1, <3>2
  <2>2. CASE j # i
    <3>1. j \in 1..cur BY <1>1, <2>2
    <3>2. PICK k \in 1..n : j \in tokens[k].text BY <3>1 DEF Spells, SpelledSoFar
    <3>3. k \in 1..Len(tokens') /\ j \in tokens'[k].text BY <1>1, <1>2, <1>4, <3>2
    <3> QED BY <3>3
  <2> QED BY <2>1, <2>2
<1>6. TokensInOrder'
  <2>1. ASSUME NEW k \in 1..Len(tokens'), NEW j \in tokens'[k].text PROVE j \in 1..i
    <3>1. CASE k \in 1..n
      <4>1. j \in 1..cur BY <1>2, <2>1, <3>1 DEF Spells, TokensInOrder
      <4> QED BY <1>1, <4>1
    <3>2. CASE k \notin 1..n BY <1>1, <1>3, <2>1, <3>2
    <3> QED BY <3>1, <3>2
  <2>2. ASSUME NEW k \in 1..Len(tokens'), NEW m \in 1..Len(tokens'), k < m,
               NEW j \in tokens'[k].text, NEW l \in tokens'[m].text
        PROVE  j < l
    <3>1. CASE m \in 1..n
      <4>1. k \in 1..n BY <1>1, <2>2, <3>1
      <4>2. j \in tokens[k].text /\ l \in tokens[m].text BY <1>2, <2>2, <3>1, <4>1
      <4> QED BY <2>2, <3>1, <4>1, <4>2 DEF Spells, TokensInOrder
    <3>2. CASE m \notin 1..n
      <4>1. m = n + 1 /\ l = i BY <1>3, <2>2, <3>2
      <4>2. k \in 1..n BY <1>1, <2>2, <4>1
      <4>3. j \in 1..cur BY <1>2, <2>2, <4>2 DEF Spells, TokensInOrder
      <4> QED BY <1>1, <4>1, <4>3
    <3> QED BY <3>1, <3>2
  <2> QED BY <2>1, <2>2 DEF TokensInOrder
<1>7. PayloadsApart'
  <2> DEFINE f == [n |-> n + 1, start |-> i]
  <2>1. ASSUME NEW k \in 1..Len(frames')
        PROVE  \/ k \in 1..Len(frames) /\ frames'[k] = frames[k]
               \/ k = Len(frames) + 1 /\ frames'[k].n = n + 1 /\ frames'[k].start = i
                  /\ Len(tokens') = n + 1
    <3>1. CASE frames' = frames BY <3>1
    <3>2. CASE frames' = Opened(i) /\ Len(tokens') = n + 1
      <4>1. frames' = Append(frames, f) BY <3>2 DEF Opened
      <4>2. f.n = n + 1 /\ f.start = i OBVIOUS
      <4> HIDE DEF f, n, i
      <4> QED BY <1>1, <3>2, <4>1, <4>2
    <3> QED BY <3>1, <3>2
  <2>2. ASSUME NEW k \in 1..Len(frames'), NEW m \in 1..Len(tokens'), NEW j \in tokens'[m].text
        PROVE  IF m <= frames'[k].n THEN j <= frames'[k].start ELSE frames'[k].start < j
    <3>1. CASE k \in 1..Len(frames) /\ frames'[k] = frames[k]
      <4>1. CASE m \in 1..n
        <5>1. j \in tokens[m].text BY <1>2, <2>2, <4>1
        <5>2. IF m <= frames[k].n THEN j <= frames[k].start ELSE frames[k].start < j
          BY <3>1, <4>1, <5>1 DEF Spells, PayloadsApart
        <5> QED BY <3>1, <5>2
      <4>2. CASE m \notin 1..n
        <5>1. m = n + 1 /\ j = i BY <1>3, <2>2, <4>2
        <5> QED BY <1>1, <3>1, <5>1
      <4> QED BY <4>1, <4>2
    <3>2. CASE /\ k = Len(frames) + 1 /\ frames'[k].n = n + 1 /\ frames'[k].start = i
               /\ Len(tokens') = n + 1
      <4>1. j \in 1..i BY <1>6, <2>2 DEF TokensInOrder
      <4> QED BY <1>1, <3>2, <4>1
    <3> QED BY <2>1, <3>1, <3>2
  <2>3. ASSUME NEW j \in 1..Len(frames'), NEW k \in 1..Len(frames'), j <= k
        PROVE  frames'[j].start <= frames'[k].start
    <3>1. CASE k \in 1..Len(frames) /\ frames'[k] = frames[k]
      <4>1. j \in 1..Len(frames) /\ frames'[j] = frames[j] BY <1>1, <2>1, <2>3, <3>1
      <4> QED BY <2>3, <3>1, <4>1 DEF Spells, PayloadsApart
    <3>2. CASE k = Len(frames) + 1 /\ frames'[k].start = i
      <4>1. CASE j \in 1..Len(frames) /\ frames'[j] = frames[j] BY <1>1, <3>2, <4>1
      <4>2. CASE frames'[j].start = i BY <1>1, <3>2, <4>2
      <4> QED BY <2>1, <4>1, <4>2
    <3> QED BY <2>1, <3>1, <3>2
  <2> QED BY <2>2, <2>3 DEF PayloadsApart
<1>8. ReadToTheEnd' BY DEF ReadToTheEnd, Scanning
<1>9. LinesCounted'
  <2> SUFFICES ASSUME NoParameter
               PROVE  /\ line' = LineAt(i)
                      /\ \A k \in 1..Len(tokens') : tokens'[k].end \in 1..i
                                                   /\ tokens'[k].line = LineAt(tokens'[k].end)
    BY DEF LinesCounted, NoParameter, LineAt, Breaks
  <2>1. /\ line = LineAt(cur)
        /\ \A k \in 1..n : tokens[k].end \in 1..cur /\ tokens[k].line = LineAt(tokens[k].end)
    BY DEF Spells, LinesCounted
  <2>2. /\ LineNow = 1 + Breaks(1, cur)
        /\ LineAt(i) = LineNow + Breaks(i, i) - (IF input[i] = "nl" THEN 1 ELSE 0)
    BY <1>1, <2>1, LineGrows
  <2>3. /\ Breaks(1, cur) \in Nat
        /\ Breaks(i, i) = IF input[i] \in {"nl", "spread", "text"} THEN 1 ELSE 0
    BY <1>1, BreaksGrow
  <2>4. line' = LineAt(i)
    <3>1. line' = LineNow + (IF input[i] \in Blanks THEN 0 ELSE Breaks(i, i)) BY DEF Next1
    <3>2. CASE input[i] = "nl" BY <2>2, <2>3, <3>1, <3>2 DEF Blanks
    <3>3. CASE input[i] = "space" BY <2>2, <2>3, <3>1, <3>3 DEF Blanks
    <3>4. CASE input[i] \notin Blanks BY <2>2, <2>3, <3>1, <3>4 DEF Blanks
    <3> QED BY <3>2, <3>3, <3>4 DEF Blanks
  <2>5. ASSUME NEW k \in 1..Len(tokens')
        PROVE  tokens'[k].end \in 1..i /\ tokens'[k].line = LineAt(tokens'[k].end)
    <3>1. CASE k \in 1..n BY <1>1, <1>2, <2>1, <3>1
    <3>2. CASE k \notin 1..n
      <4>1. k = n + 1 /\ Len(tokens') = n + 1 BY <1>3, <3>2
      <4>2. tokens'[n + 1].end = i /\ tokens'[n + 1].line = line' BY <1>1, <4>1
      <4> QED BY <1>1, <2>4, <4>1, <4>2
    <3> QED BY <3>1, <3>2
  <2> QED BY <2>4, <2>5
<1> QED BY <1>5, <1>6, <1>7, <1>8, <1>9 DEF Spells

\* The string of a payload spells what the dropped tokens spelled.
LEMMA SpellsEndPayload == Inv /\ Spells /\ EndPayload => Spells'
<1> SUFFICES ASSUME Inv, Spells, EndPayload PROVE Spells' OBVIOUS
<1> DEFINE f == frames[Len(frames)]
           payload == Payload(f.start + 1, cur)
           t == [type |-> "string", text |-> payload, line |-> line,
                 start |-> start, end |-> cur, comments |-> comments]
           ts == IF comments = <<>> THEN tokens ELSE Attach(tokens, comments)
           kept == Kept(ts, f.n)
<1>1. /\ frames # <<>> /\ Len(frames) \in 1..Len(frames) /\ frames \in Seq(Frame)
      /\ Len(frames) \in Nat \ {0}
      /\ f.n \in 1..Len(tokens) /\ f.start \in 1..cur /\ cur \in Nat
      /\ tokens \in Seq(Token) /\ Len(tokens) \in Nat /\ comments \in Seq(Nat)
  <2>1. /\ frames \in Seq(Frame) /\ tokens \in Seq(Token) /\ comments \in Seq(Nat)
        /\ cur \in Nat
        /\ \A k \in 1..Len(frames) :
             frames[k].n \in 1..Len(tokens) /\ frames[k].start \in 1..cur
    <3>1. Len(input) \in Nat BY DEF Inv, TypeOK
    <3> QED BY <3>1 DEF Inv, TypeOK
  <2>2. frames # <<>> BY DEF EndPayload
  <2>3. Len(frames) \in Nat \ {0} /\ Len(frames) \in 1..Len(frames) BY <2>1, <2>2
  <2> QED BY <2>1, <2>2, <2>3
<1>2. /\ input' = input /\ cur' = cur /\ line' = line /\ result' = result /\ result = "scanning"
      /\ frames' = SubSeq(frames, 1, Len(frames) - 1)
      /\ IF payload = {} THEN tokens' = kept ELSE tokens' = Append(kept, t)
  BY DEF EndPayload
<1>3. t.text = payload /\ t.end = cur /\ t.line = line OBVIOUS
<1>4. /\ ts \in Seq(Token) /\ Len(ts) = Len(tokens) /\ Extends(ts, tokens, Len(tokens))
  <2>1. CASE comments = <<>> BY <2>1, <1>1, SameTokens
  <2>2. CASE comments # <<>> BY <2>2, <1>1, AttachExtends
  <2> QED BY <2>1, <2>2
<1>5. \A i : i \in payload <=> i \in (f.start + 1)..cur /\ input[i] \notin Blanks
  BY DEF Payload
<1> HIDE DEF f, payload, t, ts
<1>6. kept \in Seq(Token) /\ Len(kept) = f.n /\ \A k \in 1..f.n : kept[k] = ts[k]
  BY <1>1, <1>4 DEF Kept
<1>7. ASSUME NEW k \in 1..f.n
      PROVE  /\ k \in 1..Len(tokens) /\ ts[k].text = tokens[k].text
             /\ ts[k].end = tokens[k].end /\ ts[k].line = tokens[k].line
  <2>1. k \in 1..Len(tokens) BY <1>1
  <2> QED BY <1>4, <2>1 DEF Extends, MoreComments, SameButComments
<1> HIDE DEF kept
<1>8. /\ Len(tokens') \in {f.n, f.n + 1}
      /\ payload # {} => Len(tokens') = f.n + 1
      /\ Len(tokens') = f.n + 1 => tokens'[f.n + 1] = t
      /\ \A k \in 1..f.n : tokens'[k] = ts[k]
  <2>1. f.n \in Nat BY <1>1
  <2>2. CASE payload = {} BY <1>2, <1>6, <2>1, <2>2
  <2>3. CASE payload # {}
    <3>1. tokens' = Append(kept, t) BY <1>2, <2>3
    <3> QED BY <1>6, <2>1, <2>3, <3>1
  <2> QED BY <2>2, <2>3
<1>9. \A k \in 1..f.n : /\ k \in 1..Len(tokens) /\ tokens'[k].text = tokens[k].text
                        /\ tokens'[k].end = tokens[k].end /\ tokens'[k].line = tokens[k].line
  BY <1>7, <1>8
<1>10. \A k \in 1..Len(tokens') : k \notin 1..f.n =>
         k = f.n + 1 /\ Len(tokens') = f.n + 1 /\ tokens'[k] = t
  BY <1>1, <1>8
<1>11. \A m \in 1..Len(tokens) : \A i \in tokens[m].text :
         IF m <= f.n THEN i <= f.start ELSE f.start < i
  BY <1>1 DEF Spells, PayloadsApart, f
<1>12. SpelledSoFar'
  <2> SUFFICES ASSUME NEW i \in 1..cur, Significant(i)
               PROVE  \E k \in 1..Len(tokens') : i \in tokens'[k].text
    BY <1>2 DEF SpelledSoFar, Significant
  <2>1. PICK k \in 1..Len(tokens) : i \in tokens[k].text BY DEF Spells, SpelledSoFar
  <2>2. CASE k <= f.n
    <3>1. k \in 1..f.n /\ k \in 1..Len(tokens') BY <1>1, <1>8, <2>2
    <3> QED BY <1>9, <2>1, <3>1
  <2>3. CASE f.n < k
    <3>1. f.start < i BY <1>1, <1>11, <2>1, <2>3
    <3>2. i \in payload
      <4>1. i \in (f.start + 1)..cur BY <1>1, <3>1
      <4>2. input[i] \notin Blanks BY DEF Significant
      <4> QED BY <1>5, <4>1, <4>2
    <3>3. Len(tokens') = f.n + 1 /\ tokens'[f.n + 1].text = payload BY <1>3, <1>8, <3>2
    <3>4. f.n + 1 \in 1..Len(tokens') BY <1>1, <3>3
    <3> QED BY <3>2, <3>3, <3>4
  <2> QED BY <1>1, <2>2, <2>3
<1>13. \A k \in 1..Len(tokens') : \A i \in tokens'[k].text :
           \/ /\ k \in 1..f.n /\ k \in 1..Len(tokens) /\ i \in tokens[k].text
              /\ i \in 1..cur /\ i <= f.start
           \/ k = f.n + 1 /\ i \in 1..cur /\ f.start < i
  <2> SUFFICES ASSUME NEW k \in 1..Len(tokens'), NEW i \in tokens'[k].text
               PROVE  \/ /\ k \in 1..f.n /\ k \in 1..Len(tokens) /\ i \in tokens[k].text
                         /\ i \in 1..cur /\ i <= f.start
                      \/ k = f.n + 1 /\ i \in 1..cur /\ f.start < i
    OBVIOUS
  <2>1. CASE k \in 1..f.n
    <3>1. k \in 1..Len(tokens) /\ i \in tokens[k].text BY <1>9, <2>1
    <3>2. i \in 1..cur BY <3>1 DEF Spells, TokensInOrder
    <3>3. i <= f.start BY <1>11, <2>1, <3>1
    <3> QED BY <2>1, <3>1, <3>2, <3>3
  <2>2. CASE k \notin 1..f.n
    <3>1. k = f.n + 1 /\ i \in payload BY <1>3, <1>10, <2>2
    <3> QED BY <1>1, <1>5, <3>1
  <2> QED BY <2>1, <2>2
<1>14. TokensInOrder'
  <2>1. ASSUME NEW k \in 1..Len(tokens'), NEW m \in 1..Len(tokens'), k < m,
               NEW i \in tokens'[k].text, NEW j \in tokens'[m].text
        PROVE  i < j
    <3>1. CASE m \in 1..f.n
      <4>1. k \in 1..f.n BY <1>1, <2>1, <3>1
      <4>2. /\ k \in 1..Len(tokens) /\ m \in 1..Len(tokens)
            /\ i \in tokens[k].text /\ j \in tokens[m].text
        BY <1>9, <3>1, <4>1
      <4> QED BY <2>1, <4>2 DEF Spells, TokensInOrder
    <3>2. CASE m \notin 1..f.n
      <4>1. m = f.n + 1 /\ f.start < j /\ j \in 1..cur BY <1>13, <3>2
      <4>2. k # f.n + 1 BY <1>1, <2>1, <4>1
      <4>3. i <= f.start /\ i \in 1..cur BY <1>13, <4>2
      <4> QED BY <1>1, <4>1, <4>3
    <3> QED BY <3>1, <3>2
  <2> QED BY <1>2, <1>13, <2>1 DEF TokensInOrder
<1>15. \A k \in 1..Len(frames') :
         k \in 1..Len(frames) /\ frames'[k] = frames[k] /\ frames[k].n <= f.n
         /\ frames[k].start <= f.start /\ frames[k].n \in Nat /\ frames[k].start \in Nat
  <2> DEFINE m == Len(frames) - 1
  <2>1. m \in 0..Len(frames) /\ frames' = SubSeq(frames, 1, m) BY <1>1, <1>2
  <2> HIDE DEF m
  <2>2. \A k \in 1..m : k \in 1..Len(frames) /\ k <= Len(frames) BY <2>1, <1>1
  <2>3. Len(frames') = m /\ \A k \in 1..m : frames'[k] = frames[k] BY <2>1, <2>2, <1>1
  <2>4. \A k \in 1..m : frames[k].n <= f.n /\ frames[k].start <= f.start
    BY <1>1, <2>2 DEF Inv, FramesNest, Spells, PayloadsApart, f
  <2>5. \A k \in 1..m : frames[k].n \in Nat /\ frames[k].start \in Nat
    BY <1>1, <2>2 DEF Inv, TypeOK
  <2> QED BY <2>2, <2>3, <2>4, <2>5
<1>16. PayloadsApart'
  <2>1. ASSUME NEW k \in 1..Len(frames'), NEW m \in 1..Len(tokens'), NEW i \in tokens'[m].text
        PROVE  IF m <= frames'[k].n THEN i <= frames'[k].start ELSE frames'[k].start < i
    <3>1. CASE m \in 1..f.n /\ m \in 1..Len(tokens) /\ i \in tokens[m].text
      <4>1. IF m <= frames[k].n THEN i <= frames[k].start ELSE frames[k].start < i
        BY <1>15, <3>1 DEF Spells, PayloadsApart
      <4> QED BY <1>15, <4>1
    <3>2. CASE m = f.n + 1 /\ i \in 1..cur /\ f.start < i
      <4>1. /\ frames'[k].n <= f.n /\ frames'[k].start <= f.start
            /\ frames'[k].n \in Nat /\ frames'[k].start \in Nat
        BY <1>15
      <4>2. f.n \in Nat /\ f.start \in Nat /\ i \in Nat BY <1>1, <3>2
      <4>3. ~ (m <= frames'[k].n) BY <3>2, <4>1, <4>2
      <4>4. frames'[k].start < i BY <3>2, <4>1, <4>2
      <4> QED BY <4>3, <4>4
    <3> QED BY <1>13, <3>1, <3>2
  <2>2. ASSUME NEW j \in 1..Len(frames'), NEW k \in 1..Len(frames'), j <= k
        PROVE  frames'[j].start <= frames'[k].start
    BY <1>15, <2>2 DEF Spells, PayloadsApart
  <2> QED BY <2>1, <2>2 DEF PayloadsApart
<1>17. ReadToTheEnd' BY <1>2 DEF ReadToTheEnd
<1>18. LinesCounted'
  <2> SUFFICES ASSUME NoParameter
               PROVE  /\ line = LineAt(cur)
                      /\ \A k \in 1..Len(tokens') : tokens'[k].end \in 1..cur
                                                   /\ tokens'[k].line = LineAt(tokens'[k].end)
    BY <1>2 DEF LinesCounted, NoParameter, LineAt, Breaks
  <2>1. /\ line = LineAt(cur)
        /\ \A k \in 1..Len(tokens) : tokens[k].end \in 1..cur
                                    /\ tokens[k].line = LineAt(tokens[k].end)
    BY DEF Spells, LinesCounted
  <2>2. ASSUME NEW k \in 1..Len(tokens')
        PROVE  tokens'[k].end \in 1..cur /\ tokens'[k].line = LineAt(tokens'[k].end)
    <3>1. CASE k \in 1..f.n BY <1>9, <2>1, <3>1
    <3>2. CASE k \notin 1..f.n
      <4>1. tokens'[k].end = cur /\ tokens'[k].line = line BY <1>3, <1>10, <3>2
      <4>2. cur \in 1..cur BY <1>1
      <4> QED BY <2>1, <4>1, <4>2
    <3> QED BY <3>1, <3>2
  <2> QED BY <2>1, <2>2
<1> QED BY <1>12, <1>14, <1>16, <1>17, <1>18 DEF Spells

\* Comments given to the last token change nothing that is said.
LEMMA SpellsSame ==
    ASSUME Inv, Spells, Extends(tokens', tokens, Len(tokens)), Len(tokens') = Len(tokens),
           UNCHANGED <<input, cur, line, frames>>, result' = "tokens" => cur = Len(input)
    PROVE  Spells'
<1>1. \A k \in 1..Len(tokens) : /\ tokens'[k].text = tokens[k].text
                                /\ tokens'[k].end = tokens[k].end /\ tokens'[k].line = tokens[k].line
  BY DEF Extends, MoreComments, SameButComments
<1>2. SpelledSoFar'
  <2> SUFFICES ASSUME NEW i \in 1..cur, Significant(i)
               PROVE  \E k \in 1..Len(tokens) : i \in tokens'[k].text
    BY DEF SpelledSoFar, Significant
  <2>1. PICK k \in 1..Len(tokens) : i \in tokens[k].text BY DEF Spells, SpelledSoFar
  <2> QED BY <1>1, <2>1
<1>3. TokensInOrder' BY <1>1 DEF Spells, TokensInOrder
<1>4. PayloadsApart' BY <1>1 DEF Spells, PayloadsApart
<1>5. ReadToTheEnd' BY DEF ReadToTheEnd
<1>6. LinesCounted'
  <2>1. /\ NoParameter' = NoParameter
        /\ \A e : LineAt(e)' = LineAt(e)
    BY DEF NoParameter, LineAt, Breaks
  <2> QED BY <1>1, <2>1 DEF Spells, LinesCounted
<1> QED BY <1>2, <1>3, <1>4, <1>5, <1>6 DEF Spells

LEMMA SpellsStep == Inv /\ Spells /\ [Next]_vars => Spells'
<1> SUFFICES ASSUME Inv, Spells, [Next]_vars PROVE Spells' OBVIOUS
<1> DEFINE i == cur + 1
<1>1. /\ tokens \in Seq(Token) /\ Len(tokens) \in Nat /\ comments \in Seq(Nat) /\ cur \in Nat
      /\ tokens' \in Seq(Token) /\ Len(input) \in Nat /\ input \in Seq(Lexemes)
  <2>1. Inv' BY StepInv
  <2> QED BY <2>1 DEF Inv, TypeOK
<1>2. Scanning => cur < Len(input) /\ i \in 1..Len(input)
  BY <1>1 DEF Scanning, LoopEnds, AtEnd, Inv, TypeOK
<1>3. ASSUME Scanning
      PROVE  LineNow + Breaks(i, i) \in Nat /\ LineNow + TagLines(i) \in Nat
  BY <1>2, <1>3, LineFacts DEF Inv
<1>4. CASE ScanBlank
  <2>1. Extends(tokens', tokens, Len(tokens)) BY <1>4, BlankStep
  <2>2. /\ Scanning /\ input' = input /\ cur' = cur + 1 /\ result' = result
        /\ tokens' = tokens /\ frames' = frames /\ line' = LineNow /\ Next1 \in Blanks
    BY <1>4 DEF ScanBlank, Offset
  <2>3. ~ Significant(cur + 1) BY <2>2 DEF Significant, Next1
  <2>4. line' = LineNow + (IF Next1 \in Blanks THEN 0 ELSE Breaks(cur + 1, cur + 1))
    <3>1. LineNow \in Nat BY <1>2, <2>2, LineFacts DEF Inv
    <3> QED BY <2>2, <3>1
  <2> QED BY <1>1, <2>1, <2>2, <2>3, <2>4, SpellsScan
<1>5. CASE ScanToken
  <2> DEFINE ln == LineNow + Breaks(i, i)
  <2>1. /\ Scanning /\ input' = input /\ cur' = cur + 1 /\ result' = result /\ line' = ln
        /\ tokens' = Add(Next1, {i}, ln, i, i)
        /\ frames' = IF StartsCommand(i) THEN Opened(i) ELSE frames
        /\ Next1 \in Plain /\ Next1 \in Lexemes
    BY <1>5 DEF ScanToken, Lexemes
  <2>2. ln \in Nat /\ i \in Nat /\ {i} \in SUBSET Nat BY <1>1, <1>3, <2>1
  <2> HIDE DEF ln
  <2>3. /\ Len(tokens') = Len(tokens) + 1 /\ tokens'[Len(tokens) + 1].text = {i}
        /\ tokens'[Len(tokens) + 1].line = ln /\ tokens'[Len(tokens) + 1].end = i
        /\ Extends(tokens', tokens, Len(tokens))
    BY <1>1, <2>1, <2>2, AddFacts
  <2>4. Next1 # "nl" /\ Next1 \notin Blanks BY <2>1 DEF Plain, Blanks
  <2>5. line' = LineNow + (IF Next1 \in Blanks THEN 0 ELSE Breaks(cur + 1, cur + 1))
    BY <2>1, <2>4 DEF ln
  <2> QED BY <1>1, <2>1, <2>3, <2>4, <2>5, SpellsScan
<1>6. CASE ScanParameter
  <2> DEFINE ln == LineNow + TagLines(i)
  <2>1. /\ Scanning /\ input' = input /\ cur' = cur + 1 /\ result' = result
        /\ tokens' = Add("dollar", {i}, ln, i, i) /\ frames' = frames /\ Next1 = "dollar"
    BY <1>6 DEF ScanParameter
  <2>2. ln \in Nat /\ i \in Nat /\ {i} \in SUBSET Nat /\ "dollar" \in Lexemes
    BY <1>1, <1>3, <2>1 DEF Lexemes
  <2> HIDE DEF ln
  <2>3. /\ Len(tokens') = Len(tokens) + 1 /\ tokens'[Len(tokens) + 1].text = {i}
        /\ Extends(tokens', tokens, Len(tokens))
    <3>1. tokens' = Add(Next1, {i}, ln, i, i) /\ Next1 \in Lexemes BY <2>1, <2>2
    <3>2. tokens \in Seq(Token) /\ comments \in Seq(Nat) BY <1>1
    <3>3. ln \in Nat /\ i \in Nat /\ {i} \in SUBSET Nat BY <2>2
    <3> HIDE DEF Next1
    <3> QED BY ONLY <3>1, <3>2, <3>3, AddFacts
  <2>4. ~ NoParameter BY <1>2, <2>1 DEF NoParameter, Next1
  <2>5. Next1 # "nl" BY <2>1
  <2> QED BY <1>1, <2>1, <2>3, <2>4, <2>5, SpellsScan
<1>7. CASE ScanComment
  <2>1. Extends(tokens', tokens, Len(tokens)) BY <1>7, CommentStep
  <2>2. /\ Scanning /\ input' = input /\ cur' = cur + 1 /\ result' = result
        /\ frames' = frames /\ line' = LineNow + Breaks(cur + 1, cur + 1) /\ Next1 \in Comments
        /\ tokens' = tokens \/ tokens' = Attach(tokens, Append(comments, cur + 1))
    BY <1>7 DEF ScanComment
  <2>3. ~ Significant(cur + 1) BY <2>2 DEF Significant, Next1
  <2>4. Next1 \notin Blanks BY <2>2 DEF Comments, Blanks
  <2>5. Len(tokens') = Len(tokens) BY <1>1, <2>2, AttachLength
  <2>6. line' = LineNow + (IF Next1 \in Blanks THEN 0 ELSE Breaks(cur + 1, cur + 1))
    BY <2>2, <2>4
  <2> QED BY <1>1, <2>1, <2>2, <2>3, <2>5, <2>6, SpellsScan
<1>8. CASE ScanHint
  <2> DEFINE ln == LineNow + Breaks(i, i)
             t == [type |-> "hint", text |-> {i}, line |-> ln, start |-> i, end |-> i,
                   comments |-> Append(comments, i)]
  <2>1. /\ Scanning /\ input' = input /\ cur' = cur + 1 /\ result' = result /\ line' = ln
        /\ tokens' = Append(tokens, t) /\ frames' = frames /\ Next1 = "hint"
    BY <1>8 DEF ScanHint
  <2>2. Extends(tokens', tokens, Len(tokens)) BY <1>8, HintStep
  <2>3. t.text = {i} /\ t.line = ln /\ t.end = i OBVIOUS
  <2> HIDE DEF ln, t
  <2>4. Len(tokens') = Len(tokens) + 1 /\ tokens'[Len(tokens) + 1] = t BY <1>1, <2>1
  <2>5. Next1 # "nl" /\ Next1 \notin Blanks BY <2>1 DEF Blanks
  <2>6. line' = LineNow + (IF Next1 \in Blanks THEN 0 ELSE Breaks(cur + 1, cur + 1))
    BY <2>1, <2>5 DEF ln
  <2> QED BY <1>1, <2>1, <2>2, <2>3, <2>4, <2>5, <2>6, SpellsScan
<1>9. CASE EndPayload BY <1>9, SpellsEndPayload
<1>10. CASE Return
  <2>1. Extends(tokens', tokens, Len(tokens)) BY <1>10, ReturnStep
  <2>2. /\ UNCHANGED <<input, cur, line, frames>> /\ cur = Len(input)
        /\ tokens' = tokens \/ tokens' = Attach(tokens, comments)
    BY <1>10 DEF Return, Flushed, AtEnd
  <2>3. Len(tokens') = Len(tokens) BY <1>1, <2>2, AttachLength
  <2> QED BY <2>1, <2>2, <2>3, SpellsSame
<1>11. CASE Fail \/ UNCHANGED vars
  <2>1. /\ UNCHANGED <<input, cur, line, frames>> /\ tokens' = tokens
        /\ result' = "error" \/ result' = result
    BY <1>11 DEF Fail, vars
  <2>2. result' = "tokens" => cur = Len(input) BY <2>1 DEF Spells, ReadToTheEnd
  <2>3. Extends(tokens', tokens, Len(tokens)) BY <1>1, <2>1, SameTokens
  <2> QED BY <2>1, <2>2, <2>3, SpellsSame
<1> QED BY <1>4, <1>5, <1>6, <1>7, <1>8, <1>9, <1>10, <1>11 DEF Next

LEMMA SpellsAlways == Spec => []Spells
<1>1. Init => Spells BY SpellsInit
<1>2. Inv /\ Spells /\ [Next]_vars => Spells' BY SpellsStep
<1> QED BY <1>1, <1>2, Invariance, PTL DEF Spec

\* For statements of any length and commands nested to any depth, every lexeme
\* that is neither blank nor comment is spelled by one token, and the tokens
\* stand in the order of the statement (tokenizer.go:388-397).
THEOREM NothingIsLost == Spec => []NothingLost
<1>1. Inv /\ Spells => NothingLost
  <2> SUFFICES ASSUME Inv, Spells, result = "tokens"
               PROVE  /\ \A i \in 1..Len(input) : input[i] \notin Blanks \cup Comments => i \in Spelled
                      /\ \A k, m \in 1..Len(tokens) : k < m =>
                             \A i \in tokens[k].text, j \in tokens[m].text : i < j
    BY DEF NothingLost
  <2>1. cur = Len(input) BY DEF Spells, ReadToTheEnd
  <2>2. ASSUME NEW i \in 1..Len(input), Significant(i) PROVE i \in Spelled
    <3>1. PICK k \in 1..Len(tokens) : i \in tokens[k].text BY <2>1, <2>2 DEF Spells, SpelledSoFar
    <3> QED BY <3>1 DEF Spelled
  <2> QED BY <2>2 DEF Significant, Spells, TokensInOrder
<1> QED BY <1>1, Invariance, SpellsAlways, PTL

\* For statements of any length, a token's line is one more than the line breaks
\* before its end, where no parameter is scanned ahead for (tokenizer.go:300-307).
THEOREM LinesAreCounted == Spec => []LinesCountBreaks
<1>1. Spells => LinesCountBreaks
  <2> SUFFICES ASSUME Spells, NoParameter, NEW k \in 1..Len(tokens)
               PROVE  LET e == tokens[k].end
                      IN  tokens[k].line = 1 + Breaks(1, e) - (IF input[e] = "nl" THEN 1 ELSE 0)
    BY DEF LinesCountBreaks, NoParameter
  <2>1. tokens[k].end \in 1..cur /\ tokens[k].line = LineAt(tokens[k].end)
    BY DEF Spells, LinesCounted
  <2>2. tokens[k].end > 0 BY <2>1
  <2> QED BY <2>1, <2>2 DEF LineAt
<1> QED BY <1>1, SpellsAlways, PTL

-----------------------------------------------------------------------------
(***************************************************************************)
(* Which token a comment is given to, for every set of statements.  The    *)
(* scan decides by line numbers, and by what is last in the list when it   *)
(* decides; the promise is about the statement.  The inductive invariant,  *)
(* Gives, says why they agree: that the two lines are equal exactly when   *)
(* no line break stands between (LineTells), that what still waits is      *)
(* after every token and every open payload (PendingComments), that the    *)
(* tokens of an open payload hold comments of that payload only, so that   *)
(* dropping them loses no other (HeldComments), and that every comment in  *)
(* no payload waits or is held by the token it is about (CommentsGiven).   *)
(***************************************************************************)

Has(s, c) == \E p \in 1..Len(s) : s[p] = c
Once(s, c) == \E p \in 1..Len(s) : s[p] = c /\ \A q \in 1..Len(s) : s[q] = c => q = p
Before(text, c) == \A i \in text : i < c
After(text, c) == \A i \in text : c < i
Trails(text, c) == \E i \in text : \A j \in (i + 1)..c : j \notin text /\ input[j] # "nl"

\* A token spells no blank, and every comment among what it spells.
TextsWhole ==
    \A k \in 1..Len(tokens) :
        /\ tokens[k].text # {}
        /\ \A i \in tokens[k].text : input[i] \notin Blanks
        /\ \A i, j \in tokens[k].text : \A c \in i..j :
               input[c] \in Comments => c \in tokens[k].text
        /\ tokens[k].type # "string" => tokens[k].text = {tokens[k].end}

\* The outermost open command spells where its payload begins.
CommandOpens == frames # <<>> => frames[1].start \in tokens[frames[1].n].text

\* After a payload comes its semicolon.
StringIsLast ==
    tokens # <<>> /\ tokens[Len(tokens)].type = "string" => tokens[Len(tokens)].end = cur

\* The line of the scan is that of the last token, or of a comment that trails
\* it, exactly when there is no line break between: however many breaks a scan
\* ahead has counted, both lines have them.
LineTells ==
    tokens # <<>> /\ tokens[Len(tokens)].type # "string" =>
        /\ LineNow >= prevTokenLine
        /\ LineNow = prevTokenLine <=>
               \A j \in (tokens[Len(tokens)].end + 1)..cur : input[j] # "nl"

\* A comment that waits for a token stands after all of them, after the
\* beginning of every open payload, and trails none.
PendingComments ==
    \A p \in 1..Len(comments) :
        /\ comments[p] \in 1..cur /\ input[comments[p]] \in Comments
        /\ \A k \in 1..Len(tokens) : Before(tokens[k].text, comments[p])
        /\ \A j \in 1..Len(frames) : frames[j].start < comments[p]
        /\ tokens # <<>> => ~ Trails(tokens[Len(tokens)].text, comments[p])
        /\ \A q \in 1..Len(comments) : comments[q] = comments[p] => q = p

\* The tokens of a payload have comments of that payload only.
HeldComments ==
    \A k \in 1..Len(tokens) : \A p \in 1..Len(tokens[k].comments) :
        /\ tokens[k].comments[p] \in 1..cur
        /\ frames # <<>> /\ frames[1].n < k => frames[1].start < tokens[k].comments[p]

\* A comment in no payload, finished or open.
Apart(c) ==
    /\ input[c] \in Comments
    /\ \A k \in 1..Len(tokens) : c \notin tokens[k].text
    /\ frames # <<>> => c <= frames[1].start

\* The token c is about, as far as the tokens read tell.
Rightful(k, c) ==
    \/ /\ Before(tokens[k].text, c)
       /\ k < Len(tokens) => After(tokens[k + 1].text, c)
       /\ \/ Trails(tokens[k].text, c)
          \/ k < Len(tokens) /\ tokens[k + 1].type = "semi"
    \/ /\ After(tokens[k].text, c)
       /\ k > 1 => /\ Before(tokens[k - 1].text, c)
                   /\ ~ Trails(tokens[k - 1].text, c) /\ tokens[k].type # "semi"

Held(k, c) ==
    /\ Once(tokens[k].comments, c)
    /\ \A m \in 1..Len(tokens) : Has(tokens[m].comments, c) => m = k
Waits(c) == Has(comments, c) /\ \A k \in 1..Len(tokens) : ~ Has(tokens[k].comments, c)
GivenTo(k, c) == Held(k, c) /\ ~ Has(comments, c) /\ Rightful(k, c)

CommentsGiven ==
    \A c \in 1..cur : Apart(c) => Waits(c) \/ \E k \in 1..Len(tokens) : GivenTo(k, c)

\* Once the comments that still waited are given to the last token.
AllGiven ==
    tokens # <<>> =>
        \A c \in 1..Len(input) : Apart(c) =>
            \E k \in 1..Len(tokens) :
                /\ Held(k, c)
                /\ Rightful(k, c) \/ (k = Len(tokens) /\ Before(tokens[k].text, c))

Gives ==
    /\ TextsWhole
    /\ result = "scanning" =>
          CommandOpens /\ StringIsLast /\ LineTells /\ PendingComments /\ HeldComments
          /\ CommentsGiven
    /\ result = "tokens" => frames = <<>> /\ AllGiven

----------------------------------------------------------------------------
\* Comments given to a token.

LEMMA HasConcat ==
    ASSUME NEW s \in Seq(Nat), NEW t \in Seq(Nat), NEW c
    PROVE  /\ s \o t \in Seq(Nat)
           /\ Has(s \o t, c) <=> Has(s, c) \/ Has(t, c)
           /\ Once(s, c) /\ ~ Has(t, c) => Once(s \o t, c)
           /\ Once(t, c) /\ ~ Has(s, c) => Once(s \o t, c)
<1> DEFINE u == s \o t
           m == Len(s)
           n == Len(t)
<1>1. /\ u \in Seq(Nat) /\ Len(u) = m + n /\ m \in Nat /\ n \in Nat
      /\ \A p \in 1..m : u[p] = s[p]
      /\ \A p \in (m + 1)..(m + n) : u[p] = t[p - m]
  BY ConcatProperties
<1>2. /\ \A p \in 1..m : p \in 1..(m + n)
      /\ \A p \in 1..n : p + m \in 1..(m + n) /\ u[p + m] = t[p]
  <2>1. ASSUME NEW p \in 1..n PROVE p + m \in 1..(m + n) /\ u[p + m] = t[p]
    <3>1. p + m \in (m + 1)..(m + n) /\ (p + m) - m = p BY <1>1
    <3> QED BY <1>1, <3>1
  <2> QED BY <1>1, <2>1
<1>3. \A p \in 1..(m + n) : p \in 1..m \/ (p - m \in 1..n /\ u[p] = t[p - m])
  BY <1>1
<1> HIDE DEF u, m, n
<1>4. ASSUME NEW p \in 1..Len(u), u[p] = c PROVE Has(s, c) \/ Has(t, c)
  BY <1>1, <1>3, <1>4 DEF Has, m, n
<1>5. (Has(s, c) => Has(u, c)) /\ (Has(t, c) => Has(u, c))
  BY <1>1, <1>2 DEF Has, m, n
<1>6. ASSUME Once(s, c), ~ Has(t, c) PROVE Once(u, c)
  <2>1. PICK p \in 1..m : s[p] = c /\ \A q \in 1..m : s[q] = c => q = p
    BY <1>6 DEF Once, m
  <2>2. p \in 1..Len(u) /\ u[p] = c BY <1>1, <1>2, <2>1
  <2>3. ASSUME NEW q \in 1..Len(u), u[q] = c PROVE q = p
    BY <1>1, <1>3, <1>6, <2>1, <2>3 DEF Has, n
  <2> QED BY <2>2, <2>3 DEF Once
<1>7. ASSUME Once(t, c), ~ Has(s, c) PROVE Once(u, c)
  <2>1. PICK p \in 1..n : t[p] = c /\ \A q \in 1..n : t[q] = c => q = p
    BY <1>7 DEF Once, n
  <2>2. p + m \in 1..Len(u) /\ u[p + m] = c BY <1>1, <1>2, <2>1
  <2>3. ASSUME NEW q \in 1..Len(u), u[q] = c PROVE q = p + m
    <3>1. q \notin 1..m BY <1>1, <1>7, <2>3 DEF Has, m
    <3>2. q - m \in 1..n /\ t[q - m] = c BY <1>1, <1>3, <2>3, <3>1
    <3>3. q - m = p BY <2>1, <3>2
    <3> QED BY <1>1, <2>1, <3>3
  <2> QED BY <2>2, <2>3 DEF Once
<1>8. Has(u, c) <=> Has(s, c) \/ Has(t, c) BY <1>4, <1>5 DEF Has
<1> QED BY <1>1, <1>6, <1>7, <1>8 DEF u

LEMMA HasAppend ==
    ASSUME NEW s \in Seq(Nat), NEW i \in Nat, NEW c
    PROVE  /\ Append(s, i) \in Seq(Nat)
           /\ Has(Append(s, i), c) <=> Has(s, c) \/ c = i
           /\ Once(s, c) /\ c # i => Once(Append(s, i), c)
           /\ ~ Has(s, i) => Once(Append(s, i), i)
<1>1. <<i>> \in Seq(Nat) /\ Append(s, i) = s \o <<i>> OBVIOUS
<1>2. Has(<<i>>, c) <=> c = i BY DEF Has
<1>3. Once(<<i>>, i) BY DEF Once
<1>4. /\ s \o <<i>> \in Seq(Nat)
      /\ Has(s \o <<i>>, c) <=> Has(s, c) \/ Has(<<i>>, c)
      /\ Once(s, c) /\ ~ Has(<<i>>, c) => Once(s \o <<i>>, c)
  BY <1>1, HasConcat
<1>5. ~ Has(s, i) => Once(s \o <<i>>, i) BY <1>1, <1>3, HasConcat
<1> QED BY <1>1, <1>2, <1>4, <1>5

LEMMA HasNone == \A c : ~ Has(<<>>, c)
BY DEF Has

\* us begins with the tokens of ts, the last of which has been given cs.
Gave(us, ts, cs) ==
    \A k \in 1..Len(ts) :
        /\ SameButComments(us[k], ts[k])
        /\ us[k].comments = IF k = Len(ts) THEN ts[k].comments \o cs ELSE ts[k].comments

LEMMA AttachGives ==
    ASSUME NEW ts \in Seq(Token), ts # <<>>, NEW cs \in Seq(Nat)
    PROVE  /\ Attach(ts, cs) \in Seq(Token) /\ Len(Attach(ts, cs)) = Len(ts)
           /\ Gave(Attach(ts, cs), ts, cs)
<1> DEFINE n == Len(ts)
           u == [ts[n] EXCEPT !.comments = @ \o cs]
           us == [ts EXCEPT ![n] = u]
<1>1. n \in Nat /\ n \in 1..n /\ ts[n] \in Token OBVIOUS
<1>2. u.comments = ts[n].comments \o cs /\ SameButComments(u, ts[n])
  BY <1>1 DEF Token, SameButComments
<1>3. Attach(ts, cs) = us BY <1>1 DEF Attach
<1> HIDE DEF u
<1>4. us[n] = u /\ \A k \in 1..n : k # n => us[k] = ts[k]
  <2>1. DOMAIN ts = 1..n /\ n \in DOMAIN ts BY <1>1
  <2> HIDE DEF n
  <2> QED BY <2>1
<1> HIDE DEF us
<1>5. ASSUME NEW k \in 1..n
      PROVE  /\ SameButComments(us[k], ts[k])
             /\ us[k].comments = IF k = n THEN ts[k].comments \o cs ELSE ts[k].comments
  BY <1>2, <1>4 DEF SameButComments
<1>6. Attach(ts, cs) \in Seq(Token) /\ Len(Attach(ts, cs)) = n BY AttachFacts
<1> QED BY <1>3, <1>5, <1>6 DEF Gave

LEMMA GaveNothing ==
    ASSUME NEW ts \in Seq(Token) PROVE Gave(ts, ts, <<>>)
<1>1. ASSUME NEW k \in 1..Len(ts) PROVE ts[k].comments \o <<>> = ts[k].comments
  <2>1. ts[k] \in Token OBVIOUS
  <2>2. ts[k].comments \in Seq(Nat) BY <2>1 DEF Token
  <2> QED BY <2>2
<1> QED BY <1>1 DEF Gave, SameButComments

LEMMA AppendLast ==
    ASSUME NEW S, NEW s \in Seq(S), NEW t \in S
    PROVE  Append(s, t)[Len(s) + 1] = t
OBVIOUS

LEMMA GaveAppend ==
    ASSUME NEW ts \in Seq(Token), NEW us \in Seq(Token), NEW cs, NEW t \in Token,
           Len(us) = Len(ts), Gave(us, ts, cs)
    PROVE  Gave(Append(us, t), ts, cs)
<1>1. Len(us) \in Nat /\ \A k \in 1..Len(us) : Append(us, t)[k] = us[k] OBVIOUS
<1> QED BY <1>1 DEF Gave

\* What add gives, and to which token.
LEMMA AddGives ==
    ASSUME tokens \in Seq(Token), comments \in Seq(Nat),
           NEW type \in Lexemes, NEW text \in SUBSET Nat, NEW ln \in Nat,
           NEW st \in Nat, NEW end \in Nat
    PROVE  LET us == Add(type, text, ln, st, end)
               n == Len(tokens)
           IN  \/ /\ Gave(us, tokens, <<>>) /\ us[n + 1].comments = comments
                  /\ comments = <<>> \/ type # "semi" \/ tokens = <<>>
               \/ /\ Gave(us, tokens, comments) /\ us[n + 1].comments = <<>>
                  /\ type = "semi" /\ tokens # <<>>
<1> DEFINE tok(cs) == [type |-> type, text |-> text, line |-> ln, start |-> st,
                       end |-> end, comments |-> cs]
           n == Len(tokens)
<1>1. \A cs \in Seq(Nat) : tok(cs) \in Token /\ tok(cs).comments = cs
  BY DEF Token
<1>2. <<>> \in Seq(Nat) /\ n \in Nat OBVIOUS
<1>3. CASE comments # <<>> /\ type = "semi" /\ tokens # <<>>
  <2> DEFINE as == Attach(tokens, comments)
  <2>1. Add(type, text, ln, st, end) = Append(as, tok(<<>>)) BY <1>3 DEF Add
  <2>2. as \in Seq(Token) /\ Len(as) = n /\ Gave(as, tokens, comments) BY <1>3, AttachGives
  <2>3. tok(<<>>) \in Token /\ tok(<<>>).comments = <<>> BY <1>1, <1>2
  <2> HIDE DEF tok, as
  <2>4. Gave(Append(as, tok(<<>>)), tokens, comments) BY <2>2, <2>3, GaveAppend
  <2>5. Append(as, tok(<<>>))[n + 1] = tok(<<>>) BY <2>2, <2>3, AppendLast
  <2> QED BY <1>3, <2>1, <2>3, <2>4, <2>5
<1>4. CASE ~ (comments # <<>> /\ type = "semi" /\ tokens # <<>>)
  <2>1. Add(type, text, ln, st, end) = Append(tokens, tok(comments)) BY <1>4 DEF Add
  <2>2. tok(comments) \in Token /\ tok(comments).comments = comments BY <1>1
  <2> HIDE DEF tok
  <2>3. Gave(Append(tokens, tok(comments)), tokens, <<>>) BY <2>2, GaveNothing, GaveAppend
  <2>4. Append(tokens, tok(comments))[n + 1] = tok(comments) BY <2>2, AppendLast
  <2> QED BY <1>4, <2>1, <2>2, <2>3, <2>4
<1> QED BY <1>3, <1>4

----------------------------------------------------------------------------
\* The steps that read a token.

\* One lexeme becomes a token with the comments own, and the token before it
\* is given others.
AddsToken(given, own) ==
    /\ Scanning /\ input' = input /\ cur' = cur + 1 /\ result' = result
    /\ tokens' \in Seq(Token) /\ Len(tokens') = Len(tokens) + 1
    /\ Gave(tokens', tokens, given)
    /\ LET t == tokens'[Len(tokens) + 1]
       IN  t.text = {cur + 1} /\ t.end = cur + 1 /\ t.type = Next1 /\ t.comments = own
    /\ Next1 \notin Blanks \cup {"string"}
    /\ line' = prevTokenLine' /\ line' \in Nat
    /\ comments' = <<>>
    /\ frames' = frames \/ frames' = Opened(cur + 1)
    /\ \/ given = <<>> /\ own = comments
          /\ (comments = <<>> \/ Next1 # "semi" \/ tokens = <<>>)
       \/ given = <<>> /\ own = Append(comments, cur + 1) /\ Next1 = "hint"
       \/ given = comments /\ own = <<>> /\ Next1 = "semi" /\ tokens # <<>>

LEMMA ScanFacts ==
    ASSUME Inv, Scanning
    PROVE  /\ tokens \in Seq(Token) /\ Len(tokens) \in Nat /\ comments \in Seq(Nat)
           /\ cur \in Nat /\ cur + 1 \in 1..Len(input) /\ Len(input) \in Nat
           /\ input \in Seq(Lexemes) /\ result = "scanning"
           /\ frames \in Seq(Frame) /\ Len(frames) \in Nat
           /\ \A k \in 1..Len(frames) :
                frames[k].n \in 1..Len(tokens) /\ frames[k].start \in 1..cur
           /\ LineNow \in Nat \ {0} /\ LineNow + Breaks(cur + 1, cur + 1) \in Nat
           /\ LineNow + TagLines(cur + 1) \in Nat
<1>1. /\ tokens \in Seq(Token) /\ comments \in Seq(Nat) /\ input \in Seq(Lexemes)
      /\ frames \in Seq(Frame) /\ cur \in 0..Len(input)
      /\ \A k \in 1..Len(frames) :
           frames[k].n \in 1..Len(tokens) /\ frames[k].start \in 1..cur
  BY DEF Inv, TypeOK
<1>2. Len(input) \in Nat /\ Len(tokens) \in Nat /\ Len(frames) \in Nat BY <1>1
<1>3. cur < Len(input) /\ result = "scanning" BY <1>1, <1>2 DEF Scanning, LoopEnds, AtEnd
<1>4. /\ LineNow \in Nat \ {0} /\ LineNow + Breaks(cur + 1, cur + 1) \in Nat
      /\ LineNow + TagLines(cur + 1) \in Nat
  BY <1>3, LineFacts DEF Inv
<1> QED BY <1>1, <1>2, <1>3, <1>4

LEMMA ReadsByAdd ==
    ASSUME Inv, Scanning, input' = input, cur' = cur + 1, result' = result,
           Next1 \in Lexemes \ (Blanks \cup Comments), NEW ln \in Nat,
           tokens' = Add(Next1, {cur + 1}, ln, cur + 1, cur + 1),
           line' = ln, prevTokenLine' = ln, comments' = <<>>,
           frames' = frames \/ frames' = Opened(cur + 1)
    PROVE  \E given, own \in Seq(Nat) : AddsToken(given, own)
<1> DEFINE n == Len(tokens)
           i == cur + 1
<1>1. tokens \in Seq(Token) /\ comments \in Seq(Nat) /\ i \in Nat /\ {i} \in SUBSET Nat
  BY ScanFacts
<1>2. Next1 \in Lexemes /\ Next1 \notin Blanks \cup {"string"}
  BY DEF Lexemes, Plain, Comments, Blanks
<1> HIDE DEF i
<1>3. /\ tokens' = Add(Next1, {i}, ln, i, i) /\ cur' = i
      /\ frames' = frames \/ frames' = Opened(i)
  BY DEF i
<1> HIDE DEF Next1
<1>4. /\ tokens' \in Seq(Token) /\ Len(tokens') = n + 1
      /\ tokens'[n + 1].type = Next1 /\ tokens'[n + 1].text = {i} /\ tokens'[n + 1].end = i
  <2> DEFINE us == Add(Next1, {i}, ln, i, i)
  <2>1. /\ us \in Seq(Token) /\ Len(us) = n + 1
        /\ us[n + 1].type = Next1 /\ us[n + 1].text = {i} /\ us[n + 1].end = i
    BY ONLY <1>1, <1>2, ln \in Nat, AddFacts
  <2> HIDE DEF us
  <2>2. tokens' = us BY ONLY <1>3 DEF us
  <2> QED BY ONLY <2>1, <2>2
<1>5. \/ /\ Gave(tokens', tokens, <<>>) /\ tokens'[n + 1].comments = comments
         /\ comments = <<>> \/ Next1 # "semi" \/ tokens = <<>>
      \/ /\ Gave(tokens', tokens, comments) /\ tokens'[n + 1].comments = <<>>
         /\ Next1 = "semi" /\ tokens # <<>>
  BY ONLY <1>1, <1>2, <1>3, ln \in Nat, AddGives
<1>6. AddsToken(<<>>, comments) \/ AddsToken(comments, <<>>)
  BY <1>2, <1>3, <1>4, <1>5 DEF AddsToken, i
<1>7. <<>> \in Seq(Nat) OBVIOUS
<1> QED BY <1>1, <1>6, <1>7

LEMMA ReadsToken ==
    ASSUME Inv, ScanToken \/ ScanParameter \/ ScanHint
    PROVE  \E given, own \in Seq(Nat) : AddsToken(given, own)
<1> DEFINE i == cur + 1
<1>1. CASE ScanToken
  <2> DEFINE ln == LineNow + Breaks(i, i)
  <2>1. /\ Scanning /\ input' = input /\ cur' = cur + 1 /\ result' = result
        /\ tokens' = Add(Next1, {i}, ln, i, i) /\ Next1 \in Plain
        /\ line' = ln /\ prevTokenLine' = ln /\ comments' = <<>>
        /\ frames' = frames \/ frames' = Opened(i)
    BY <1>1 DEF ScanToken
  <2>2. ln \in Nat BY <2>1, ScanFacts
  <2>3. Next1 \in Lexemes \ (Blanks \cup Comments)
    BY <2>1 DEF Plain, Lexemes, Blanks, Comments
  <2> HIDE DEF ln
  <2> QED BY <2>1, <2>2, <2>3, ReadsByAdd
<1>2. CASE ScanParameter
  <2> DEFINE ln == LineNow + TagLines(i)
  <2>1. /\ Scanning /\ input' = input /\ cur' = cur + 1 /\ result' = result
        /\ tokens' = Add(Next1, {i}, ln, i, i) /\ Next1 = "dollar"
        /\ line' = ln /\ prevTokenLine' = ln /\ comments' = <<>> /\ frames' = frames
    BY <1>2 DEF ScanParameter
  <2>2. ln \in Nat BY <2>1, ScanFacts
  <2>3. Next1 \in Lexemes \ (Blanks \cup Comments)
    BY <2>1 DEF Lexemes, Blanks, Comments
  <2> HIDE DEF ln
  <2> QED BY <2>1, <2>2, <2>3, ReadsByAdd
<1>3. CASE ScanHint
  <2> DEFINE ln == LineNow + Breaks(i, i)
             own == Append(comments, i)
             t == [type |-> "hint", text |-> {i}, line |-> ln, start |-> i, end |-> i,
                   comments |-> own]
  <2>1. /\ Scanning /\ input' = input /\ cur' = cur + 1 /\ result' = result
        /\ tokens' = Append(tokens, t) /\ Next1 = "hint"
        /\ line' = ln /\ prevTokenLine' = ln /\ comments' = <<>> /\ frames' = frames
    BY <1>3 DEF ScanHint
  <2>2. /\ ln \in Nat /\ i \in Nat /\ tokens \in Seq(Token) /\ comments \in Seq(Nat)
        /\ Len(tokens) \in Nat
    BY <2>1, ScanFacts
  <2>3. own \in Seq(Nat) /\ <<>> \in Seq(Nat) BY <2>2
  <2>4. t \in Token /\ t.text = {i} /\ t.end = i /\ t.type = "hint" /\ t.comments = own
    <3> HIDE DEF own, ln
    <3> QED BY <2>2, <2>3 DEF Token, Lexemes, Comments
  <2> HIDE DEF t, ln
  <2>5. tokens' \in Seq(Token) /\ Len(tokens') = Len(tokens) + 1 BY <2>1, <2>2, <2>4
  <2>6. tokens'[Len(tokens) + 1] = t BY <2>1, <2>2, <2>4, AppendLast
  <2>7. Gave(tokens', tokens, <<>>) BY <2>1, <2>2, <2>4, GaveNothing, GaveAppend
  <2>8. Next1 \notin Blanks \cup {"string"} BY <2>1 DEF Blanks
  <2>9. AddsToken(<<>>, own) BY <2>1, <2>2, <2>4, <2>5, <2>6, <2>7, <2>8 DEF AddsToken
  <2> QED BY <2>3, <2>9
<1> QED BY <1>1, <1>2, <1>3

\* After a payload only its semicolon is scanned.
LEMMA AfterString ==
    ASSUME Inv, StringIsLast, Scanning, tokens # <<>>, tokens[Len(tokens)].type = "string"
    PROVE  Next1 = "semi"
<1>1. tokens \in Seq(Token) /\ Len(tokens) \in 1..Len(tokens) /\ cur < Len(input)
  BY ScanFacts
<1>2. tokens[Len(tokens)].end = cur BY DEF StringIsLast
<1>3. cur = Len(input) \/ input[cur + 1] = "semi"
  BY <1>1, <1>2 DEF Inv, PayloadStopsAtSemicolon
<1> QED BY <1>1, <1>3, ScanFacts DEF Next1

\* What is given to the last token is had by it alone.
LEMMA GaveFacts ==
    ASSUME NEW ts \in Seq(Token), NEW us, NEW cs \in Seq(Nat), Gave(us, ts, cs),
           NEW k \in 1..Len(ts)
    PROVE  /\ us[k].text = ts[k].text /\ us[k].type = ts[k].type /\ us[k].end = ts[k].end
           /\ ts[k].comments \in Seq(Nat)
           /\ us[k].comments = IF k = Len(ts) THEN ts[k].comments \o cs ELSE ts[k].comments
           /\ \A c : /\ Has(us[k].comments, c)
                           <=> Has(ts[k].comments, c) \/ (k = Len(ts) /\ Has(cs, c))
                     /\ Once(ts[k].comments, c) /\ ~ Has(cs, c) => Once(us[k].comments, c)
                     /\ k = Len(ts) /\ Once(cs, c) /\ ~ Has(ts[k].comments, c)
                           => Once(us[k].comments, c)
<1>1. SameButComments(us[k], ts[k]) BY DEF Gave
<1>2. us[k].comments = IF k = Len(ts) THEN ts[k].comments \o cs ELSE ts[k].comments
  BY DEF Gave
<1>3. ts[k] \in Token /\ ts[k].comments \in Seq(Nat)
  <2>1. ts[k] \in Token OBVIOUS
  <2> QED BY <2>1 DEF Token
<1>4. CASE k = Len(ts)
  <2>1. us[k].comments = ts[k].comments \o cs BY <1>2, <1>4
  <2> QED BY <1>1, <1>3, <1>4, <2>1, HasConcat DEF SameButComments
<1>5. CASE k # Len(ts)
  <2>1. us[k].comments = ts[k].comments BY <1>2, <1>5
  <2> QED BY <1>1, <1>3, <1>5, <2>1 DEF SameButComments
<1> QED BY <1>4, <1>5

\* A comment that stays with a token stays about it when a token is added
\* after the comment.
LEMMA GivenKept ==
    ASSUME Inv, NEW given \in Seq(Nat), Gave(tokens', tokens, given), input' = input,
           NEW c, NEW k \in 1..Len(tokens), GivenTo(k, c), ~ Has(given, c), ~ Has(comments', c),
           \/ Len(tokens') = Len(tokens)
           \/ /\ Len(tokens') = Len(tokens) + 1
              /\ After(tokens'[Len(tokens) + 1].text, c)
              /\ ~ Has(tokens'[Len(tokens) + 1].comments, c)
    PROVE  k \in 1..Len(tokens') /\ GivenTo(k, c)'
<1> DEFINE n == Len(tokens)
<1>1. tokens \in Seq(Token) /\ n \in Nat BY DEF Inv, TypeOK
<1>2. \A m \in 1..n :
        /\ tokens'[m].text = tokens[m].text /\ tokens'[m].type = tokens[m].type
        /\ Has(tokens'[m].comments, c) <=> Has(tokens[m].comments, c)
        /\ Once(tokens[m].comments, c) => Once(tokens'[m].comments, c)
  BY <1>1, GaveFacts
<1>3. /\ Once(tokens[k].comments, c) /\ \A m \in 1..n : Has(tokens[m].comments, c) => m = k
      /\ Rightful(k, c)
  BY DEF GivenTo, Held
<1>4. \A m \in 1..Len(tokens') : m \notin 1..n =>
        /\ m = n + 1 /\ Len(tokens') = n + 1 /\ After(tokens'[m].text, c)
        /\ ~ Has(tokens'[m].comments, c)
  BY <1>1
<1>5. k \in 1..Len(tokens') BY <1>1
<1>6. Held(k, c)'
  <2>1. \A m \in 1..Len(tokens') : Has(tokens'[m].comments, c) => m = k
    BY <1>2, <1>3, <1>4
  <2>2. Once(tokens'[k].comments, c) BY <1>2, <1>3
  <2> QED BY <2>1, <2>2 DEF Held, Has, Once
<1>7. Rightful(k, c)'
  <2> DEFINE us == tokens'
  <2>1. CASE /\ Before(tokens[k].text, c)
             /\ k < n => After(tokens[k + 1].text, c)
             /\ \/ Trails(tokens[k].text, c)
                \/ k < n /\ tokens[k + 1].type = "semi"
    <3>1. k < n => k + 1 \in 1..n BY <1>1
    <3>2. k < Len(tokens') => After(tokens'[k + 1].text, c)
      <4>1. CASE k < n BY <1>2, <2>1, <3>1, <4>1
      <4>2. CASE k = n
        <5> SUFFICES ASSUME k < Len(tokens') PROVE After(tokens'[k + 1].text, c) OBVIOUS
        <5>1. n + 1 \in 1..Len(tokens') /\ n + 1 \notin 1..n BY <1>1, <4>2
        <5> QED BY <1>4, <4>2, <5>1
      <4> QED BY <1>1, <4>1, <4>2
    <3>3. k < n => k < Len(tokens') /\ tokens'[k + 1].type = tokens[k + 1].type
      BY <1>1, <1>2, <3>1
    <3> QED BY <1>2, <2>1, <3>2, <3>3 DEF Rightful, Before, After, Trails
  <2>2. CASE /\ After(tokens[k].text, c)
             /\ k > 1 => /\ Before(tokens[k - 1].text, c)
                         /\ ~ Trails(tokens[k - 1].text, c) /\ tokens[k].type # "semi"
    <3>1. k > 1 => k - 1 \in 1..n BY <1>1
    <3> QED BY <1>2, <2>2, <3>1 DEF Rightful, Before, After, Trails
  <2> QED BY <1>3, <2>1, <2>2 DEF Rightful
<1> QED BY <1>5, <1>6, <1>7 DEF GivenTo, Has


\* A comment now held by one token, the one it is about.
LEMMA NowGiven ==
    ASSUME NEW c, NEW k \in 1..Len(tokens'), Once(tokens'[k].comments, c),
           \A m \in 1..Len(tokens') : Has(tokens'[m].comments, c) => m = k,
           ~ Has(comments', c), Rightful(k, c)'
    PROVE  GivenTo(k, c)'
<1>1. Held(k, c)' BY DEF Held, Has, Once
<1> QED BY <1>1 DEF GivenTo, Has

LEMMA OpenedFirst ==
    ASSUME frames \in Seq(Frame), tokens \in Seq(Token), NEW n \in Nat, n = Len(tokens),
           NEW i \in Nat, frames' = frames \/ frames' = Opened(i)
    PROVE  \/ frames = <<>> /\ frames' = <<>>
           \/ frames = <<>> /\ frames' # <<>> /\ frames'[1].n = n + 1 /\ frames'[1].start = i
           \/ frames # <<>> /\ frames' # <<>> /\ frames'[1] = frames[1] /\ 1 \in 1..Len(frames)
<1> DEFINE f == [n |-> n + 1, start |-> i]
<1>1. f.n = n + 1 /\ f.start = i /\ f \in Frame BY DEF Frame
<1>2. Opened(i) = Append(frames, f) BY DEF Opened
<1> HIDE DEF f
<1>3. CASE frames = <<>>
  <2>1. Append(frames, f) # <<>> /\ Append(frames, f)[1] = f BY <1>1, <1>3
  <2> QED BY <1>1, <1>2, <1>3, <2>1
<1>4. CASE frames # <<>>
  <2>1. 1 \in 1..Len(frames) BY <1>4
  <2>2. Append(frames, f) # <<>> /\ Append(frames, f)[1] = frames[1] BY <1>1, <1>4
  <2> QED BY <1>2, <1>4, <2>1, <2>2
<1> QED BY <1>3, <1>4

LEMMA PendingFacts ==
    ASSUME PendingComments, NEW c, Has(comments, c)
    PROVE  /\ c \in 1..cur /\ input[c] \in Comments /\ Once(comments, c)
           /\ \A k \in 1..Len(tokens) : Before(tokens[k].text, c)
           /\ \A k \in 1..Len(frames) : frames[k].start < c
           /\ tokens # <<>> => ~ Trails(tokens[Len(tokens)].text, c)
<1>1. PICK p \in 1..Len(comments) : comments[p] = c BY DEF Has
<1> QED BY <1>1 DEF PendingComments, Once

\* What the step of a token finds and leaves, n tokens before it.
Adding(n, i, given, own) ==
    /\ Scanning /\ input' = input /\ cur' = i /\ i = cur + 1 /\ n = Len(tokens)
    /\ result' = "scanning" /\ result = "scanning"
    /\ tokens' \in Seq(Token) /\ Len(tokens') = n + 1 /\ Gave(tokens', tokens, given)
    /\ tokens'[n + 1].text = {i} /\ tokens'[n + 1].end = i
    /\ tokens'[n + 1].type = input[i] /\ tokens'[n + 1].comments = own
    /\ input[i] \notin Blanks \cup {"string"}
    /\ line' = prevTokenLine' /\ line' \in Nat /\ comments' = <<>>
    /\ frames' = frames \/ frames' = Opened(i)
    /\ \/ given = <<>> /\ own = comments
          /\ (comments = <<>> \/ input[i] # "semi" \/ tokens = <<>>)
       \/ given = <<>> /\ own = Append(comments, i) /\ input[i] = "hint"
       \/ given = comments /\ own = <<>> /\ input[i] = "semi" /\ tokens # <<>>
    /\ tokens \in Seq(Token) /\ comments \in Seq(Nat) /\ cur \in Nat
    /\ i \in 1..Len(input) /\ Len(input) \in Nat /\ frames \in Seq(Frame)
    /\ \A k \in 1..Len(frames) : frames[k].n \in 1..n /\ frames[k].start \in 1..cur
    /\ \A k \in 1..n : \A j \in tokens[k].text : j \in 1..cur

LEMMA AddingNow ==
    ASSUME Inv, Spells, NEW given, NEW own, AddsToken(given, own)
    PROVE  Adding(Len(tokens), cur + 1, given, own)
<1>1. /\ Scanning /\ input' = input /\ cur' = cur + 1 /\ result' = result
      /\ result = "scanning" /\ Next1 = input[cur + 1]
  BY DEF AddsToken, Scanning, Next1
<1>2. \A k \in 1..Len(tokens) : \A j \in tokens[k].text : j \in 1..cur
  BY DEF Spells, TokensInOrder
<1> QED BY <1>1, <1>2, ScanFacts DEF Adding, AddsToken

LEMMA AddingOld ==
    ASSUME NEW n \in Nat, NEW i \in Nat, NEW given \in Seq(Nat), NEW own,
           Adding(n, i, given, own), NEW k \in 1..n
    PROVE  /\ tokens'[k].text = tokens[k].text /\ tokens'[k].type = tokens[k].type
           /\ tokens'[k].end = tokens[k].end /\ tokens[k].comments \in Seq(Nat)
           /\ \A c : Has(tokens'[k].comments, c)
                         <=> Has(tokens[k].comments, c) \/ (k = n /\ Has(given, c))
           /\ k \in 1..(n + 1)
<1>1. n = Len(tokens) /\ tokens \in Seq(Token) /\ Gave(tokens', tokens, given) BY DEF Adding
<1> QED BY <1>1, GaveFacts

\* The comments a token has once it is added: its own, which are those that
\* waited, perhaps with itself.
LEMMA AddingOwn ==
    ASSUME NEW n \in Nat, NEW i \in Nat, NEW given \in Seq(Nat), NEW own,
           Adding(n, i, given, own), NEW c
    PROVE  /\ Has(own, c) => Has(comments, c) \/ c = i
           /\ Has(given, c) => Has(comments, c)
           /\ ~ Has(comments', c)
<1>1. comments \in Seq(Nat) /\ comments' = <<>> BY DEF Adding
<1>2. own = comments \/ own = <<>> \/ own = Append(comments, i) BY DEF Adding
<1>3. given = comments \/ given = <<>> BY DEF Adding
<1>4. Has(Append(comments, i), c) <=> Has(comments, c) \/ c = i BY <1>1, HasAppend
<1> QED BY <1>1, <1>2, <1>3, <1>4, HasNone

LEMMA AddingHas ==
    ASSUME NEW n \in Nat, NEW i \in Nat, NEW given \in Seq(Nat), NEW own,
           Adding(n, i, given, own), NEW k \in 1..n, NEW c, Has(tokens'[k].comments, c)
    PROVE  Has(tokens[k].comments, c) \/ (k = n /\ Has(given, c))
<1>1. \A d : Has(tokens'[k].comments, d) => Has(tokens[k].comments, d) \/ (k = n /\ Has(given, d))
  BY ONLY n \in Nat, i \in Nat, given \in Seq(Nat), Adding(n, i, given, own), k \in 1..n, AddingOld
<1> QED BY <1>1

LEMMA AddingFrames ==
    ASSUME NEW n \in Nat, NEW i \in Nat, NEW given, NEW own, Adding(n, i, given, own)
    PROVE  \/ frames = <<>> /\ frames' = <<>>
           \/ frames = <<>> /\ frames' # <<>> /\ frames'[1].n = n + 1 /\ frames'[1].start = i
           \/ frames # <<>> /\ frames' # <<>> /\ frames'[1] = frames[1] /\ 1 \in 1..Len(frames)
<1>1. /\ frames \in Seq(Frame) /\ tokens \in Seq(Token) /\ n = Len(tokens)
      /\ frames' = frames \/ frames' = Opened(i)
  BY DEF Adding
<1> QED BY ONLY n \in Nat, i \in Nat, <1>1, OpenedFirst

LEMMA TokenTexts ==
    ASSUME NEW n \in Nat, NEW i \in Nat, NEW given \in Seq(Nat), NEW own,
           Adding(n, i, given, own), TextsWhole
    PROVE  TextsWhole'
<1>1. /\ input' = input /\ Len(tokens') = n + 1 /\ n = Len(tokens)
      /\ tokens'[n + 1].text = {i} /\ tokens'[n + 1].end = i /\ input[i] \notin Blanks
  BY DEF Adding
<1>2. ASSUME NEW k \in 1..(n + 1)
      PROVE  /\ tokens'[k].text # {}
             /\ \A j \in tokens'[k].text : input[j] \notin Blanks
             /\ \A j, l \in tokens'[k].text : \A c \in j..l :
                    input[c] \in Comments => c \in tokens'[k].text
             /\ tokens'[k].type # "string" => tokens'[k].text = {tokens'[k].end}
  <2>1. CASE k \in 1..n
    <3>1. /\ tokens'[k].text = tokens[k].text /\ tokens'[k].type = tokens[k].type
          /\ tokens'[k].end = tokens[k].end
      BY <2>1, AddingOld
    <3> QED BY <1>1, <2>1, <3>1 DEF TextsWhole
  <2>2. CASE k = n + 1
    <3>1. \A c \in i..i : c = i OBVIOUS
    <3> QED BY <1>1, <2>2, <3>1
  <2> QED BY <2>1, <2>2
<1> QED BY <1>1, <1>2 DEF TextsWhole

LEMMA TokenOpens ==
    ASSUME NEW n \in Nat, NEW i \in Nat, NEW given \in Seq(Nat), NEW own,
           Adding(n, i, given, own), CommandOpens
    PROVE  CommandOpens'
<1>1. /\ tokens'[n + 1].text = {i} /\ n = Len(tokens) /\ frames \in Seq(Frame)
      /\ tokens \in Seq(Token)
      /\ frames' = frames \/ frames' = Opened(i)
      /\ \A k \in 1..Len(frames) : frames[k].n \in 1..n
  BY DEF Adding
<1>2. \/ frames' = <<>>
      \/ frames' # <<>> /\ frames'[1].n = n + 1 /\ frames'[1].start = i
      \/ frames # <<>> /\ frames' # <<>> /\ frames'[1] = frames[1] /\ 1 \in 1..Len(frames)
  BY AddingFrames
<1>3. CASE frames # <<>> /\ frames'[1] = frames[1] /\ 1 \in 1..Len(frames)
  <2>1. frames[1].n \in 1..n BY <1>1, <1>3
  <2>2. tokens'[frames[1].n].text = tokens[frames[1].n].text BY <2>1, AddingOld
  <2> QED BY <1>3, <2>2 DEF CommandOpens
<1> QED BY <1>1, <1>2, <1>3 DEF CommandOpens

LEMMA TokenLines ==
    ASSUME NEW n \in Nat, NEW i \in Nat, NEW given \in Seq(Nat), NEW own,
           Adding(n, i, given, own)
    PROVE  StringIsLast' /\ LineTells'
<1>1. /\ Len(tokens') = n + 1 /\ tokens'[n + 1].end = i /\ tokens'[n + 1].type = input[i]
      /\ input' = input /\ cur' = i /\ input[i] \notin Blanks \cup {"string"}
      /\ line' = prevTokenLine' /\ line' \in Nat
  BY DEF Adding
<1>2. StringIsLast' BY <1>1 DEF StringIsLast
<1>3. input[i] # "nl" BY <1>1 DEF Blanks
<1>4. LineNow' = line' BY <1>1, <1>3 DEF LineNow
<1>5. \A j \in (i + 1)..i : FALSE OBVIOUS
<1>6. LineTells' BY <1>1, <1>4, <1>5 DEF LineTells
<1> QED BY <1>2, <1>6

LEMMA TokenHeld ==
    ASSUME NEW n \in Nat, NEW i \in Nat, NEW given \in Seq(Nat), NEW own,
           Adding(n, i, given, own), PendingComments, HeldComments
    PROVE  HeldComments'
<1>1. /\ tokens'[n + 1].comments = own /\ n = Len(tokens) /\ Len(tokens') = n + 1
      /\ frames \in Seq(Frame) /\ Len(frames) \in Nat /\ i = cur + 1 /\ cur' = i
      /\ tokens \in Seq(Token)
      /\ frames' = frames \/ frames' = Opened(i)
      /\ \A k \in 1..Len(frames) : frames[k].n \in 1..n /\ frames[k].start \in 1..cur
      /\ cur \in Nat
  BY DEF Adding
<1>2. \/ frames' = <<>>
      \/ frames' # <<>> /\ frames'[1].n = n + 1 /\ frames'[1].start = i
      \/ frames # <<>> /\ frames' # <<>> /\ frames'[1] = frames[1] /\ 1 \in 1..Len(frames)
  BY AddingFrames
<1>3. ASSUME NEW k \in 1..(n + 1), NEW c, Has(tokens'[k].comments, c)
      PROVE  c \in 1..i /\ (frames' # <<>> /\ frames'[1].n < k => frames'[1].start < c)
  <2>1. Has(comments, c) \/ c = i \/ (k \in 1..n /\ Has(tokens[k].comments, c))
    <3>1. CASE k \in 1..n
      <4>1. Has(tokens[k].comments, c) \/ Has(given, c)
        BY <1>3, <3>1, AddingHas
      <4> QED BY <3>1, <4>1, AddingOwn
    <3>2. CASE k = n + 1
      <4>1. Has(own, c) BY <1>1, <1>3, <3>2
      <4> QED BY <4>1, AddingOwn
    <3> QED BY <3>1, <3>2
  <2>2. CASE Has(comments, c) \/ c = i
    <3>1. c \in 1..i BY <1>1, <2>2, PendingFacts
    <3>2. \A j \in 1..Len(frames) : frames[j].start < c
      <4>1. CASE Has(comments, c) BY <4>1, PendingFacts
      <4>2. CASE c = i BY <1>1, <4>2
      <4> QED BY <2>2, <4>1, <4>2
    <3>3. frames'[1].n = n + 1 => ~ (frames'[1].n < k) OBVIOUS
    <3> QED BY <1>2, <3>1, <3>2, <3>3
  <2>3. CASE k \in 1..n /\ Has(tokens[k].comments, c)
    <3>1. c \in 1..cur /\ (frames # <<>> /\ frames[1].n < k => frames[1].start < c)
      BY <1>1, <2>3 DEF HeldComments, Has
    <3>2. c \in 1..i BY <1>1, <3>1
    <3>3. frames'[1].n = n + 1 => ~ (frames'[1].n < k) OBVIOUS
    <3> QED BY <1>2, <3>1, <3>2, <3>3
  <2> QED BY <2>1, <2>2, <2>3
<1> QED BY <1>1, <1>3 DEF HeldComments, Has

LEMMA TokenGiven ==
    ASSUME NEW n \in Nat, NEW i \in Nat, NEW given \in Seq(Nat), NEW own,
           Inv, Adding(n, i, given, own), PendingComments, CommentsGiven
    PROVE  CommentsGiven'
<1>1. /\ tokens'[n + 1].comments = own /\ tokens'[n + 1].text = {i} /\ n = Len(tokens)
      /\ tokens'[n + 1].type = input[i]
      /\ Len(tokens') = n + 1 /\ Gave(tokens', tokens, given)
      /\ frames \in Seq(Frame) /\ i = cur + 1 /\ cur' = i /\ cur \in Nat /\ input' = input
      /\ tokens \in Seq(Token)
      /\ frames' = frames \/ frames' = Opened(i)
      /\ comments \in Seq(Nat) /\ comments' = <<>>
      /\ \/ given = <<>> /\ own = comments
            /\ (comments = <<>> \/ input[i] # "semi" \/ tokens = <<>>)
         \/ given = <<>> /\ own = Append(comments, i) /\ input[i] = "hint"
         \/ given = comments /\ own = <<>> /\ input[i] = "semi" /\ tokens # <<>>
  BY DEF Adding
<1>2. n + 1 \in 1..(n + 1) /\ \A k \in 1..(n + 1) : k \in 1..n \/ k = n + 1 OBVIOUS
<1>3. frames # <<>> => frames' # <<>> /\ frames'[1] = frames[1] BY AddingFrames
<1> SUFFICES ASSUME NEW c \in 1..i, Apart(c)' PROVE \E k \in 1..(n + 1) : GivenTo(k, c)'
  BY <1>1 DEF CommentsGiven
<1>4. /\ input[c] \in Comments /\ \A k \in 1..(n + 1) : c \notin tokens'[k].text
      /\ frames' # <<>> => c <= frames'[1].start
  BY <1>1 DEF Apart
<1>5. c # i /\ c \in 1..cur /\ After(tokens'[n + 1].text, c)
  <2>1. c # i BY <1>1, <1>2, <1>4
  <2>2. c \in 1..cur /\ c < i BY <1>1, <2>1
  <2> QED BY <1>1, <2>1, <2>2 DEF After
<1>6. Apart(c)
  <2>1. \A k \in 1..n : c \notin tokens[k].text BY <1>4, AddingOld
  <2> QED BY <1>1, <1>3, <1>4, <2>1 DEF Apart
<1>7. CASE Waits(c)
  <2>1. /\ Has(comments, c) /\ Once(comments, c) /\ \A k \in 1..n : ~ Has(tokens[k].comments, c)
        /\ \A k \in 1..n : Before(tokens[k].text, c)
        /\ tokens # <<>> => ~ Trails(tokens[n].text, c)
    BY <1>1, <1>7, PendingFacts DEF Waits
  <2>2. CASE \/ own = comments /\ (comments = <<>> \/ input[i] # "semi" \/ tokens = <<>>)
             \/ own = Append(comments, i) /\ input[i] = "hint"
    <3> SUFFICES GivenTo(n + 1, c)' BY <1>2
    <3>1. Once(tokens'[n + 1].comments, c)
      <4>1. Once(Append(comments, i), c) BY <1>1, <1>5, <2>1, HasAppend
      <4> QED BY <1>1, <2>1, <2>2, <4>1
    <3>2. given = <<>>
      <4>1. own # <<>> BY <1>1, <2>1, <2>2, <3>1, HasNone DEF Once, Has
      <4> QED BY <1>1, <4>1
    <3>3. \A m \in 1..n : ~ Has(tokens'[m].comments, c) BY <2>1, <3>2, AddingHas, HasNone
    <3>4. \A m \in 1..Len(tokens') : Has(tokens'[m].comments, c) => m = n + 1
      BY <1>1, <1>2, <3>3
    <3>5. ASSUME NEW p, p = n + 1 PROVE Rightful(p, c)'
      <4>1. ASSUME p > 1
            PROVE  /\ Before(tokens'[p - 1].text, c)
                   /\ ~ Trails(tokens'[p - 1].text, c) /\ tokens'[p].type # "semi"
        <5>1. p - 1 = n /\ n \in 1..n /\ tokens # <<>> BY <1>1, <3>5, <4>1
        <5>2. input[i] # "semi" BY <2>1, <2>2, <5>1, HasNone
        <5>3. tokens'[n].text = tokens[n].text BY <5>1, AddingOld
        <5> QED BY <1>1, <2>1, <3>5, <5>1, <5>2, <5>3
      <4>2. After(tokens'[p].text, c) BY <1>5, <3>5
      <4> QED BY <1>1, <4>1, <4>2 DEF Rightful, Before, After, Trails
    <3>6. ~ Has(comments', c) BY AddingOwn
    <3>7. ASSUME NEW p, p = n + 1 PROVE GivenTo(p, c)'
      BY <1>1, <1>2, <3>1, <3>4, <3>5, <3>6, <3>7, NowGiven
    <3> QED BY <3>7
  <2>3. CASE given = comments /\ own = <<>> /\ input[i] = "semi" /\ tokens # <<>>
    <3>1. n \in 1..n /\ n \in 1..(n + 1) /\ n < n + 1 BY <1>1, <2>3
    <3>2. Once(tokens'[n].comments, c)
      <4>1. Once(given, c) /\ ~ Has(tokens[n].comments, c) BY <2>1, <2>3, <3>1
      <4>2. /\ tokens \in Seq(Token) /\ n = Len(tokens)
            /\ Gave(tokens', tokens, given)
        BY DEF Adding
      <4>3. n \in 1..Len(tokens) BY ONLY <3>1, <4>2
      <4> QED BY ONLY <4>1, <4>2, <4>3, given \in Seq(Nat), GaveFacts
    <3>3. ASSUME NEW m \in 1..n, Has(tokens'[m].comments, c) PROVE m = n
      <4>1. ~ Has(tokens[m].comments, c) BY <2>1
      <4>2. Has(tokens[m].comments, c) \/ m = n
        BY <3>3, AddingHas
      <4> QED BY <4>1, <4>2
    <3>4. ~ Has(tokens'[n + 1].comments, c) BY <1>1, <2>3, HasNone
    <3>5. \A m \in 1..Len(tokens') : Has(tokens'[m].comments, c) => m = n
      BY <1>1, <1>2, <3>3, <3>4
    <3>6. tokens'[n].text = tokens[n].text BY <3>1, AddingOld
    <3>7. Rightful(n, c)'
      BY <1>1, <1>5, <2>1, <2>3, <3>1, <3>6 DEF Rightful, Before, After, Trails
    <3>8. ~ Has(comments', c) BY AddingOwn
    <3>9. n \in 1..Len(tokens') BY <1>1, <3>1
    <3>10. GivenTo(n, c)' BY <3>2, <3>5, <3>7, <3>8, <3>9, NowGiven
    <3> QED BY <3>1, <3>10
  <2> QED BY <1>1, <2>2, <2>3
<1>8. CASE \E k \in 1..n : GivenTo(k, c)
  <2>1. PICK k \in 1..n : GivenTo(k, c) BY <1>8
  <2>2. ~ Has(comments, c) BY <2>1 DEF GivenTo
  <2>3. ~ Has(given, c) /\ ~ Has(own, c) /\ ~ Has(comments', c) BY <1>5, <2>2, AddingOwn
  <2> QED BY <1>1, <1>5, <2>1, <2>3, GivenKept
<1>9. Waits(c) \/ \E k \in 1..n : GivenTo(k, c) BY <1>1, <1>5, <1>6 DEF CommentsGiven
<1> QED BY <1>7, <1>8, <1>9

LEMMA GivesToken ==
    ASSUME Inv, Spells, Gives, NEW given \in Seq(Nat), NEW own \in Seq(Nat),
           AddsToken(given, own)
    PROVE  Gives'
<1>1. PICK n \in Nat, i \in Nat : n = Len(tokens) /\ i = cur + 1
  <2>1. Scanning BY DEF AddsToken
  <2>2. cur + 1 \in Nat /\ Len(tokens) \in Nat BY <2>1, ScanFacts
  <2> QED BY <2>2
<1>2. Adding(n, i, given, own) BY <1>1, AddingNow
<1>3. result = "scanning" /\ result' = "scanning" /\ comments' = <<>> BY <1>2 DEF Adding
<1>4. /\ TextsWhole /\ CommandOpens /\ StringIsLast /\ LineTells /\ PendingComments
      /\ HeldComments /\ CommentsGiven
  BY <1>3 DEF Gives
<1>5. PendingComments' BY <1>3 DEF PendingComments
<1> QED BY <1>2, <1>3, <1>4, <1>5, TokenTexts, TokenOpens, TokenLines, TokenHeld, TokenGiven
        DEF Gives

----------------------------------------------------------------------------
\* The steps that read a blank or a comment.

\* The last token is one lexeme, unless it is a string.
LEMMA LastToken ==
    ASSUME Inv, Spells, TextsWhole, NEW n \in Nat, n = Len(tokens), tokens # <<>>,
           tokens[n].type # "string"
    PROVE  /\ n \in 1..n /\ tokens[n].text = {tokens[n].end} /\ tokens[n].end \in 1..cur
           /\ \A c \in Nat : tokens[n].end < c =>
                (Trails(tokens[n].text, c) <=>
                    \A j \in (tokens[n].end + 1)..c : input[j] # "nl")
<1> DEFINE e == tokens[n].end
<1>1. tokens \in Seq(Token) BY DEF Inv, TypeOK
<1>2. n \in 1..n BY <1>1
<1>3. tokens[n].text = {e} BY <1>2 DEF TextsWhole
<1>4. e \in 1..cur BY <1>2, <1>3 DEF Spells, TokensInOrder
<1> HIDE DEF e
<1>5. ASSUME NEW c \in Nat, e < c
      PROVE  Trails(tokens[n].text, c) <=> \A j \in (e + 1)..c : input[j] # "nl"
  <2>1. \A j \in (e + 1)..c : j \notin {e} BY <1>4
  <2> QED BY <1>3, <2>1 DEF Trails
<1> QED BY <1>2, <1>3, <1>4, <1>5 DEF e

\* What a comment is to the tokens changes only with them, the comments that
\* wait and the open payloads.
LEMMA SameGiven ==
    ASSUME UNCHANGED <<input, tokens, frames>>, NEW c
    PROVE  /\ Apart(c)' <=> Apart(c)
           /\ \A k : Held(k, c)' <=> Held(k, c)
           /\ \A k : Rightful(k, c)' <=> Rightful(k, c)
BY DEF Apart, Held, Rightful, Before, After, Trails, Has, Once

LEMMA GivesBlank == Inv /\ Spells /\ Gives /\ ScanBlank => Gives'
<1> SUFFICES ASSUME Inv, Spells, Gives, ScanBlank PROVE Gives' OBVIOUS
<1>1. PICK i \in Nat, n \in Nat : i = cur + 1 /\ n = Len(tokens)
  <2>1. Scanning BY DEF ScanBlank
  <2>2. cur + 1 \in Nat /\ Len(tokens) \in Nat BY <2>1, ScanFacts
  <2> QED BY <2>2
<1>2. /\ Scanning /\ input[i] \in Blanks /\ cur' = i /\ line' = LineNow
      /\ UNCHANGED <<input, prevTokenLine, comments, tokens, frames>>
      /\ result = "scanning" /\ result' = "scanning"
  BY <1>1 DEF ScanBlank, Scanning, Offset, Next1
<1>3. /\ cur \in Nat /\ LineNow \in Nat /\ prevTokenLine \in Int
      /\ tokens # <<>> => tokens[n].type # "string"
  <2>1. cur \in Nat /\ LineNow \in Nat BY <1>2, ScanFacts
  <2>2. prevTokenLine \in Int BY DEF Inv, TypeOK
  <2>3. tokens # <<>> => tokens[n].type # "string"
    BY <1>1, <1>2, AfterString DEF Gives, Blanks, Next1
  <2> QED BY <2>1, <2>2, <2>3
<1>4. /\ TextsWhole /\ CommandOpens /\ LineTells /\ PendingComments /\ HeldComments
      /\ CommentsGiven
  BY <1>2 DEF Gives
<1>5. TextsWhole' /\ CommandOpens' BY <1>2, <1>4 DEF TextsWhole, CommandOpens
<1>6. StringIsLast' BY <1>1, <1>2, <1>3 DEF StringIsLast
<1>7. LineTells'
  <2> SUFFICES ASSUME tokens # <<>>
               PROVE  /\ LineNow' >= prevTokenLine
                      /\ LineNow' = prevTokenLine <=>
                             \A j \in (tokens[n].end + 1)..i : input[j] # "nl"
    BY <1>1, <1>2 DEF LineTells
  <2>1. /\ LineNow >= prevTokenLine
        /\ LineNow = prevTokenLine <=> \A j \in (tokens[n].end + 1)..cur : input[j] # "nl"
    BY <1>1, <1>3, <1>4 DEF LineTells
  <2>2. tokens[n].end \in 1..cur BY <1>1, <1>3, <1>4, LastToken
  <2>3. LineNow' = IF input[i] = "nl" THEN LineNow + 1 ELSE LineNow
    BY <1>1, <1>2, <1>3 DEF LineNow
  <2>4. i \in (tokens[n].end + 1)..i /\ (\A j \in (tokens[n].end + 1)..i : j # i =>
           j \in (tokens[n].end + 1)..cur)
        /\ \A j \in (tokens[n].end + 1)..cur : j \in (tokens[n].end + 1)..i
    BY <1>1, <1>3, <2>2
  <2>5. CASE input[i] = "nl" BY <1>3, <2>1, <2>3, <2>4, <2>5
  <2>6. CASE input[i] # "nl" BY <1>3, <2>1, <2>3, <2>4, <2>6
  <2> QED BY <2>5, <2>6
<1>8. \A c \in 1..cur : c \in 1..i BY <1>1, <1>3
<1>9. PendingComments' BY <1>2, <1>4, <1>8 DEF PendingComments, Before, Trails
<1>10. HeldComments' BY <1>2, <1>4, <1>8 DEF HeldComments
<1>11. CommentsGiven'
  <2> SUFFICES ASSUME NEW c \in 1..i, Apart(c)'
               PROVE  Waits(c)' \/ \E k \in 1..Len(tokens) : GivenTo(k, c)'
    BY <1>2 DEF CommentsGiven
  <2>1. Apart(c) BY <1>2, SameGiven
  <2>2. c \in 1..cur
    <3>1. input[c] \in Comments BY <2>1 DEF Apart
    <3>2. c # i BY <1>2, <3>1 DEF Blanks, Comments
    <3> QED BY <1>1, <1>3, <3>2
  <2>3. Waits(c) \/ \E k \in 1..Len(tokens) : GivenTo(k, c) BY <1>4, <2>1, <2>2 DEF CommentsGiven
  <2>4. Waits(c) => Waits(c)' BY <1>2 DEF Waits, Has
  <2>5. \A k : GivenTo(k, c) => GivenTo(k, c)' BY <1>2, SameGiven DEF GivenTo, Has
  <2> QED BY <2>3, <2>4, <2>5
<1> QED BY <1>2, <1>5, <1>6, <1>7, <1>9, <1>10, <1>11 DEF Gives

\* Comments given to the last token leave what the tokens spell.
LEMMA GaveTexts ==
    ASSUME tokens \in Seq(Token), NEW given \in Seq(Nat), Gave(tokens', tokens, given),
           Len(tokens') = Len(tokens), UNCHANGED <<input, frames>>, TextsWhole
    PROVE  /\ TextsWhole'
           /\ CommandOpens /\ (frames # <<>> => frames[1].n \in 1..Len(tokens)) => CommandOpens'
<1>1. \A k \in 1..Len(tokens) :
        /\ tokens'[k].text = tokens[k].text /\ tokens'[k].type = tokens[k].type
        /\ tokens'[k].end = tokens[k].end
  BY GaveFacts
<1>2. TextsWhole' BY <1>1 DEF TextsWhole
<1>3. ASSUME CommandOpens, frames # <<>> => frames[1].n \in 1..Len(tokens) PROVE CommandOpens'
  BY <1>1, <1>3 DEF CommandOpens
<1> QED BY <1>2, <1>3

\* A step that reads a comment.
Commenting(n, i) ==
    /\ Scanning /\ input[i] \in Comments /\ cur' = i /\ i = cur + 1 /\ n = Len(tokens)
    /\ UNCHANGED <<input, frames>> /\ result = "scanning" /\ result' = "scanning"
    /\ tokens \in Seq(Token) /\ comments \in Seq(Nat) /\ cur \in Nat /\ Len(input) \in Nat
    /\ prevTokenLine \in Int /\ LineNow \in Nat \ {0}
    /\ line' \in Nat /\ line' >= LineNow /\ LineNow' = line'
    /\ frames \in Seq(Frame) /\ Len(frames) \in Nat
    /\ \A k \in 1..Len(frames) : frames[k].n \in 1..n /\ frames[k].start \in 1..cur
    /\ \A k \in 1..n : \A j \in tokens[k].text : j \in 1..cur
    /\ tokens # <<>> => tokens[n].type # "string"
    /\ \/ /\ LineNow = prevTokenLine /\ prevTokenLine' = line'
          /\ tokens' = Attach(tokens, Append(comments, i)) /\ comments' = <<>>
       \/ /\ LineNow # prevTokenLine /\ comments' = Append(comments, i)
          /\ UNCHANGED <<tokens, prevTokenLine>>

LEMMA ReadsComment ==
    ASSUME Inv, Spells, StringIsLast, ScanComment
    PROVE  \E n, i \in Nat : Commenting(n, i)
<1>1. PICK n \in Nat, i \in Nat : i = cur + 1 /\ n = Len(tokens)
  <2>1. Scanning BY DEF ScanComment
  <2>2. cur + 1 \in Nat /\ Len(tokens) \in Nat BY <2>1, ScanFacts
  <2> QED BY <2>2
<1>2. /\ Scanning /\ input[i] \in Comments /\ cur' = i /\ UNCHANGED <<input, frames>>
      /\ result = "scanning" /\ result' = "scanning"
      /\ line' = LineNow + Breaks(i, i)
      /\ \/ /\ LineNow = prevTokenLine /\ prevTokenLine' = LineNow + Breaks(i, i)
            /\ tokens' = Attach(tokens, Append(comments, i)) /\ comments' = <<>>
         \/ /\ LineNow # prevTokenLine /\ comments' = Append(comments, i)
            /\ UNCHANGED <<tokens, prevTokenLine>>
  BY <1>1 DEF ScanComment, Scanning, Next1, SameLine
<1>3. /\ tokens \in Seq(Token) /\ comments \in Seq(Nat) /\ cur \in Nat /\ Len(input) \in Nat
      /\ LineNow \in Nat \ {0} /\ frames \in Seq(Frame) /\ Len(frames) \in Nat
      /\ \A k \in 1..Len(frames) : frames[k].n \in 1..n /\ frames[k].start \in 1..cur
  BY <1>1, <1>2, ScanFacts
<1>4. \A k \in 1..n : \A j \in tokens[k].text : j \in 1..cur
  BY <1>1 DEF Spells, TokensInOrder
<1>5. Breaks(i, i) \in Nat
  <2>1. Breaks(cur + 1, cur + 1) \in Nat BY <1>3, BreaksGrow
  <2> QED BY <1>1, <2>1
<1>6. LineNow' = line'
  <2>1. input[i] # "nl" BY <1>2 DEF Comments
  <2> QED BY <1>1, <1>2, <2>1 DEF LineNow
<1>7. tokens # <<>> => tokens[n].type # "string"
  BY <1>1, <1>2, AfterString DEF Comments, Next1
<1>8. prevTokenLine \in Int BY DEF Inv, TypeOK
<1>9. line' \in Nat /\ line' >= LineNow BY <1>2, <1>3, <1>5
<1>10. prevTokenLine' = line' \/ prevTokenLine' = prevTokenLine BY <1>2
<1>11. Commenting(n, i)
  BY <1>1, <1>2, <1>3, <1>4, <1>6, <1>7, <1>8, <1>9 DEF Commenting
<1> QED BY <1>11

\* A comment on the line of the last token is given to it, and none waited.
LEMMA GivesTrailing ==
    ASSUME NEW n \in Nat, NEW i \in Nat, Inv, Spells, Gives, Commenting(n, i),
           LineNow = prevTokenLine
    PROVE  Gives'
<1>1. /\ TextsWhole /\ CommandOpens /\ LineTells /\ PendingComments /\ HeldComments
      /\ CommentsGiven
  BY DEF Commenting, Gives
<1>2. /\ n = Len(tokens) /\ i = cur + 1 /\ cur' = i /\ cur \in Nat /\ Len(input) \in Nat
      /\ UNCHANGED <<input, frames>> /\ tokens \in Seq(Token) /\ comments \in Seq(Nat)
      /\ input[i] \in Comments /\ LineNow \in Nat \ {0}
      /\ \A k \in 1..n : \A j \in tokens[k].text : j \in 1..cur
      /\ \A k \in 1..Len(frames) : frames[k].n \in 1..n /\ frames[k].start \in 1..cur
      /\ result = "scanning" /\ result' = "scanning"
  BY DEF Commenting
<1>3. /\ prevTokenLine' = line' /\ line' \in Nat /\ LineNow' = line'
      /\ tokens' = Attach(tokens, Append(comments, i)) /\ comments' = <<>>
  BY DEF Commenting
<1>4. n >= 1 /\ tokens # <<>> /\ tokens[n].type # "string"
  <2>1. n >= 1 BY <1>2 DEF Inv, LineHasToken
  <2> QED BY <1>2, <2>1 DEF Commenting
<1>5. PICK e \in 1..cur : /\ e = tokens[n].end /\ tokens[n].text = {e} /\ n \in 1..n
                          /\ \A c \in Nat : e < c =>
                               (Trails(tokens[n].text, c) <=> \A j \in (e + 1)..c : input[j] # "nl")
  <2> DEFINE e == tokens[n].end
  <2>1. n = Len(tokens) BY <1>2
  <2>2. /\ n \in 1..n /\ tokens[n].text = {e} /\ e \in 1..cur
        /\ \A c \in Nat : e < c =>
             (Trails(tokens[n].text, c) <=> \A j \in (e + 1)..c : input[j] # "nl")
    BY ONLY Inv, Spells, n \in Nat, <1>1, <1>4, <2>1, LastToken
  <2> HIDE DEF e
  <2>3. e = tokens[n].end BY DEF e
  <2> QED BY <2>2, <2>3
<1>0. /\ n = Len(tokens) /\ i = cur + 1 /\ cur \in Nat /\ tokens \in Seq(Token)
      /\ input' = input
  BY <1>2
<1>6. \A j \in (e + 1)..i : input[j] # "nl"
  <2>1. \A j \in (e + 1)..cur : input[j] # "nl" BY <1>1, <1>2, <1>4, <1>5 DEF LineTells
  <2>2. input[i] # "nl" BY <1>2 DEF Comments
  <2>3. \A j \in (e + 1)..i : j = i \/ j \in (e + 1)..cur BY <1>0
  <2> QED BY <2>1, <2>2, <2>3
<1>7. comments = <<>>
  <2> SUFFICES ASSUME comments # <<>> PROVE FALSE OBVIOUS
  <2>1. 1 \in 1..Len(comments) BY <1>2
  <2>2. PICK c : c = comments[1] OBVIOUS
  <2>3. Has(comments, c) BY <2>1, <2>2 DEF Has
  <2>4. c \in 1..cur /\ Before(tokens[n].text, c) /\ ~ Trails(tokens[n].text, c)
    BY <1>1, <1>2, <1>4, <1>5, <2>3, PendingFacts
  <2>5. e < c /\ c \in Nat BY <1>5, <2>4 DEF Before
  <2>6. \A j \in (e + 1)..c : j \in (e + 1)..i BY <1>2, <2>4
  <2> QED BY <1>5, <1>6, <2>4, <2>5, <2>6
<1>8. PICK given \in Seq(Nat) : given = <<i>>
  <2>1. <<i>> \in Seq(Nat) OBVIOUS
  <2> QED BY <2>1
<1>9. Append(comments, i) = given BY <1>7, <1>8
<1>10. Len(tokens') = n /\ Gave(tokens', tokens, given)
  BY <1>2, <1>3, <1>4, <1>9, AttachGives
<1>11. TextsWhole' /\ CommandOpens'
  <2>1. frames # <<>> => frames[1].n \in 1..n
    <3> HAVE frames # <<>>
    <3>1. 1 \in 1..Len(frames) BY DEF Commenting
    <3> QED BY <1>2, <3>1
  <2> QED BY <1>1, <1>2, <1>10, <2>1, GaveTexts
<1>12. ASSUME NEW k \in 1..n
       PROVE  /\ tokens'[k].text = tokens[k].text /\ tokens'[k].type = tokens[k].type
              /\ tokens'[k].end = tokens[k].end
              /\ \A c : Has(tokens'[k].comments, c)
                            <=> Has(tokens[k].comments, c) \/ (k = n /\ c = i)
  <2>1. \A c : Has(given, c) <=> c = i BY <1>8 DEF Has
  <2>2. /\ tokens'[k].text = tokens[k].text /\ tokens'[k].type = tokens[k].type
        /\ tokens'[k].end = tokens[k].end
        /\ \A c : Has(tokens'[k].comments, c)
                      <=> Has(tokens[k].comments, c) \/ (k = n /\ Has(given, c))
    BY ONLY <1>0, <1>10, given \in Seq(Nat), k \in 1..n, GaveFacts
  <2> QED BY <2>1, <2>2
<1>13. StringIsLast' BY <1>4, <1>5, <1>10, <1>12 DEF StringIsLast
<1>14. LineTells' BY <1>2, <1>3, <1>5, <1>6, <1>10, <1>12 DEF LineTells
<1>15. PendingComments' BY <1>3 DEF PendingComments
<1>16. \A k \in 1..n : \A c : Has(tokens[k].comments, c) =>
         c \in 1..cur /\ (frames # <<>> /\ frames[1].n < k => frames[1].start < c)
  BY <1>1, <1>2 DEF HeldComments, Has
<1>17. HeldComments'
  <2>1. ASSUME NEW k \in 1..n, NEW c, Has(tokens'[k].comments, c)
        PROVE  c \in 1..i /\ (frames # <<>> /\ frames[1].n < k => frames[1].start < c)
    <3>1. CASE Has(tokens[k].comments, c)
      <4>0. c \in 1..cur BY <1>16, <3>1
      <4>1. c \in 1..i BY <1>0, <4>0
      <4> QED BY <1>16, <3>1, <4>1
    <3>2. CASE c = i
      <4>1. frames # <<>> => frames[1].start \in 1..cur
        <5> HAVE frames # <<>>
        <5>1. 1 \in 1..Len(frames) BY DEF Commenting
        <5> QED BY <1>2, <5>1
      <4> QED BY <1>2, <3>2, <4>1
    <3> QED BY <1>12, <2>1, <3>1, <3>2
  <2> QED BY <1>2, <1>10, <2>1 DEF HeldComments, Has
<1>18. CommentsGiven'
  <2> SUFFICES ASSUME NEW c \in 1..i, Apart(c)' PROVE \E k \in 1..n : GivenTo(k, c)'
    BY <1>2, <1>10 DEF CommentsGiven
  <2>1. ~ Has(comments', c) BY <1>3, HasNone
  <2>2. CASE c = i
    <3>1. ~ Has(tokens[n].comments, i)
      <4>1. i \notin 1..cur /\ n \in 1..n BY <1>0, <1>5
      <4> QED BY <1>16, <4>1
    <3>2. Once(given, i) BY <1>8 DEF Once
    <3>3. Once(tokens'[n].comments, c)
      BY ONLY <1>2, <1>5, <1>10, <2>2, <3>1, <3>2, given \in Seq(Nat), GaveFacts
    <3>4. \A m \in 1..Len(tokens') : Has(tokens'[m].comments, c) => m = n
      <4>1. i \notin 1..cur BY <1>0
      <4> QED BY <1>10, <1>12, <1>16, <2>2, <4>1
    <3>5. Before(tokens[n].text, c) /\ Trails(tokens[n].text, c)
      <4>1. e < i /\ i \in Nat BY <1>0
      <4>2. Trails(tokens[n].text, i) BY <1>5, <1>6, <4>1
      <4>3. Before(tokens[n].text, i) BY <1>5, <4>1 DEF Before
      <4> QED BY <2>2, <4>2, <4>3
    <3>6. Rightful(n, c)'
      <4>1. tokens'[n].text = tokens[n].text BY <1>5, <1>12
      <4>2. ~ (n < Len(tokens')) BY <1>10
      <4> QED BY <1>0, <3>5, <4>1, <4>2 DEF Rightful, Before, Trails
    <3>7. GivenTo(n, c)' BY <1>5, <1>10, <2>1, <3>3, <3>4, <3>6, NowGiven
    <3> QED BY <1>5, <3>7
  <2>3. CASE c # i
    <3>1. c \in 1..cur BY <1>2, <2>3
    <3>2. Apart(c)
      <4>1. \A k \in 1..n : c \notin tokens[k].text BY <1>10, <1>12 DEF Apart
      <4> QED BY <1>2, <4>1 DEF Apart
    <3>3. PICK k \in 1..n : GivenTo(k, c)
      BY <1>1, <1>2, <1>7, <3>1, <3>2, HasNone DEF CommentsGiven, Waits
    <3>4. ~ Has(given, c) BY <1>8, <2>3 DEF Has
    <3>5. GivenTo(k, c)' BY <1>2, <1>10, <2>1, <3>3, <3>4, GivenKept
    <3> QED BY <3>5
  <2> QED BY <2>2, <2>3
<1> QED BY <1>2, <1>11, <1>13, <1>14, <1>15, <1>17, <1>18 DEF Gives

\* A comment on a later line waits for the next token.
LEMMA GivesWaiting ==
    ASSUME NEW n \in Nat, NEW i \in Nat, Inv, Spells, Gives, Commenting(n, i),
           LineNow # prevTokenLine
    PROVE  Gives'
<1>1. /\ TextsWhole /\ CommandOpens /\ LineTells /\ PendingComments /\ HeldComments
      /\ CommentsGiven
  BY DEF Commenting, Gives
<1>2. /\ n = Len(tokens) /\ i = cur + 1 /\ cur' = i /\ cur \in Nat
      /\ UNCHANGED <<input, frames, tokens, prevTokenLine>> /\ comments' = Append(comments, i)
      /\ input[i] \in Comments /\ result = "scanning" /\ result' = "scanning"
  BY DEF Commenting
<1>3. /\ LineNow \in Nat /\ prevTokenLine \in Int /\ line' \in Nat /\ line' >= LineNow
      /\ LineNow' = line'
      /\ tokens # <<>> => tokens[n].type # "string"
  BY DEF Commenting
<1>4. comments \in Seq(Nat) /\ Len(comments) \in Nat BY DEF Commenting
<1>5. /\ \A k \in 1..n : \A j \in tokens[k].text : j \in 1..cur
      /\ \A k \in 1..Len(frames) : frames[k].start \in 1..cur
  BY DEF Commenting
<1>6. \A c \in 1..cur : c \in 1..i /\ c # i /\ c < i BY <1>2
<1>7. TextsWhole' /\ CommandOpens' BY <1>1, <1>2 DEF TextsWhole, CommandOpens
<1>8. StringIsLast' BY <1>2, <1>3 DEF StringIsLast
<1>9. ASSUME tokens # <<>>
      PROVE  /\ prevTokenLine < LineNow /\ tokens[n].end \in 1..cur
             /\ \E j \in (tokens[n].end + 1)..cur : input[j] = "nl"
  <2>1. /\ LineNow >= prevTokenLine
        /\ LineNow = prevTokenLine <=> \A j \in (tokens[n].end + 1)..cur : input[j] # "nl"
    BY <1>1, <1>2, <1>3, <1>9 DEF LineTells
  <2>2. tokens[n].end \in 1..cur BY <1>1, <1>2, <1>3, <1>9, LastToken
  <2>3. prevTokenLine < LineNow BY <1>3, <2>1
  <2> QED BY <2>1, <2>2, <2>3
<1>10. LineTells'
  <2> SUFFICES ASSUME tokens # <<>>
               PROVE  /\ line' >= prevTokenLine
                      /\ line' = prevTokenLine <=>
                             \A j \in (tokens[n].end + 1)..i : input[j] # "nl"
    BY <1>2, <1>3 DEF LineTells
  <2>1. line' > prevTokenLine BY <1>3, <1>9
  <2>2. PICK j \in (tokens[n].end + 1)..cur : input[j] = "nl" BY <1>9
  <2>3. j \in (tokens[n].end + 1)..i BY <1>2, <1>9, <2>2
  <2> QED BY <1>3, <2>1, <2>2, <2>3
<1>11. PendingComments'
  <2> DEFINE cs == comments'
  <2>1. Len(cs) = Len(comments) + 1 /\ cs[Len(comments) + 1] = i
        /\ \A p \in 1..Len(comments) : cs[p] = comments[p]
    BY <1>2, <1>4
  <2>2. \A p \in 1..Len(cs) : p \in 1..Len(comments) \/ (p = Len(comments) + 1 /\ cs[p] = i)
    BY <1>4, <2>1
  <2> HIDE DEF cs
  <2>3. \A p \in 1..Len(comments) : comments[p] \in 1..cur BY <1>1 DEF PendingComments
  <2>4. ASSUME NEW p \in 1..Len(cs)
        PROVE  /\ cs[p] \in 1..i /\ input[cs[p]] \in Comments
               /\ \A k \in 1..n : Before(tokens[k].text, cs[p])
               /\ \A j \in 1..Len(frames) : frames[j].start < cs[p]
               /\ tokens # <<>> => ~ Trails(tokens[n].text, cs[p])
               /\ \A q \in 1..Len(cs) : cs[q] = cs[p] => q = p
    <3>1. CASE p \in 1..Len(comments)
      <4>1. cs[p] = comments[p] /\ cs[p] \in 1..i /\ cs[p] # i BY <1>6, <2>1, <2>3, <3>1
      <4>2. /\ input[comments[p]] \in Comments
            /\ \A k \in 1..n : Before(tokens[k].text, comments[p])
            /\ \A j \in 1..Len(frames) : frames[j].start < comments[p]
            /\ tokens # <<>> => ~ Trails(tokens[n].text, comments[p])
            /\ \A q \in 1..Len(comments) : comments[q] = comments[p] => q = p
        BY <1>1, <1>2, <3>1 DEF PendingComments
      <4>3. \A q \in 1..Len(cs) : cs[q] = cs[p] => q = p BY <2>1, <2>2, <4>1, <4>2
      <4> QED BY <4>1, <4>2, <4>3
    <3>2. CASE p = Len(comments) + 1 /\ cs[p] = i
      <4>1. \A q \in 1..Len(cs) : cs[q] = i => q = p BY <1>6, <2>1, <2>2, <2>3, <3>2
      <4>2. \A k \in 1..n : Before(tokens[k].text, i) BY <1>5, <1>6 DEF Before
      <4>3. \A j \in 1..Len(frames) : frames[j].start < i BY <1>5, <1>6
      <4>4. ASSUME tokens # <<>> PROVE ~ Trails(tokens[n].text, i)
        <5>1. PICK j \in (tokens[n].end + 1)..cur : input[j] = "nl" BY <1>9, <4>4
        <5>2. j \in (tokens[n].end + 1)..i /\ tokens[n].end < i BY <1>2, <1>9, <4>4, <5>1
        <5> QED BY <1>1, <1>2, <1>3, <4>4, <5>1, <5>2, LastToken
      <4>5. i \in 1..i BY <1>2
      <4> QED BY <1>2, <3>2, <4>1, <4>2, <4>3, <4>4, <4>5
    <3> QED BY <2>2, <3>1, <3>2
  <2>5. cs = comments' BY DEF cs
  <2> QED BY <1>2, <2>4, <2>5 DEF PendingComments, Before, Trails
<1>12. HeldComments' BY <1>1, <1>2, <1>6 DEF HeldComments
<1>13. CommentsGiven'
  <2> SUFFICES ASSUME NEW c \in 1..i, Apart(c)'
               PROVE  Waits(c)' \/ \E k \in 1..n : GivenTo(k, c)'
    BY <1>2 DEF CommentsGiven
  <2>1. Apart(c) BY <1>2, SameGiven
  <2>2. Has(comments', c) <=> Has(comments, c) \/ c = i BY <1>2, <1>4, HasAppend
  <2>3. CASE c = i
    <3>1. \A k \in 1..n : ~ Has(tokens[k].comments, i)
      <4>1. \A k \in 1..n : \A p \in 1..Len(tokens[k].comments) : tokens[k].comments[p] \in 1..cur
        BY <1>1, <1>2 DEF HeldComments
      <4> QED BY <1>6, <4>1 DEF Has
    <3> QED BY <1>2, <2>2, <2>3, <3>1 DEF Waits, Has
  <2>4. CASE c # i
    <3>1. c \in 1..cur BY <1>2, <2>4
    <3>2. CASE Waits(c) BY <1>2, <2>2, <3>2 DEF Waits, Has
    <3>3. CASE \E k \in 1..n : GivenTo(k, c)
      <4>1. PICK k \in 1..n : GivenTo(k, c) BY <3>3
      <4>2. /\ Held(k, c)' /\ Rightful(k, c)' /\ ~ Has(comments, c)
        BY <1>2, <4>1, SameGiven DEF GivenTo
      <4> QED BY <2>2, <2>4, <4>2 DEF GivenTo, Has
    <3> QED BY <1>1, <1>2, <2>1, <3>1, <3>2, <3>3 DEF CommentsGiven
  <2> QED BY <2>3, <2>4
<1> QED BY <1>2, <1>7, <1>8, <1>10, <1>11, <1>12, <1>13 DEF Gives

LEMMA GivesComment == Inv /\ Spells /\ Gives /\ ScanComment => Gives'
<1> SUFFICES ASSUME Inv, Spells, Gives, ScanComment PROVE Gives' OBVIOUS
<1>1. StringIsLast BY DEF Gives, ScanComment, Scanning
<1>2. PICK n \in Nat, i \in Nat : Commenting(n, i) BY <1>1, ReadsComment
<1> QED BY <1>2, GivesTrailing, GivesWaiting

\* When the scan ends, what still waits goes to the last token.
LEMMA GivesReturn == Inv /\ Spells /\ Gives /\ Return => Gives'
<1> SUFFICES ASSUME Inv, Spells, Gives, Return PROVE Gives' OBVIOUS
<1>1. /\ result = "scanning" /\ result' = "tokens" /\ frames = <<>> /\ cur = Len(input)
      /\ UNCHANGED <<input, cur, comments, frames>> /\ tokens' = Flushed
  BY DEF Return, AtEnd
<1>2. TextsWhole /\ PendingComments /\ CommentsGiven BY <1>1 DEF Gives
<1>3. /\ tokens \in Seq(Token) /\ comments \in Seq(Nat) BY DEF Inv, TypeOK
<1>4. CASE tokens = <<>>
  <2>1. tokens' = tokens BY <1>1, <1>4 DEF Flushed
  <2> QED BY <1>1, <1>2, <1>4, <2>1 DEF Gives, TextsWhole, AllGiven
<1>5. CASE tokens # <<>>
  <2>1. PICK n \in Nat : n = Len(tokens) /\ n \in 1..n BY <1>3, <1>5
  <2>2. PICK given \in Seq(Nat) : /\ Gave(tokens', tokens, given) /\ Len(tokens') = n
                                  /\ given = comments
    <3>1. CASE comments = <<>>
      <4>1. tokens' = tokens BY <1>1, <3>1 DEF Flushed
      <4> QED BY <1>3, <2>1, <3>1, <4>1, GaveNothing
    <3>2. CASE comments # <<>>
      <4>1. tokens' = Attach(tokens, comments) BY <1>1, <1>5, <3>2 DEF Flushed
      <4> QED BY <1>3, <1>5, <2>1, <4>1, AttachGives
    <3> QED BY <3>1, <3>2
  <2>3. TextsWhole' BY <1>1, <1>2, <1>3, <2>1, <2>2, GaveTexts
  <2>4. \A k \in 1..n :
          /\ tokens'[k].text = tokens[k].text
          /\ \A c : Has(tokens'[k].comments, c)
                        <=> Has(tokens[k].comments, c) \/ (k = n /\ Has(given, c))
    BY <1>3, <2>1, <2>2, GaveFacts
  <2>5. ASSUME NEW c \in 1..cur, Apart(c)'
        PROVE  \E k \in 1..n : /\ Held(k, c)'
                               /\ Rightful(k, c)' \/ (k = n /\ Before(tokens'[k].text, c))
    <3>1. Apart(c)
      <4>1. \A k \in 1..n : c \notin tokens[k].text BY <2>2, <2>4, <2>5 DEF Apart
      <4> QED BY <1>1, <2>1, <2>5, <4>1 DEF Apart
    <3>2. CASE Waits(c)
      <4>1. /\ Once(comments, c) /\ Has(comments, c) /\ Before(tokens[n].text, c)
            /\ \A k \in 1..n : ~ Has(tokens[k].comments, c)
        BY <1>2, <2>1, <3>2, PendingFacts DEF Waits
      <4>2. Once(tokens'[n].comments, c)
        <5>1. Once(given, c) /\ ~ Has(tokens[n].comments, c) BY <2>1, <2>2, <4>1
        <5> QED BY ONLY <1>3, <2>1, <2>2, <5>1, given \in Seq(Nat), GaveFacts
      <4>3. \A m \in 1..Len(tokens') : Has(tokens'[m].comments, c) => m = n
        BY <2>2, <2>4, <4>1
      <4>4. Held(n, c)' BY <4>2, <4>3 DEF Held, Has, Once
      <4> QED BY <2>1, <2>4, <4>1, <4>4
    <3>3. CASE \E k \in 1..n : GivenTo(k, c)
      <4>1. PICK k \in 1..n : GivenTo(k, c) BY <3>3
      <4>2. ~ Has(comments, c) BY <4>1 DEF GivenTo
      <4>3. ~ Has(given, c) /\ ~ Has(comments', c) BY <1>1, <2>2, <4>2
      <4>4. GivenTo(k, c)' BY <1>1, <2>1, <2>2, <4>1, <4>3, GivenKept
      <4> QED BY <4>4 DEF GivenTo
    <3> QED BY <1>2, <2>1, <3>1, <3>2, <3>3 DEF CommentsGiven
  <2>6. AllGiven' BY <1>1, <2>2, <2>5 DEF AllGiven
  <2> QED BY <1>1, <2>3, <2>6 DEF Gives
<1> QED BY <1>4, <1>5

LEMMA GivesIdle == Gives /\ (Fail \/ UNCHANGED vars) => Gives'
<1> SUFFICES ASSUME Gives, Fail \/ UNCHANGED vars PROVE Gives' OBVIOUS
<1>1. CASE Fail
  <2>1. UNCHANGED <<input, tokens>> /\ result' = "error" BY <1>1 DEF Fail
  <2> QED BY <2>1 DEF Gives, TextsWhole
<1>2. CASE UNCHANGED vars
  <2>1. UNCHANGED <<input, cur, line, prevTokenLine, comments, tokens, frames, result>>
    BY <1>2 DEF vars
  <2>2. TextsWhole' <=> TextsWhole BY <2>1 DEF TextsWhole
  <2>3. CommandOpens' <=> CommandOpens BY <2>1 DEF CommandOpens
  <2>4. StringIsLast' <=> StringIsLast BY <2>1 DEF StringIsLast
  <2>5. LineTells' <=> LineTells BY <2>1 DEF LineTells, LineNow
  <2>6. PendingComments' <=> PendingComments BY <2>1 DEF PendingComments, Before, Trails
  <2>7. HeldComments' <=> HeldComments BY <2>1 DEF HeldComments
  <2>8. CommentsGiven' <=> CommentsGiven
    BY <2>1, SameGiven DEF CommentsGiven, Waits, GivenTo, Has
  <2>9. AllGiven' <=> AllGiven BY <2>1, SameGiven DEF AllGiven, Before
  <2> QED BY <2>1, <2>2, <2>3, <2>4, <2>5, <2>6, <2>7, <2>8, <2>9 DEF Gives
<1> QED BY <1>1, <1>2

LEMMA GivesInit == Init => Gives
<1> SUFFICES ASSUME Init PROVE Gives OBVIOUS
<1>1. cur = 0 /\ tokens = <<>> /\ frames = <<>> /\ comments = <<>> /\ result = "scanning"
  BY DEF Init
<1>2. TextsWhole BY <1>1 DEF TextsWhole
<1>3. CommandOpens /\ StringIsLast /\ LineTells BY <1>1 DEF CommandOpens, StringIsLast, LineTells
<1>4. PendingComments /\ HeldComments /\ CommentsGiven
  BY <1>1 DEF PendingComments, HeldComments, CommentsGiven
<1> QED BY <1>1, <1>2, <1>3, <1>4 DEF Gives

----------------------------------------------------------------------------
\* The return of a nested scan.

\* What the return of a nested scan finds and leaves: it keeps n tokens, and
\* the payload begins after lexeme s.
Closing(n, s, payload) ==
    /\ n \in 1..Len(tokens) /\ s \in 1..cur /\ comments \in Seq(Nat) /\ Len(tokens) \in Nat
    /\ tokens \in Seq(Token) /\ frames \in Seq(Frame) /\ frames # <<>> /\ cur \in Nat
    /\ Len(frames) \in 1..Len(frames) /\ s = frames[Len(frames)].start
    /\ UNCHANGED <<input, cur, line>> /\ result = "scanning" /\ result' = "scanning"
    /\ frames[1].n \in 1..n /\ frames[1].start \in 1..s
    /\ \/ frames' = <<>> /\ frames[1].start = s
       \/ frames' # <<>> /\ frames'[1] = frames[1]
    /\ \A k \in 1..n : k \in 1..Len(tokens) /\ SameButComments(tokens'[k], tokens[k])
    /\ \A k \in 1..n : \A c :
          /\ Has(tokens'[k].comments, c)
                <=> Has(tokens[k].comments, c) \/ (k = Len(tokens) /\ Has(comments, c))
          /\ Once(tokens[k].comments, c) /\ ~ Has(comments, c) => Once(tokens'[k].comments, c)
    /\ \A k \in 1..Len(tokens) : \A j \in tokens[k].text :
          IF k <= n THEN j <= s ELSE s < j
    /\ \A j : j \in payload <=> j \in (s + 1)..cur /\ input[j] \notin Blanks
    /\ IF payload = {}
       THEN Len(tokens') = n /\ UNCHANGED <<comments, prevTokenLine>>
       ELSE /\ Len(tokens') = n + 1 /\ comments' = <<>>
            /\ LET t == tokens'[n + 1]
               IN  t.type = "string" /\ t.text = payload /\ t.end = cur
                   /\ t.comments = comments

LEMMA ClosesPayload ==
    ASSUME Inv, Spells, EndPayload
    PROVE  \E n, s, payload : Closing(n, s, payload)
<1> DEFINE f == frames[Len(frames)]
           payload == Payload(f.start + 1, cur)
           t == [type |-> "string", text |-> payload, line |-> line,
                 start |-> start, end |-> cur, comments |-> comments]
           ts == IF comments = <<>> THEN tokens ELSE Attach(tokens, comments)
           kept == Kept(ts, f.n)
<1>1. /\ frames # <<>> /\ 1 \in 1..Len(frames) /\ Len(frames) \in 1..Len(frames)
      /\ frames \in Seq(Frame) /\ Len(frames) \in Nat \ {0}
      /\ f.n \in 1..Len(tokens) /\ f.start \in 1..cur /\ cur \in Nat
      /\ tokens \in Seq(Token) /\ Len(tokens) \in Nat /\ comments \in Seq(Nat)
      /\ start \in Nat /\ line \in Nat
      /\ \A k \in 1..Len(frames) : frames[k].n \in 1..Len(tokens) /\ frames[k].start \in 1..cur
  <2>1. /\ frames \in Seq(Frame) /\ tokens \in Seq(Token) /\ comments \in Seq(Nat)
        /\ cur \in Nat /\ start \in Nat /\ line \in Nat
        /\ \A k \in 1..Len(frames) :
             frames[k].n \in 1..Len(tokens) /\ frames[k].start \in 1..cur
    <3>1. Len(input) \in Nat BY DEF Inv, TypeOK
    <3> QED BY <3>1 DEF Inv, TypeOK
  <2>2. frames # <<>> BY DEF EndPayload
  <2>3. Len(frames) \in Nat \ {0} /\ Len(frames) \in 1..Len(frames) /\ 1 \in 1..Len(frames)
    BY <2>1, <2>2
  <2> QED BY <2>1, <2>2, <2>3
<1>2. /\ UNCHANGED <<input, cur, line>> /\ result = "scanning" /\ result' = "scanning"
      /\ frames' = SubSeq(frames, 1, Len(frames) - 1)
      /\ IF payload = {} THEN tokens' = kept /\ UNCHANGED <<comments, prevTokenLine>>
         ELSE tokens' = Append(kept, t) /\ comments' = <<>>
  BY DEF EndPayload
<1>3. \A i : i \in payload <=> i \in (f.start + 1)..cur /\ input[i] \notin Blanks
  BY DEF Payload
<1>4. t.type = "string" /\ t.text = payload /\ t.end = cur /\ t.comments = comments OBVIOUS
<1>5. t \in Token
  <2>1. payload \in SUBSET Nat BY <1>1, <1>3
  <2> HIDE DEF payload
  <2> QED BY <1>1, <2>1 DEF Token
<1>6. /\ ts \in Seq(Token) /\ Len(ts) = Len(tokens) /\ Gave(ts, tokens, comments)
  <2>1. CASE comments = <<>> BY <2>1, <1>1, GaveNothing
  <2>2. CASE comments # <<>> BY <2>2, <1>1, AttachGives
  <2> QED BY <2>1, <2>2
<1> HIDE DEF f, payload, t, ts
<1>7. kept \in Seq(Token) /\ Len(kept) = f.n /\ \A k \in 1..f.n : kept[k] = ts[k]
  BY <1>1, <1>6 DEF Kept
<1> HIDE DEF kept
<1>8. IF payload = {}
      THEN Len(tokens') = f.n /\ UNCHANGED <<comments, prevTokenLine>>
      ELSE Len(tokens') = f.n + 1 /\ comments' = <<>> /\ tokens'[f.n + 1] = t
  <2>1. CASE payload = {} BY <1>2, <1>7, <2>1
  <2>2. CASE payload # {}
    <3>1. tokens' = Append(kept, t) /\ comments' = <<>> BY <1>2, <2>2
    <3> QED BY <1>5, <1>7, <2>2, <3>1
  <2> QED BY <2>1, <2>2
<1>9. \A k \in 1..f.n : tokens'[k] = ts[k]
  <2>1. f.n \in Nat BY <1>1
  <2>2. CASE payload = {} BY <1>2, <1>7, <2>2
  <2>3. CASE payload # {}
    <3>1. tokens' = Append(kept, t) BY <1>2, <2>3
    <3> QED BY <1>5, <1>7, <2>1, <3>1
  <2> QED BY <2>2, <2>3
<1>10. ASSUME NEW k \in 1..f.n
       PROVE  /\ k \in 1..Len(tokens) /\ SameButComments(tokens'[k], tokens[k])
              /\ \A c : /\ Has(tokens'[k].comments, c)
                             <=> Has(tokens[k].comments, c) \/ (k = Len(tokens) /\ Has(comments, c))
                        /\ Once(tokens[k].comments, c) /\ ~ Has(comments, c)
                              => Once(tokens'[k].comments, c)
  <2>1. k \in 1..Len(tokens) BY <1>1
  <2>2. tokens'[k] = ts[k] BY <1>9
  <2>3. SameButComments(ts[k], tokens[k]) BY <1>6, <2>1 DEF Gave
  <2> QED BY ONLY <1>1, <1>6, <2>1, <2>2, <2>3, GaveFacts
<1>11. frames[1].n \in 1..f.n /\ frames[1].start \in 1..f.start
  <2>1. frames[1].n <= f.n /\ frames[1].start <= f.start
    BY <1>1 DEF Inv, FramesNest, Spells, PayloadsApart, f
  <2> QED BY <1>1, <2>1
<1>12. \/ frames' = <<>> /\ frames[1].start = f.start
       \/ frames' # <<>> /\ frames'[1] = frames[1]
  <2>1. CASE Len(frames) = 1
    <3>1. frames' = SubSeq(frames, 1, 0) BY <1>2, <2>1
    <3>2. frames' = <<>> BY <1>1, <3>1
    <3> QED BY <2>1, <3>2 DEF f
  <2>2. CASE Len(frames) # 1
    <3>1. PICK m \in 1..Len(frames) : m = Len(frames) - 1
      <4>1. Len(frames) \in Nat \ {0} BY <1>1
      <4>2. Len(frames) - 1 \in 1..Len(frames) BY <2>2, <4>1
      <4> QED BY <4>2
    <3>2. frames' = SubSeq(frames, 1, m) BY <1>2, <3>1
    <3>3. Len(frames') = m /\ frames'[1] = frames[1] BY <1>1, <3>1, <3>2
    <3>4. frames' # <<>> BY <3>1, <3>3
    <3> QED BY <3>3, <3>4
  <2> QED BY <2>1, <2>2
<1>13. \A k \in 1..Len(tokens) : \A j \in tokens[k].text :
          IF k <= f.n THEN j <= f.start ELSE f.start < j
  BY <1>1 DEF Spells, PayloadsApart, f
<1>14. IF payload = {}
       THEN Len(tokens') = f.n /\ UNCHANGED <<comments, prevTokenLine>>
       ELSE /\ Len(tokens') = f.n + 1 /\ comments' = <<>>
            /\ LET u == tokens'[f.n + 1]
               IN  u.type = "string" /\ u.text = payload /\ u.end = cur
                   /\ u.comments = comments
  BY <1>4, <1>8
<1>15. Closing(f.n, f.start, payload)
  BY <1>1, <1>2, <1>3, <1>10, <1>11, <1>12, <1>13, <1>14 DEF Closing, f
<1> QED BY <1>15

\* Its tokens spell what they did, and the payload's string what it holds.
LEMMA ClosingTexts ==
    ASSUME NEW n, NEW s, NEW payload, Closing(n, s, payload), TextsWhole,
           CommandOpens
    PROVE  TextsWhole' /\ CommandOpens'
<1>1. /\ n \in Nat /\ cur \in Nat /\ input' = input /\ frames[1].n \in 1..n /\ frames # <<>>
      /\ Len(tokens') = n \/ (Len(tokens') = n + 1 /\ payload # {})
      /\ Len(tokens') = n + 1 => tokens'[n + 1].text = payload
                                 /\ tokens'[n + 1].type = "string"
      /\ frames' = <<>> \/ frames'[1] = frames[1]
      /\ \A j : j \in payload <=> j \in (s + 1)..cur /\ input[j] \notin Blanks
      /\ s \in Nat
  BY DEF Closing
<1>2. \A k \in 1..n : /\ k \in 1..Len(tokens) /\ tokens'[k].text = tokens[k].text
                      /\ tokens'[k].type = tokens[k].type /\ tokens'[k].end = tokens[k].end
  BY DEF Closing, SameButComments
<1>3. ASSUME NEW k \in 1..Len(tokens')
      PROVE  /\ tokens'[k].text # {}
             /\ \A j \in tokens'[k].text : input[j] \notin Blanks
             /\ \A j, l \in tokens'[k].text : \A c \in j..l :
                    input[c] \in Comments => c \in tokens'[k].text
             /\ tokens'[k].type # "string" => tokens'[k].text = {tokens'[k].end}
  <2>1. CASE k \in 1..n BY <1>2, <2>1 DEF TextsWhole
  <2>2. CASE k \notin 1..n
    <3>1. k = n + 1 /\ payload # {} /\ tokens'[k].text = payload /\ tokens'[k].type = "string"
      BY <1>1, <2>2
    <3>2. ASSUME NEW j \in payload, NEW l \in payload, NEW c \in j..l, input[c] \in Comments
          PROVE  c \in payload
      <4>1. c \in (s + 1)..cur BY <1>1
      <4>2. input[c] \notin Blanks BY <3>2 DEF Comments, Blanks
      <4> QED BY <1>1, <4>1, <4>2
    <3> QED BY <1>1, <3>1, <3>2
  <2> QED BY <2>1, <2>2
<1>4. TextsWhole' BY <1>1, <1>3 DEF TextsWhole
<1>5. CommandOpens' BY <1>1, <1>2 DEF CommandOpens
<1> QED BY <1>4, <1>5

\* What waits stands in the payload: nothing does when it is empty, and its
\* tokens are all kept.
LEMMA ClosingWaits ==
    ASSUME NEW n, NEW s, NEW payload, Closing(n, s, payload), TextsWhole, PendingComments,
           Spells
    PROVE  /\ \A c : Has(comments, c) => c \in payload /\ c \in 1..cur /\ s < c
           /\ payload = {} => comments = <<>> /\ Len(tokens) = n
<1>1. /\ n \in 1..Len(tokens) /\ s \in 1..cur /\ cur \in Nat /\ Len(tokens) \in Nat
      /\ \A j : j \in payload <=> j \in (s + 1)..cur /\ input[j] \notin Blanks
      /\ \A k \in 1..Len(tokens) : \A j \in tokens[k].text : IF k <= n THEN j <= s ELSE s < j
      /\ Len(frames) \in 1..Len(frames) /\ s = frames[Len(frames)].start
      /\ comments \in Seq(Nat)
  BY DEF Closing
<1>2. ASSUME NEW c, Has(comments, c) PROVE c \in payload /\ c \in 1..cur /\ s < c
  <2>1. c \in 1..cur /\ input[c] \in Comments /\ s < c BY <1>1, <1>2, PendingFacts
  <2>2. input[c] \notin Blanks BY <2>1 DEF Blanks, Comments
  <2>3. c \in (s + 1)..cur BY <1>1, <2>1
  <2> QED BY <1>1, <2>1, <2>2, <2>3
<1>3. ASSUME payload = {}, comments # <<>> PROVE FALSE
  <2>1. 1 \in 1..Len(comments) BY <1>1, <1>3
  <2>2. Has(comments, comments[1]) BY <2>1 DEF Has
  <2> QED BY <1>2, <1>3, <2>2
<1>4. ASSUME payload = {}, Len(tokens) # n PROVE FALSE
  <2>1. n + 1 \in 1..Len(tokens) /\ ~ (n + 1 <= n) BY <1>1, <1>4
  <2>2. PICK j \in tokens[n + 1].text : input[j] \notin Blanks BY <2>1 DEF TextsWhole
  <2>3. s < j BY <1>1, <2>1, <2>2
  <2>4. j \in 1..cur BY <2>1, <2>2 DEF Spells, TokensInOrder
  <2>5. j \in (s + 1)..cur BY <1>1, <2>3, <2>4
  <2> QED BY <1>1, <1>4, <2>2, <2>5
<1> QED BY <1>2, <1>3, <1>4

LEMMA ClosingLines ==
    ASSUME NEW n, NEW s, NEW payload, Closing(n, s, payload), TextsWhole, PendingComments,
           Spells, StringIsLast, LineTells
    PROVE  StringIsLast' /\ LineTells' /\ PendingComments'
<1>1. CASE payload = {}
  <2>1. comments = <<>> /\ Len(tokens) = n BY <1>1, ClosingWaits
  <2>2. /\ Len(tokens') = n /\ n \in 1..n /\ UNCHANGED <<input, cur, line, prevTokenLine, comments>>
    BY <1>1, <2>1 DEF Closing
  <2>3. tokens'[n].type = tokens[n].type /\ tokens'[n].end = tokens[n].end
    BY <2>2 DEF Closing, SameButComments
  <2>4. tokens # <<>> BY <2>1, <2>2
  <2>5. LineNow' = LineNow BY <2>2 DEF LineNow
  <2>6. PendingComments' BY <2>1, <2>2 DEF PendingComments
  <2>7. StringIsLast' BY <2>1, <2>2, <2>3, <2>4 DEF StringIsLast
  <2>8. LineTells' BY <2>1, <2>2, <2>3, <2>4, <2>5 DEF LineTells
  <2> QED BY <2>6, <2>7, <2>8
<1>2. CASE payload # {}
  <2>1. /\ Len(tokens') = n + 1 /\ tokens'[n + 1].type = "string" /\ cur' = cur
        /\ tokens'[n + 1].end = cur /\ comments' = <<>>
    BY <1>2 DEF Closing
  <2> QED BY <2>1 DEF StringIsLast, LineTells, PendingComments
<1> QED BY <1>1, <1>2

LEMMA ClosingHeld ==
    ASSUME NEW n, NEW s, NEW payload, Closing(n, s, payload), TextsWhole, PendingComments,
           Spells, HeldComments
    PROVE  HeldComments'
<1>1. /\ n \in Nat /\ cur' = cur /\ frames # <<>> /\ frames[1].start \in 1..s /\ s \in 1..cur
      /\ Len(tokens') = n \/ Len(tokens') = n + 1
      /\ Len(tokens') = n + 1 => tokens'[n + 1].comments = comments
      /\ frames' = <<>> \/ frames'[1] = frames[1]
      /\ cur \in Nat
  BY DEF Closing
<1>2. \A c : Has(comments, c) => c \in 1..cur /\ frames[1].start < c
  <2>1. \A c : Has(comments, c) => c \in 1..cur /\ s < c BY ClosingWaits
  <2> QED BY <1>1, <2>1
<1>3. ASSUME NEW k \in 1..Len(tokens'), NEW c, Has(tokens'[k].comments, c)
      PROVE  c \in 1..cur /\ (frames[1].n < k => frames[1].start < c)
  <2>1. CASE k \in 1..n
    <3>1. k \in 1..Len(tokens) /\ (Has(tokens[k].comments, c) \/ Has(comments, c))
      BY <1>3, <2>1 DEF Closing
    <3>2. CASE Has(tokens[k].comments, c) BY <1>1, <3>1, <3>2 DEF HeldComments, Has
    <3> QED BY <1>2, <3>1, <3>2
  <2>2. CASE k \notin 1..n
    <3>1. Has(comments, c) BY <1>1, <1>3, <2>2
    <3> QED BY <1>2, <3>1
  <2> QED BY <2>1, <2>2
<1> QED BY <1>1, <1>3 DEF HeldComments, Has

\* A comment in no payload was given to a token before the first open command,
\* which keeps it.
LEMMA ClosingGiven ==
    ASSUME NEW n, NEW s, NEW payload, Closing(n, s, payload), TextsWhole, PendingComments,
           Spells, HeldComments, CommandOpens, CommentsGiven
    PROVE  CommentsGiven'
<1>1. /\ n \in 1..Len(tokens) /\ Len(tokens) \in Nat /\ UNCHANGED <<input, cur>>
      /\ frames # <<>> /\ frames[1].start \in 1..s /\ s \in 1..cur /\ frames[1].n \in 1..n
      /\ Len(tokens') = n \/ (Len(tokens') = n + 1 /\ comments' = <<>>)
      /\ Len(tokens') = n + 1 => /\ tokens'[n + 1].comments = comments
                                 /\ tokens'[n + 1].text = payload
      /\ \/ frames' = <<>> /\ frames[1].start = s
         \/ frames' # <<>> /\ frames'[1] = frames[1]
      /\ cur \in Nat
  BY DEF Closing
<1>2. \A k \in 1..n : /\ k \in 1..Len(tokens) /\ tokens'[k].text = tokens[k].text
                      /\ tokens'[k].type = tokens[k].type
  BY DEF Closing, SameButComments
<1>3. /\ \A j : j \in payload <=> j \in (s + 1)..cur /\ input[j] \notin Blanks
      /\ \A k \in 1..Len(tokens) : \A j \in tokens[k].text : IF k <= n THEN j <= s ELSE s < j
      /\ payload # {} => Len(tokens') = n + 1
  BY DEF Closing
<1>4. \A c : Has(comments, c) => c \in payload /\ c \in 1..cur /\ s < c BY ClosingWaits
<1> SUFFICES ASSUME NEW c \in 1..cur, Apart(c)'
             PROVE  \E k \in 1..Len(tokens') : GivenTo(k, c)'
  BY <1>1 DEF CommentsGiven
<1>5. /\ input[c] \in Comments /\ \A k \in 1..Len(tokens') : c \notin tokens'[k].text
      /\ frames' # <<>> => c <= frames'[1].start
  BY <1>1 DEF Apart
<1>6. c <= frames[1].start
  <2>1. CASE frames' # <<>> BY <1>1, <1>5, <2>1
  <2>2. CASE frames' = <<>> /\ frames[1].start = s
    <3>1. c \notin payload
      <4> SUFFICES ASSUME c \in payload PROVE FALSE OBVIOUS
      <4>1. n + 1 \in 1..Len(tokens') BY <1>1, <1>3
      <4>2. tokens'[n + 1].text = payload BY <1>1, <1>3
      <4> QED BY <1>5, <4>1, <4>2
    <3>2. input[c] \notin Blanks BY <1>5 DEF Blanks, Comments
    <3>3. c \notin (s + 1)..cur BY <1>3, <3>1, <3>2
    <3> QED BY <1>1, <2>2, <3>3
  <2> QED BY <1>1, <2>1, <2>2
<1>7. c <= s BY <1>1, <1>6
<1>8. Apart(c)
  <2>1. ASSUME NEW k \in 1..Len(tokens) PROVE c \notin tokens[k].text
    <3>1. CASE k <= n
      <4>1. k \in 1..n /\ k \in 1..Len(tokens') BY <1>1, <3>1
      <4> QED BY <1>2, <1>5, <4>1
    <3>2. CASE ~ (k <= n) BY <1>1, <1>3, <1>7, <3>2
    <3> QED BY <3>1, <3>2
  <2> QED BY <1>5, <1>6, <2>1 DEF Apart
<1>9. ~ Has(comments, c) BY <1>1, <1>4, <1>7
<1>10. PICK k \in 1..Len(tokens) : GivenTo(k, c) BY <1>8, <1>9 DEF CommentsGiven, Waits
<1>11. /\ Once(tokens[k].comments, c) /\ Has(tokens[k].comments, c)
       /\ \A m \in 1..Len(tokens) : Has(tokens[m].comments, c) => m = k
       /\ Rightful(k, c)
  BY <1>10 DEF GivenTo, Held, Once, Has
<1>12. k <= frames[1].n /\ k \in 1..n
  <2>1. PICK p \in 1..Len(tokens[k].comments) : tokens[k].comments[p] = c BY <1>11 DEF Has
  <2>2. frames[1].n < k => frames[1].start < c BY <1>1, <2>1 DEF HeldComments
  <2>3. frames[1].n \in Nat /\ frames[1].start \in Nat /\ k \in Nat /\ c \in Nat BY <1>1
  <2>4. k <= frames[1].n BY <1>6, <2>2, <2>3
  <2> QED BY <1>1, <2>4
<1>13. Once(tokens'[k].comments, c) BY <1>9, <1>11, <1>12 DEF Closing
<1>14. ASSUME NEW m \in 1..Len(tokens'), Has(tokens'[m].comments, c) PROVE m = k
  <2>1. m \in 1..n
    <3>1. m \notin 1..n => Has(comments, c) BY <1>1, <1>14
    <3> QED BY <1>9, <3>1
  <2>2. m \in 1..Len(tokens) /\ (Has(tokens[m].comments, c) \/ Has(comments, c))
    BY <1>14, <2>1 DEF Closing
  <2> QED BY <1>9, <1>11, <2>2
<1>15. ~ Has(comments', c)
  <2>1. comments' = comments \/ comments' = <<>> BY DEF Closing
  <2> QED BY <1>9, <2>1, HasNone
<1>16. Rightful(k, c)'
  <2>1. CASE /\ Before(tokens[k].text, c)
             /\ k < Len(tokens) => After(tokens[k + 1].text, c)
             /\ \/ Trails(tokens[k].text, c)
                \/ k < Len(tokens) /\ tokens[k + 1].type = "semi"
    <3>1. k # frames[1].n
      <4>1. frames[1].start \in tokens[frames[1].n].text BY <1>1 DEF CommandOpens
      <4> QED BY <1>1, <1>6, <2>1, <4>1 DEF Before
    <3>2. k < n /\ k < Len(tokens) /\ k + 1 \in 1..n /\ k < Len(tokens')
      BY <1>1, <1>12, <3>1
    <3> QED BY <1>1, <1>2, <1>12, <2>1, <3>2 DEF Rightful, Before, After, Trails
  <2>2. CASE /\ After(tokens[k].text, c)
             /\ k > 1 => /\ Before(tokens[k - 1].text, c)
                         /\ ~ Trails(tokens[k - 1].text, c) /\ tokens[k].type # "semi"
    <3>1. k > 1 => k - 1 \in 1..n BY <1>1, <1>12
    <3> QED BY <1>1, <1>2, <1>12, <2>2, <3>1 DEF Rightful, Before, After, Trails
  <2> QED BY <1>11, <2>1, <2>2 DEF Rightful
<1>17. k \in 1..Len(tokens') BY <1>1, <1>12
<1> QED BY <1>13, <1>14, <1>15, <1>16, <1>17, NowGiven

LEMMA GivesEndPayload == Inv /\ Spells /\ Gives /\ EndPayload => Gives'
<1> SUFFICES ASSUME Inv, Spells, Gives, EndPayload PROVE Gives' OBVIOUS
<1>1. PICK n, s, payload : Closing(n, s, payload) BY ClosesPayload
<1>2. result = "scanning" /\ result' = "scanning" BY <1>1 DEF Closing
<1>3. /\ TextsWhole /\ CommandOpens /\ StringIsLast /\ LineTells /\ PendingComments
      /\ HeldComments /\ CommentsGiven
  BY <1>2 DEF Gives
<1>4. TextsWhole' /\ CommandOpens' BY <1>1, <1>3, ClosingTexts
<1>5. StringIsLast' /\ LineTells' /\ PendingComments' BY <1>1, <1>3, ClosingLines
<1>6. HeldComments' BY <1>1, <1>3, ClosingHeld
<1>7. CommentsGiven' BY <1>1, <1>3, ClosingGiven
<1> QED BY <1>2, <1>4, <1>5, <1>6, <1>7 DEF Gives

----------------------------------------------------------------------------
\* The invariant, and the token a comment is about.

LEMMA GivesStep == Inv /\ Spells /\ Gives /\ [Next]_vars => Gives'
<1> SUFFICES ASSUME Inv, Spells, Gives, [Next]_vars PROVE Gives' OBVIOUS
<1>1. CASE ScanToken \/ ScanParameter \/ ScanHint
  <2>1. PICK given \in Seq(Nat), own \in Seq(Nat) : AddsToken(given, own)
    BY <1>1, ReadsToken
  <2> QED BY <2>1, GivesToken
<1> QED BY <1>1, GivesBlank, GivesComment, GivesEndPayload, GivesReturn, GivesIdle DEF Next

LEMMA GivesAlways == Spec => []Gives
<1>1. Init => Gives BY GivesInit
<1>2. Inv /\ Spells /\ Gives /\ [Next]_vars => Gives' BY GivesStep
<1> QED BY <1>1, <1>2, Invariance, SpellsAlways, PTL DEF Spec

LEMMA LeastIs ==
    ASSUME NEW S \in SUBSET Nat, NEW k \in S, \A m \in S : k <= m
    PROVE  (CHOOSE j \in S : \A m \in S : j <= m) = k
<1>1. ASSUME NEW j \in S, \A m \in S : j <= m PROVE j = k BY <1>1
<1> QED BY <1>1

LEMMA GreatestIs ==
    ASSUME NEW S \in SUBSET Nat, NEW k \in S, \A m \in S : m <= k
    PROVE  (CHOOSE j \in S : \A m \in S : m <= j) = k
<1>1. ASSUME NEW j \in S, \A m \in S : m <= j PROVE j = k BY <1>1
<1> QED BY <1>1

\* Every token stands before a comment no token spells, or after it, and those
\* before it stand before the others.
LEMMA SidesOf ==
    ASSUME Inv, Spells, TextsWhole, NEW c \in Nat, input[c] \in Comments, c \notin Spelled
    PROVE  /\ \A k \in 1..Len(tokens) :
                 (Before(tokens[k].text, c) /\ ~ After(tokens[k].text, c))
                 \/ (After(tokens[k].text, c) /\ ~ Before(tokens[k].text, c))
           /\ \A k, m \in 1..Len(tokens) :
                 k < m /\ Before(tokens[m].text, c) => Before(tokens[k].text, c)
<1>1. ASSUME NEW k \in 1..Len(tokens)
      PROVE  (Before(tokens[k].text, c) /\ ~ After(tokens[k].text, c))
             \/ (After(tokens[k].text, c) /\ ~ Before(tokens[k].text, c))
  <2>1. \A j \in tokens[k].text : j \in Nat
    <3>1. cur \in Nat
      <4>1. Len(input) \in Nat BY DEF Inv, TypeOK
      <4> QED BY <4>1 DEF Inv, TypeOK
    <3> QED BY <3>1 DEF Spells, TokensInOrder
  <2>2. c \notin tokens[k].text BY DEF Spelled
  <2>3. PICK j \in tokens[k].text : TRUE BY DEF TextsWhole
  <2>4. \A i, l \in tokens[k].text : ~ (i < c /\ c < l)
    <3> SUFFICES ASSUME NEW i \in tokens[k].text, NEW l \in tokens[k].text, i < c, c < l
                 PROVE  FALSE
      OBVIOUS
    <3>1. c \in i..l BY <2>1
    <3> QED BY <2>2, <3>1 DEF TextsWhole
  <2>5. \A i \in tokens[k].text : i < c \/ c < i BY <2>1, <2>2
  <2>6. CASE j < c BY <2>1, <2>3, <2>4, <2>5, <2>6 DEF Before, After
  <2>7. CASE c < j BY <2>1, <2>3, <2>4, <2>5, <2>7 DEF Before, After
  <2> QED BY <2>3, <2>5, <2>6, <2>7
<1>2. ASSUME NEW k \in 1..Len(tokens), NEW m \in 1..Len(tokens), k < m,
             Before(tokens[m].text, c)
      PROVE  Before(tokens[k].text, c)
  <2>1. PICK j \in tokens[m].text : j < c BY <1>2 DEF TextsWhole, Before
  <2>2. \A i \in tokens[k].text : i < j BY <1>2 DEF Spells, TokensInOrder
  <2>3. cur \in Nat
    <3>1. Len(input) \in Nat BY DEF Inv, TypeOK
    <3> QED BY <3>1 DEF Inv, TypeOK
  <2>4. \A i \in tokens[k].text : i \in Nat BY <2>3 DEF Spells, TokensInOrder
  <2>5. j \in Nat BY <2>3 DEF Spells, TokensInOrder
  <2> QED BY <2>1, <2>2, <2>4, <2>5 DEF Before
<1> QED BY <1>1, <1>2

\* The rightful token of a comment is its owner.
LEMMA OwnerIs ==
    ASSUME Inv, Spells, TextsWhole, NEW c \in Nat, input[c] \in Comments, c \notin Spelled,
           NEW h \in 1..Len(tokens),
           Rightful(h, c) \/ (h = Len(tokens) /\ Before(tokens[h].text, c))
    PROVE  Owner(c) = h
<1> DEFINE n == Len(tokens)
           before == {k \in 1..n : \A i \in tokens[k].text : i < c}
           after  == {k \in 1..n : \A i \in tokens[k].text : i > c}
           prev   == CHOOSE k \in before : \A m \in before : m <= k
           next   == CHOOSE k \in after : \A m \in after : k <= m
           trails == \E i \in tokens[prev].text :
                        \A j \in (i + 1)..c : j \notin tokens[prev].text /\ input[j] # "nl"
<1>1. Owner(c) = IF before = {} THEN next
                 ELSE IF after = {} \/ trails \/ tokens[next].type = "semi" THEN prev
                 ELSE next
  BY DEF Owner
<1>2. n \in Nat
  <2>1. tokens \in Seq(Token) BY DEF Inv, TypeOK
  <2> QED BY <2>1
<1>3. /\ \A k : k \in before <=> k \in 1..n /\ Before(tokens[k].text, c)
      /\ before \in SUBSET Nat
  BY DEF Before
<1>4. /\ \A k : k \in after <=> k \in 1..n /\ After(tokens[k].text, c)
      /\ after \in SUBSET Nat
  <2>1. ASSUME NEW k \in 1..n
        PROVE  (\A i \in tokens[k].text : i > c) <=> (\A i \in tokens[k].text : c < i)
    OBVIOUS
  <2> QED BY <2>1 DEF After
<1>5. trails <=> Trails(tokens[prev].text, c) BY DEF Trails
<1>6. prev = CHOOSE k \in before : \A m \in before : m <= k OBVIOUS
<1>7. next = CHOOSE k \in after : \A m \in after : k <= m OBVIOUS
<1> HIDE DEF n, before, after, prev, next, trails
<1>8. /\ \A k \in 1..n : k \in before <=> k \notin after
      /\ \A k, m \in 1..n : k < m /\ m \in before => k \in before
  BY <1>3, <1>4, SidesOf DEF n
<1>9. h \in 1..n BY DEF n
<1>10. ASSUME h \in before, h < n => h + 1 \in after PROVE prev = h
  <2>1. \A m \in before : m <= h
    <3> SUFFICES ASSUME NEW m \in before, h < m PROVE FALSE BY <1>3, <1>9
    <3>1. m \in 1..n /\ h < n /\ h + 1 \in 1..n BY <1>2, <1>3, <1>9
    <3>2. h + 1 \in before BY <1>8, <1>9, <3>1
    <3> QED BY <1>8, <1>10, <3>1, <3>2
  <2> QED BY <1>3, <1>6, <1>10, <2>1, GreatestIs
<1>11. ASSUME NEW k \in after, k > 1 => k - 1 \in before PROVE next = k
  <2>1. \A m \in after : k <= m
    <3> SUFFICES ASSUME NEW m \in after, m < k PROVE FALSE BY <1>4
    <3>1. m \in 1..n /\ k \in 1..n /\ k - 1 \in 1..n /\ k > 1 BY <1>2, <1>4
    <3>2. m = k - 1 \/ m < k - 1 BY <3>1
    <3>3. m \in before BY <1>8, <1>11, <3>1, <3>2
    <3> QED BY <1>8, <3>1, <3>3
  <2> QED BY <1>4, <1>7, <2>1, LeastIs
<1>12. CASE h = n /\ h \in before
  <2>1. prev = h BY <1>2, <1>9, <1>10, <1>12
  <2>2. after = {}
    <3> SUFFICES ASSUME NEW m \in after PROVE FALSE OBVIOUS
    <3>1. m \in 1..n /\ (m = n \/ m < n) BY <1>2, <1>4
    <3> QED BY <1>8, <1>9, <1>12, <3>1
  <2> QED BY <1>1, <1>12, <2>1, <2>2
<1>13. CASE /\ h \in before
            /\ h < n => h + 1 \in after
            /\ Trails(tokens[h].text, c) \/ (h < n /\ tokens[h + 1].type = "semi")
  <2>1. prev = h BY <1>10, <1>13
  <2>2. CASE Trails(tokens[h].text, c) BY <1>1, <1>5, <1>13, <2>1, <2>2
  <2>3. CASE h < n /\ tokens[h + 1].type = "semi"
    <3>1. next = h + 1
      <4>1. (h + 1) - 1 = h BY <1>9
      <4> QED BY <1>11, <1>13, <2>3, <4>1
    <3> QED BY <1>1, <1>13, <2>1, <2>3, <3>1
  <2> QED BY <1>13, <2>2, <2>3
<1>14. CASE /\ h \in after
            /\ h > 1 => /\ h - 1 \in before
                        /\ ~ Trails(tokens[h - 1].text, c) /\ tokens[h].type # "semi"
  <2>1. next = h BY <1>11, <1>14
  <2>2. CASE h > 1
    <3>1. h - 1 \in before /\ (h - 1) + 1 = h BY <1>9, <1>14, <2>2
    <3>2. prev = h - 1
      <4>1. \A m \in before : m <= h - 1
        <5> SUFFICES ASSUME NEW m \in before, h <= m PROVE FALSE BY <1>3, <1>9
        <5>1. m \in 1..n /\ (m = h \/ h < m) BY <1>2, <1>3, <1>9
        <5>2. h \in before BY <1>8, <1>9, <5>1
        <5> QED BY <1>8, <1>9, <1>14, <5>2
      <4> QED BY <1>3, <1>6, <3>1, <4>1, GreatestIs
    <3>3. ~ trails BY <1>5, <1>14, <2>2, <3>2
    <3> QED BY <1>1, <1>14, <2>1, <2>2, <3>1, <3>3
  <2>3. CASE ~ (h > 1)
    <3>1. before = {}
      <4> SUFFICES ASSUME NEW m \in before PROVE FALSE OBVIOUS
      <4>1. m \in 1..n /\ h = 1 /\ (m = 1 \/ h < m) BY <1>2, <1>3, <1>9, <2>3
      <4>2. h \in before BY <1>8, <1>9, <4>1
      <4> QED BY <1>8, <1>9, <1>14, <4>2
    <3> QED BY <1>1, <2>1, <3>1
  <2> QED BY <2>2, <2>3
<1>15. \A k \in 1..n : k + 1 \in 1..n \/ ~ (k < n) BY <1>2
<1>16. \A k \in 1..n : k - 1 \in 1..n \/ ~ (k > 1) BY <1>2
<1> QED BY <1>3, <1>4, <1>9, <1>12, <1>13, <1>14, <1>15, <1>16 DEF Rightful, n

\* tokenizer.go:14, 362-365, 523-527.  Every comment outside a payload is given
\* once, to the token it is about: trailing on its line, before a semicolon or at
\* the end the one before it, otherwise the one after it.
THEOREM CommentsReach == Spec => []CommentsReachTheirToken
<1>1. Inv /\ Spells /\ Gives => CommentsReachTheirToken
  <2> SUFFICES ASSUME Inv, Spells, Gives, result = "tokens", tokens # <<>>,
                      NEW c \in 1..Len(input), input[c] \in Comments, c \notin Spelled
               PROVE  /\ Holders(c) = {Owner(c)}
                      /\ \A k \in Holders(c) :
                           Cardinality({p \in 1..Len(tokens[k].comments) :
                                            tokens[k].comments[p] = c}) = 1
    BY DEF CommentsReachTheirToken
  <2>1. TextsWhole /\ AllGiven /\ frames = <<>> BY DEF Gives
  <2>2. Apart(c) BY <2>1 DEF Apart, Spelled
  <2>3. PICK h \in 1..Len(tokens) :
          /\ Held(h, c)
          /\ Rightful(h, c) \/ (h = Len(tokens) /\ Before(tokens[h].text, c))
    BY <2>1, <2>2 DEF AllGiven
  <2>4. Owner(c) = h BY <2>1, <2>3, OwnerIs
  <2>5. Holders(c) = {h} BY <2>3 DEF Holders, Held, Once, Has
  <2>6. PICK p \in 1..Len(tokens[h].comments) :
          /\ tokens[h].comments[p] = c
          /\ \A q \in 1..Len(tokens[h].comments) : tokens[h].comments[q] = c => q = p
    BY <2>3 DEF Held, Once
  <2>7. {q \in 1..Len(tokens[h].comments) : tokens[h].comments[q] = c} = {p} BY <2>6
  <2>8. Cardinality({q \in 1..Len(tokens[h].comments) : tokens[h].comments[q] = c}) = 1
    BY <2>7, FS_Singleton
  <2> QED BY <2>4, <2>5, <2>8
<1> QED BY <1>1, Invariance, SpellsAlways, GivesAlways, PTL
=============================================================================
