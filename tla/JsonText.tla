------------------------------- MODULE JsonText -------------------------------
(***************************************************************************)
(* The parser of the answers that the updater gets from the network        *)
(* (core/simple_json), against the grammar it stands for.  An answer means *)
(* a value; on its way one symbol may be lost, added or changed, or the    *)
(* rest be cut off.                                                        *)
(*                                                                         *)
(* A text is a sequence of symbols: punctuation, one character, one of the *)
(* words, or four hexadecimal digits, which stand together only behind \u. *)
(* A character of a string is written as itself or as an escape.           *)
(***************************************************************************)
EXTENDS Integers, Sequences, SequencesExt, FiniteSets

CONSTANTS
    Meanings,    \* the values an answer may mean
    Characters, \* for each character of their strings, how it is written
    HexGroups,  \* four hexadecimal digits -> their number
    Intruders,  \* what may be added on the way
    MaxDepth    \* how deep a value may lie (64 in the code)

VARIABLES
    answer,     \* the text that has come
    meant,      \* the value the sender has written
    whole       \* nothing has happened to it on the way

answerVars == <<answer, meant, whole>>

ASSUME JsonAssumption == MaxDepth \in Nat

-----------------------------------------------------------------------------
(* The parser.  What is read is [at, value]; at is 0 if the text is wrong. *)

Wrong == [at |-> 0, value |-> <<>>]
ReadTo(p, v) == [at |-> p, value |-> v]

\* peek
Peek(t, p) == IF p <= Len(t) THEN t[p] ELSE "end"

\* skipWhitespace
SkipTo(t, p) == CHOOSE q \in p..Len(t) + 1 : Peek(t, q) # "space" /\ \A r \in p..q - 1 : t[r] = "space"

AsItself(c) == [sign |-> c, bytes |-> <<>>]

\* appendUtf8
Utf8(cp) ==
    [sign |-> "",
     bytes |-> CASE cp < 128 -> <<cp>>
                 [] cp \in 128..2047 -> <<192 + (cp \div 64), 128 + (cp % 64)>>
                 [] cp \in 2048..65535 -> <<224 + (cp \div 4096), 128 + ((cp \div 64) % 64), 128 + (cp % 64)>>
                 [] OTHER -> <<240 + (cp \div 262144), 128 + ((cp \div 4096) % 64),
                               128 + ((cp \div 64) % 64), 128 + (cp % 64)>>]

\* parseHex4
HexAt(t, p) == IF Peek(t, p) \in DOMAIN HexGroups THEN HexGroups[t[p]] ELSE -1

\* Mutant: half of a pair is a character.
UnicodeAnyHalf(t, p) == IF HexAt(t, p) = -1 THEN Wrong ELSE ReadTo(p + 1, Utf8(HexAt(t, p)))

\* What follows \u: a character, or the upper half of one and \u with the lower.
UnicodeFrom(t, p) ==
    LET upper == HexAt(t, p)
        lower == HexAt(t, p + 3)
    IN  CASE upper \in 55296..56319 ->
                IF <<Peek(t, p + 1), Peek(t, p + 2)>> = <<"backslash", "u">> /\ lower \in 56320..57343
                THEN ReadTo(p + 4, Utf8(65536 + (upper - 55296) * 1024 + (lower - 56320)))
                ELSE Wrong
          [] upper = -1 \/ upper \in 56320..57343 -> Wrong
          [] OTHER -> ReadTo(p + 1, Utf8(upper))

\* n stands for the other control characters, too.
Escapes == [quote |-> "quote", backslash |-> "backslash", n |-> "newline"]

RECURSIVE CharactersFrom(_, _, _)
CharactersFrom(t, p, s) ==
    CASE Peek(t, p) = "quote" -> ReadTo(p + 1, s)
      [] Peek(t, p) = "end" -> Wrong
      [] Peek(t, p) = "backslash" ->
            LET e == Peek(t, p + 1)
                c == UnicodeFrom(t, p + 2)
            IN  CASE e \in DOMAIN Escapes -> CharactersFrom(t, p + 2, Append(s, AsItself(Escapes[e])))
                  [] e = "u" /\ c.at # 0 -> CharactersFrom(t, c.at, Append(s, c.value))
                  [] OTHER -> Wrong
      [] OTHER -> CharactersFrom(t, p + 1, Append(s, AsItself(t[p])))

\* parseString
ParseString(t, p) == IF Peek(t, p) = "quote" THEN CharactersFrom(t, p + 1, <<>>) ELSE Wrong

Digit == {"0", "7", "999"}
Words == {"true", "false", "null"}

\* Where the digits from p on end.
DigitsTo(t, p) == CHOOSE q \in p..Len(t) + 1 : Peek(t, q) \notin Digit /\ \A r \in p..q - 1 : t[r] \in Digit

\* What strtod says of the token: an exponent of that size is out of range, but
\* for zero.
OutOfRange(token) ==
    \E i \in 1..Len(token) :
        /\ token[i] = "e"
        /\ \E j \in 1..i : token[j] \in {"7", "999"}
        /\ \E k \in i..Len(token) : token[k] = "999"

\* parseNumber: each part that is begun has its digits.
ParseNumber(t, p) ==
    LET first == IF Peek(t, p) = "-" THEN p + 1 ELSE p
        point == DigitsTo(t, first)
        exponent == IF Peek(t, point) = "." THEN DigitsTo(t, point + 1) ELSE point
        power == IF Peek(t, exponent + 1) \in {"+", "-"} THEN exponent + 2 ELSE exponent + 1
        past == IF Peek(t, exponent) = "e" THEN DigitsTo(t, power) ELSE exponent
        token == SubSeq(t, p, past - 1)
    IN  IF \/ point = first \/ (Peek(t, point) = "." /\ exponent = point + 1)
           \/ (Peek(t, exponent) = "e" /\ past = power) \/ OutOfRange(token)
        THEN Wrong ELSE ReadTo(past, <<"number", token>>)

RECURSIVE ParseValue(_, _, _), ParseItems(_, _, _, _), ParseFields(_, _, _, _)

\* parseValue; parseObject and parseArray up to their first member.
ParseValue(t, p, depth) ==
    LET inside == SkipTo(t, p + 1)
        text == ParseString(t, p)
    IN  IF depth > MaxDepth THEN Wrong
        ELSE CASE Peek(t, p) = "{" ->
                    IF Peek(t, inside) = "}" THEN ReadTo(inside + 1, <<"object", <<>>>>)
                    ELSE ParseFields(t, inside, depth, <<>>)
               [] Peek(t, p) = "[" ->
                    IF Peek(t, inside) = "]" THEN ReadTo(inside + 1, <<"array", <<>>>>)
                    ELSE ParseItems(t, inside, depth, <<>>)
               [] Peek(t, p) = "quote" -> IF text.at = 0 THEN Wrong ELSE ReadTo(text.at, <<"string", text.value>>)
               [] Peek(t, p) \in Words -> ReadTo(p + 1, <<"word", t[p]>>)
               [] OTHER -> ParseNumber(t, p)

\* What follows a member: another one, the end, or nothing that is right.
GoesOn(t, p) == Peek(t, SkipTo(t, p)) = ","
Closes(t, p, bracket) == Peek(t, SkipTo(t, p)) = bracket

\* Mutant: the bracket may follow a comma.
ParseItemsGenerous(t, p, depth, items) ==
    LET item == ParseValue(t, SkipTo(t, p), depth + 1)
        all == Append(items, item.value)
    IN  CASE Closes(t, p, "]") -> ReadTo(SkipTo(t, p) + 1, <<"array", items>>)
          [] item.at # 0 /\ GoesOn(t, item.at) -> ParseItems(t, SkipTo(t, item.at) + 1, depth, all)
          [] item.at # 0 /\ Closes(t, item.at, "]") -> ReadTo(SkipTo(t, item.at) + 1, <<"array", all>>)
          [] OTHER -> Wrong

\* parseArray, from an item on.
ParseItems(t, p, depth, items) ==
    LET item == ParseValue(t, SkipTo(t, p), depth + 1)
        all == Append(items, item.value)
    IN  CASE item.at # 0 /\ GoesOn(t, item.at) -> ParseItems(t, SkipTo(t, item.at) + 1, depth, all)
          [] item.at # 0 /\ Closes(t, item.at, "]") -> ReadTo(SkipTo(t, item.at) + 1, <<"array", all>>)
          [] OTHER -> Wrong

\* parseObject, from a key on.
ParseFields(t, p, depth, fields) ==
    LET key == ParseString(t, SkipTo(t, p))
        colon == SkipTo(t, key.at)
        keyed == key.at # 0 /\ Peek(t, colon) = ":"
        child == ParseValue(t, SkipTo(t, colon + 1), depth + 1)
        all == Append(fields, <<key.value, child.value>>)
    IN  CASE keyed /\ child.at # 0 /\ GoesOn(t, child.at) ->
                ParseFields(t, SkipTo(t, child.at) + 1, depth, all)
          [] keyed /\ child.at # 0 /\ Closes(t, child.at, "}") ->
                ReadTo(SkipTo(t, child.at) + 1, <<"object", all>>)
          [] OTHER -> Wrong

\* parse, Parser::run: a mark of the byte order is passed over, and nothing
\* but space follows the value.
ParsedAnswer(t) ==
    LET body == IF Peek(t, 1) = "bom" THEN Tail(t) ELSE t
        read == ParseValue(body, SkipTo(body, 1), 0)
    IN  IF read.at # 0 /\ SkipTo(body, read.at) = Len(body) + 1 THEN read ELSE Wrong

-----------------------------------------------------------------------------
(* The sender, and the way.                                                *)

WrittenString(s) ==
    <<"quote">> \o FlattenSeq([i \in 1..Len(s) |-> (CHOOSE w \in Characters : w[1] = s[i])[2]]) \o <<"quote">>

Joined(parts, gap) ==
    FlattenSeq([i \in 1..Len(parts) |-> gap \o (IF i = 1 THEN <<>> ELSE <<",">> \o gap) \o parts[i]]) \o gap

RECURSIVE Written(_, _)
Written(v, gap) ==
    CASE v[1] = "number" -> v[2]
      [] v[1] = "word" -> <<v[2]>>
      [] v[1] = "string" -> WrittenString(v[2])
      [] v[1] = "array" ->
            <<"[">> \o Joined([i \in 1..Len(v[2]) |-> Written(v[2][i], gap)], gap) \o <<"]">>
      [] v[1] = "object" ->
            <<"{">> \o Joined([i \in 1..Len(v[2]) |-> WrittenString(v[2][i][1]) \o gap \o <<":">> \o gap
                                                        \o Written(v[2][i][2], gap)], gap) \o <<"}">>

AnswerInit ==
    /\ meant \in Meanings
    /\ whole = TRUE
    /\ \/ answer = Written(meant, <<>>)
       \/ answer = <<"bom", "space">> \o Written(meant, <<"space">>) \o <<"space">>

Arrives(t) == whole /\ answer' = t /\ whole' = FALSE /\ UNCHANGED meant

CutOff == \E n \in 0..Len(answer) - 1 : Arrives(SubSeq(answer, 1, n))
Loses == \E i \in 1..Len(answer) : Arrives(RemoveAt(answer, i))
Gains == \E i \in 1..Len(answer) + 1, c \in Intruders : Arrives(InsertAt(answer, i, c))
Changes == \E i \in 1..Len(answer), c \in Intruders : c # answer[i] /\ Arrives([answer EXCEPT ![i] = c])

AnswerNext == CutOff \/ Loses \/ Gains \/ Changes

AnswerSpec == AnswerInit /\ [][AnswerNext]_answerVars

-----------------------------------------------------------------------------
(* The grammar: how a text can be taken apart.                             *)

Stripped(t) ==
    LET marks == {i \in 1..Len(t) : t[i] # "space"}
    IN  IF marks = {} THEN <<>>
        ELSE SubSeq(t, CHOOSE i \in marks : \A j \in marks : i <= j, CHOOSE i \in marks : \A j \in marks : i >= j)

Before(t, i) == SubSeq(t, 1, i - 1)
Behind(t, i) == SubSeq(t, i + 1, Len(t))

AreDigits(t) == t # <<>> /\ \A i \in 1..Len(t) : t[i] \in Digit

IsNumberText(t) ==
    /\ ~OutOfRange(t)
    /\ \E sign \in 0..1, w \in 1..Len(t), f \in 1..Len(t) :
        /\ w <= f /\ (sign = 1 => t[1] = "-")
        /\ AreDigits(SubSeq(t, sign + 1, w))
        /\ f = w \/ (t[w + 1] = "." /\ AreDigits(SubSeq(t, w + 2, f)))
        /\ f = Len(t) \/ (t[f + 1] = "e" /\ \E s \in {1, 2} :
                            /\ s = 2 => Len(t) > f + 1 /\ t[f + 2] \in {"+", "-"}
                            /\ AreDigits(Behind(t, f + s)))

Halves(s) == [upper |-> s \in DOMAIN HexGroups /\ HexGroups[s] \in 55296..56319,
              lower |-> s \in DOMAIN HexGroups /\ HexGroups[s] \in 56320..57343]
IsCharacter(t) ==
    \/ Len(t) = 1 /\ t[1] \notin {"quote", "backslash"}
    \/ Len(t) = 2 /\ t[1] = "backslash" /\ t[2] \in DOMAIN Escapes
    \/ /\ Len(t) = 3 /\ t[1] = "backslash" /\ t[2] = "u" /\ t[3] \in DOMAIN HexGroups
       /\ ~Halves(t[3]).upper /\ ~Halves(t[3]).lower
    \/ /\ Len(t) = 6 /\ t[1] = "backslash" /\ t[2] = "u" /\ t[4] = "backslash" /\ t[5] = "u"
       /\ Halves(t[3]).upper /\ Halves(t[6]).lower

RECURSIVE AreCharacters(_)
AreCharacters(t) ==
    t = <<>> \/ \E n \in {1, 2, 3, 6} :
                    n <= Len(t) /\ IsCharacter(SubSeq(t, 1, n)) /\ AreCharacters(Behind(t, n))

IsStringText(t) ==
    Len(t) > 1 /\ t[1] = "quote" /\ t[Len(t)] = "quote" /\ AreCharacters(SubSeq(t, 2, Len(t) - 1))

\* left: how many brackets may still be opened around a value.
RECURSIVE IsJson(_, _), AreItems(_, _), AreFields(_, _)
IsJson(text, left) ==
    LET t == Stripped(text)
        inner == SubSeq(t, 2, Len(t) - 1)
        Within(open, close) == Len(t) > 1 /\ t[1] = open /\ t[Len(t)] = close
    IN  /\ left >= 0 /\ t # <<>>
        /\ \/ Len(t) = 1 /\ t[1] \in Words
           \/ IsNumberText(t)
           \/ IsStringText(t)
           \/ Within("[", "]") /\ (Stripped(inner) = <<>> \/ AreItems(inner, left - 1))
           \/ Within("{", "}") /\ (Stripped(inner) = <<>> \/ AreFields(inner, left - 1))
AreItems(t, left) ==
    IsJson(t, left) \/ \E i \in 1..Len(t) : t[i] = "," /\ IsJson(Before(t, i), left) /\ AreItems(Behind(t, i), left)
AreFields(t, left) ==
    LET IsField(f) == \E i \in 1..Len(f) :
                        f[i] = ":" /\ IsStringText(Stripped(Before(f, i))) /\ IsJson(Behind(f, i), left)
    IN  IsField(t) \/ \E i \in 1..Len(t) : t[i] = "," /\ IsField(Before(t, i)) /\ AreFields(Behind(t, i), left)

-----------------------------------------------------------------------------
\* Every variable has its type.
AnswerTypeOK == answer \in Seq(STRING) /\ meant \in Meanings /\ whole \in BOOLEAN

Body == IF answer # <<>> /\ answer[1] = "bom" THEN Tail(answer) ELSE answer

\* simple_json.h: what is taken for an answer is JSON, not too deep and with
\* numbers a double can hold, and all of that is taken: nothing that was cut or
\* changed on the way passes for an answer, unless it happens to be one.
JsonAndNothingElse == ParsedAnswer(answer).at # 0 <=> IsJson(Body, MaxDepth)

\* What the sender has meant is what is read, every character of it, the pairs
\* of the upper planes included (tests/unit_tests.cpp:3645).
MeantIsRead == whole /\ IsJson(Body, MaxDepth) => ParsedAnswer(answer).value = meant

AnswersAreUnderstood == JsonAndNothingElse /\ MeantIsRead
=============================================================================
