-------------------------------- MODULE Lines --------------------------------
(***************************************************************************)
(* api/parser.py, its lexical half: how a line becomes tokens and how a    *)
(* text is quoted.  A line is a sequence of symbols.  A character that     *)
(* means something to the tokenizer is a symbol of its own; a keyword, a   *)
(* number or a timestamp, which has none of them, is one symbol.           *)
(***************************************************************************)
EXTENDS Integers, Sequences, SequencesExt, TLC

CONSTANTS
    Symbols,   \* what lines are made of
    Numbers    \* bound: the numbers lines carry

Mark == "\""
\* The two digits of a character after "#"; "z" stands for any letter and "2"
\* for a hexadecimal digit.
Hex == [char \in {Mark, "#", "\n", " ", ",", "2", "z"} |->
          CASE char = Mark -> <<"2", "2">> [] char = "#" -> <<"2", "3">> [] char = "\n" -> <<"0", "A">>
            [] char = " " -> <<"2", "0">> [] char = "," -> <<"2", "C">> [] char = "2" -> <<"3", "2">>
            [] char = "z" -> <<"7", "A">>]
Whitespace == {" ", "\n"}
\* The symbols that are named here are among Symbols.
ASSUME SymbolsAssumption == DOMAIN Hex \cup {"0", "3", "7", "A", "C"} \subseteq Symbols
Text == Seq(Symbols)
Token == [type : {"word", "string", "comma", "raised"}, value : Text]

-----------------------------------------------------------------------------
(* A while loop over what is left of its input.  A turn of the loop is a   *)
(* function from the state before it to the state after it; what has       *)
(* nothing left to read stays as it is.                                    *)
Repeated(turn, n, start) ==
    LET after[i \in Nat] == IF i = 0 THEN start ELSE turn[after[i - 1]] IN after[n]
\* No turn reads nothing, so Len(start.rest) turns read all.
Loop(turn, start) == Repeated(turn, Len(start.rest), start)

-----------------------------------------------------------------------------
Quoted(text, escaped) ==
    <<Mark>> \o FlattenSeq([i \in DOMAIN text |->
                              IF text[i] \in escaped THEN <<"#">> \o Hex[text[i]] ELSE <<text[i]>>])
    \o <<Mark>>

QuoteWithPlainHash(text) == Quoted(text, {Mark, "\n"})
quote(text) == Quoted(text, {Mark, "#", "\n"})

\* "#NN" from the left; a "#" without two digits stands for itself.
Decode == [d \in [rest : Text, text : Text] |->
    LET named == {c \in DOMAIN Hex : IsPrefix(<<"#">> \o Hex[c], d.rest)} IN
    IF d.rest = <<>> THEN d
    ELSE IF named # {}
    THEN [rest |-> SubSeq(d.rest, 4, Len(d.rest)), text |-> Append(d.text, CHOOSE c \in named : TRUE)]
    ELSE [rest |-> Tail(d.rest), text |-> Append(d.text, Head(d.rest))]]

decode_quoted(s) == Loop(Decode, [rest |-> s, text |-> <<>>]).text

-----------------------------------------------------------------------------
Word(value) == [type |-> "word", value |-> value]
String(value) == [type |-> "string", value |-> value]
Comma == [type |-> "comma", value |-> <<",">>]
Raised == <<[type |-> "raised", value |-> <<>>]>>   \* SigurProtocolError

\* The place of the first symbol of s from i on that is one of `marks`.
Find(s, i, marks) ==
    LET found == {j \in i..Len(s) : s[j] \in marks} IN
    IF found = {} THEN Len(s) + 1 ELSE CHOOSE j \in found : \A k \in found : j <= k

Special == Whitespace \cup {",", Mark}

Scan == [s \in [rest : Text, tokens : Seq(Token)] |->
    LET line == s.rest IN
    IF line = <<>> THEN s
    ELSE IF Head(line) \in Whitespace THEN [rest |-> Tail(line), tokens |-> s.tokens]
    ELSE IF Head(line) = "," THEN [rest |-> Tail(line), tokens |-> Append(s.tokens, Comma)]
    ELSE IF Head(line) = Mark THEN
        LET end == Find(line, 2, {Mark}) IN
        IF end > Len(line) THEN [rest |-> <<>>, tokens |-> Raised]
        ELSE [rest |-> SubSeq(line, end + 1, Len(line)),
              tokens |-> Append(s.tokens, String(decode_quoted(SubSeq(line, 2, end - 1))))]
    ELSE
        LET end == Find(line, 1, Special) IN
        [rest |-> SubSeq(line, end, Len(line)), tokens |-> Append(s.tokens, Word(SubSeq(line, 1, end - 1)))]]

tokenize(line) == Loop(Scan, [rest |-> line, tokens |-> <<>>]).tokens

-----------------------------------------------------------------------------
(* TokenStream: what the parsers ask of token i of a stream.               *)
HasValue(t, i) == i <= Len(t) /\ t[i].type \in {"word", "string"}
Is(t, i, keyword) == HasValue(t, i) /\ t[i].value = <<keyword>>
Digits == [n \in Numbers |-> ToString(n)]
\* No two numbers are written alike, and none with a special character.
ASSUME NumbersAssumption ==
    /\ Numbers \subseteq Nat
    /\ \A n \in Numbers : /\ Digits[n] \in Symbols \ Special
                         /\ \A m \in Numbers : Digits[m] = Digits[n] => m = n
HasNumber(t, i) == HasValue(t, i) /\ \E n \in Numbers : t[i].value = <<Digits[n]>>
HasNumbers(t, first, last) == \A i \in first..last : HasNumber(t, i)
Number(t, i) == CHOOSE n \in Numbers : t[i].value = <<Digits[n]>>
Rest(t, i) == SubSeq(t, i, Len(t))
AtComma(t) == t # <<>> /\ Head(t) = Comma
=============================================================================
