------------------------------ MODULE SourceText ------------------------------
(***************************************************************************)
(* The scanner (lang/engine/lexer/): source text to tokens.  A text is a   *)
(* string and a position is the number of its next character, so At is the *)
(* empty string past the end.  Sources are ASCII.  Every scan returns a    *)
(* result: ok with a value and the position after it, or the code of the   *)
(* syntax error.  Spans are left out.                                      *)
(***************************************************************************)
EXTENDS Integers, Sequences, SequencesExt, TLC

At(text, i) == IF i \in 1..Len(text) THEN SubSeq(text, i, i) ELSE ""
(* text[i:j] of the code, which stops at the end of the text. *)
Piece(text, i, j) == LET last == IF j <= Len(text) THEN j ELSE Len(text)
                     IN IF i > last THEN "" ELSE SubSeq(text, i, last)
StartsWith(text, prefix, i) == Piece(text, i, i + Len(prefix) - 1) = prefix
CharactersOf(text) == {At(text, i) : i \in 1..Len(text)}

Ok(value, end) == [ok |-> TRUE, v |-> value, end |-> end]
Bad(code) == [ok |-> FALSE, v |-> code, end |-> 0]
Then(result, Continue(_)) == IF result.ok THEN Continue(result) ELSE result

Escaped(text, escapes) ==
    FoldLeft(LAMBDA done, k : done \o (IF At(text, k) \in DOMAIN escapes THEN escapes[At(text, k)]
                                       ELSE At(text, k)),
             "", [k \in 1..Len(text) |-> k])

ASCII_DIGITS == CharactersOf("0123456789")
Letters == CharactersOf("abcdefghijklmnopqrstuvwxyzABCDEFGHIJKLMNOPQRSTUVWXYZ_")
HexDigits == CharactersOf("0123456789abcdefABCDEF")
LineEnds == {"\r", "\n"}
Quotes == {"'", "\""}
Lower(c) == IF c \in Letters
            THEN LET upper == "ABCDEFGHIJKLMNOPQRSTUVWXYZ"
                     lower == "abcdefghijklmnopqrstuvwxyz"
                 IN IF \E k \in 1..26 : At(upper, k) = c
                    THEN At(lower, CHOOSE k \in 1..26 : At(upper, k) = c) ELSE c
            ELSE c

(* The first position from i on whose character fails the test. *)
StopAt(text, i, Test(_)) ==
    CHOOSE j \in i..(Len(text) + 1) :
        /\ j = Len(text) + 1 \/ ~Test(j)
        /\ \A k \in i..(j - 1) : Test(k)

Keywords == {"and", "or", "not", "if", "else", "for", "in", "is", "true", "false", "none",
             "raise", "try", "except", "finally", "assert", "with", "as",
             "True", "False", "None"}
DoubleTokens == {"**", "//", "<<", ">>", "<=", ">=", "==", "!=", "?.", "??", "->"}
SingleTokens == CharactersOf("()[]{},:.+-*/%@&|^~<>=")

(* Tokens of a keyword or symbol have their spelling as kind. *)
Token(kind, lexeme, value) == [kind |-> kind, lexeme |-> lexeme, value |-> value]
KeywordKind == [k \in Keywords |-> CASE k = "True" -> "true" [] k = "False" -> "false"
                                     [] k = "None" -> "none" [] OTHER -> k]

-----------------------------------------------------------------------------
(* Numbers: the longest candidate, then the grammar of the whole of it.    *)

Digits(s, digits) ==
    /\ At(s, 1) \in digits /\ At(s, Len(s)) \in digits
    /\ \A i \in 1..Len(s) : At(s, i) \in digits \/ (At(s, i) = "_" /\ At(s, i + 1) \in digits)

Decimal(s) == Digits(s, ASCII_DIGITS)
Exponent(s) ==
    /\ At(s, 1) \in {"e", "E"}
    /\ LET from == IF At(s, 2) \in {"+", "-"} THEN 3 ELSE 2 IN Decimal(Piece(s, from, Len(s)))

FLOAT(s) ==
    \E e \in 1..(Len(s) + 1) :
        LET mantissa == Piece(s, 1, e - 1)
            tail == Piece(s, e, Len(s))
        IN \/ /\ tail = "" \/ Exponent(tail)
              /\ \E dot \in 1..Len(mantissa) :
                    /\ At(mantissa, dot) = "."
                    /\ \A side \in {Piece(mantissa, 1, dot - 1),
                                    Piece(mantissa, dot + 1, Len(mantissa))} :
                           side = "" \/ Decimal(side)
           \/ Exponent(tail) /\ Decimal(mantissa)

RadixDigits == [x |-> HexDigits, o |-> CharactersOf("01234567"), b |-> {"0", "1"}]
RadixOf(s) == IF At(s, 1) = "0" /\ Lower(At(s, 2)) \in {"x", "o", "b"} THEN Lower(At(s, 2)) ELSE ""
INTEGER(s) ==
    IF RadixOf(s) # ""
    THEN Digits(Piece(s, IF At(s, 3) = "_" THEN 4 ELSE 3, Len(s)), RadixDigits[RadixOf(s)])
    ELSE Decimal(s) /\ (At(s, 1) = "0" => CharactersOf(s) \subseteq {"0", "_"})

Continues(text, j) ==
    \/ At(text, j) \in Letters \cup ASCII_DIGITS \cup {"."}
    \/ At(text, j) \in {"+", "-"} /\ At(text, j - 1) \in {"e", "E"}
NUMBER_CANDIDATE(text, i) ==
    StopAt(text, i + (IF At(text, i) = "." THEN 2 ELSE 1), LAMBDA j : Continues(text, j))

DigitValue(c) == LET digits == "0123456789abcdef" IN (CHOOSE k \in 1..16 : At(digits, k) = Lower(c)) - 1
ValueIn(base, digits) ==
    FoldLeft(LAMBDA n, c : IF c = "_" THEN n ELSE n * base + DigitValue(c), 0,
             [k \in 1..Len(digits) |-> At(digits, k)])
IntegerText(s) ==
    ToString(CASE RadixOf(s) = "x" -> ValueIn(16, Piece(s, 3, Len(s)))
               [] RadixOf(s) = "o" -> ValueIn(8, Piece(s, 3, Len(s)))
               [] RadixOf(s) = "b" -> ValueIn(2, Piece(s, 3, Len(s)))
               [] OTHER -> ValueIn(10, s))

(* What a float of few digits and without exponent is printed as: without
   the needless zeros, with the missing ones.  Floats are named by this text. *)
FloatText(lexeme) ==
    LET digits == Escaped(lexeme, "_" :> "")
        dot == CHOOSE k \in 1..Len(digits) : At(digits, k) = "."
        nonZero == {k \in 1..Len(digits) : At(digits, k) \notin {"0", "."}}
        first == IF nonZero = {} THEN dot - 1
                 ELSE LET low == CHOOSE k \in nonZero : \A j \in nonZero : k <= j
                      IN IF low < dot THEN low ELSE dot - 1
        last == IF nonZero = {} THEN dot + 1
                ELSE LET high == CHOOSE k \in nonZero : \A j \in nonZero : k >= j
                     IN IF high > dot THEN high ELSE dot + 1
    IN (IF dot = 1 THEN "0" ELSE Piece(digits, first, dot - 1)) \o "." \o
       (IF last > Len(digits) THEN "0" ELSE Piece(digits, dot + 1, last))

internal_scan_number(text, i) ==
    LET end == NUMBER_CANDIDATE(text, i)
        lexeme == Piece(text, i, end - 1)
    IN CASE FLOAT(lexeme)   -> Ok(Token("float", lexeme, <<"float", FloatText(lexeme)>>), end)
         [] INTEGER(lexeme) -> Ok(Token("integer", lexeme, <<"int", IntegerText(lexeme)>>), end)
         [] OTHER           -> Bad("invalid numeric literal")

-----------------------------------------------------------------------------
(* Escapes.  A character outside printable ASCII is named by its code.     *)

Printable32 == " !\"#$%&'()*+,-./0123456789:;<=>?@ABCDEFGHIJKLMNOPQRSTUVWXYZ[\\]^_"
Printable97 == "abcdefghijklmnopqrstuvwxyz{|}~"
Character(code) == CASE code \in 32..95  -> At(Printable32, code - 31)
                     [] code \in 97..126 -> At(Printable97, code - 96)
                     [] code = 9  -> "\t"
                     [] code = 10 -> "\n"
                     [] code = 12 -> "\f"
                     [] code = 13 -> "\r"
                     [] OTHER     -> "<" \o ToString(code) \o ">"
SimpleEscapes == "\\" :> "\\" @@ "'" :> "'" @@ "\"" :> "\"" @@ "a" :> Character(7)
              @@ "b" :> Character(8) @@ "f" :> "\f" @@ "n" :> "\n" @@ "r" :> "\r"
              @@ "t" :> "\t" @@ "v" :> Character(11)
CharacterNames == "SPACE" :> " " @@ "COMMA" :> ","
MaxCharacter == 1114111

internal_fixed_escape(content, marker, width) ==
    LET digits == Piece(content, marker + 1, marker + width) IN
    IF Len(digits) # width \/ ~(CharactersOf(digits) \subseteq HexDigits)
       \/ (width = 8 /\ ValueIn(16, Piece(digits, 1, 4)) > MaxCharacter \div 65536)
    THEN Bad("invalid hexadecimal escape")
    ELSE Ok(Character(ValueIn(16, digits)), marker + width + 1)

internal_named_escape(content, marker) ==
    LET end == StopAt(content, marker + 2, LAMBDA j : At(content, j) # "}")
        name == Piece(content, marker + 2, end - 1)
    IN CASE At(content, marker + 1) # "{"     -> Bad("invalid named escape")
         [] end > Len(content)                -> Bad("unterminated named escape")
         [] name \notin DOMAIN CharacterNames -> Bad("unknown character name")
         [] OTHER                             -> Ok(CharacterNames[name], end + 1)

internal_decode_escape(content, i, bytesMode) ==
    LET marker == At(content, i)
        octal == StopAt(content, i, LAMBDA j : j < i + 3 /\ At(content, j) \in RadixDigits.o)
        code == ValueIn(8, Piece(content, i, octal - 1))
    IN CASE marker \in DOMAIN SimpleEscapes -> Ok(SimpleEscapes[marker], i + 1)
         [] marker \in LineEnds -> Ok("", IF StartsWith(content, "\r\n", i) THEN i + 2 ELSE i + 1)
         [] marker \in RadixDigits.o -> IF bytesMode /\ code > 255 THEN Bad("non-byte character")
                                        ELSE Ok(Character(code), octal)
         [] marker = "x" -> internal_fixed_escape(content, i, 2)
         [] marker \in {"u", "U", "N"} /\ bytesMode -> Bad("Unicode escape in bytes")
         [] marker = "u" -> internal_fixed_escape(content, i, 4)
         [] marker = "U" -> internal_fixed_escape(content, i, 8)
         [] marker = "N" -> internal_named_escape(content, i)
         [] OTHER -> Bad("unsupported escape")

RECURSIVE DecodeFrom(_, _, _, _)
DecodeFrom(content, i, bytesMode, decoded) ==
    CASE i > Len(content) -> Ok(decoded, i)
      [] At(content, i) # "\\" -> DecodeFrom(content, i + 1, bytesMode, decoded \o At(content, i))
      [] OTHER -> Then(internal_decode_escape(content, i + 1, bytesMode),
                       LAMBDA r : DecodeFrom(content, r.end, bytesMode, decoded \o r.v))

decode_content(content, raw, bytesMode) ==
    IF raw THEN Ok(content, 0) ELSE DecodeFrom(content, 1, bytesMode, "")

-----------------------------------------------------------------------------
(* Strings.  A prefix is looked for two characters long, then one.         *)

ValidPrefixes == {"b", "r", "f", "br", "rb", "fr", "rf"}
LowerText(s) == IF Len(s) = 2 THEN Lower(At(s, 1)) \o Lower(At(s, 2)) ELSE Lower(s)
PrefixLengths(text, i) ==
    {n \in {1, 2} : /\ LowerText(Piece(text, i, i + n - 1)) \in ValidPrefixes
                    /\ At(text, i + n) \in Quotes}
internal_string_prefix(text, i) ==
    CASE At(text, i) \in Quotes -> [prefix |-> "", quoteAt |-> i]
      [] PrefixLengths(text, i) = {} -> [prefix |-> "", quoteAt |-> 0]
      [] OTHER -> LET n == IF 2 \in PrefixLengths(text, i) THEN 2 ELSE 1
                  IN [prefix |-> LowerText(Piece(text, i, i + n - 1)), quoteAt |-> i + n]
Has(prefix, c) == c \in CharactersOf(prefix)

DelimiterAt(text, quoteAt) ==
    LET quote == At(text, quoteAt) IN
    IF StartsWith(text, quote \o quote \o quote, quoteAt) THEN quote \o quote \o quote ELSE quote

RECURSIVE ClosingAt(_, _, _)
ClosingAt(text, i, delimiter) ==
    CASE i > Len(text) -> Bad("unterminated string literal")
      [] StartsWith(text, delimiter, i) -> Ok(i, i + Len(delimiter))
      [] At(text, i) \in LineEnds /\ Len(delimiter) = 1 -> Bad("newline in single-quoted literal")
      [] At(text, i) = "\\" ->
            ClosingAt(text, i + (IF StartsWith(text, "\r\n", i + 1) THEN 3 ELSE 2), delimiter)
      [] OTHER -> ClosingAt(text, i + 1, delimiter)

internal_scan_string(text, start, prefix, quoteAt) ==
    LET delimiter == DelimiterAt(text, quoteAt)
        from == quoteAt + Len(delimiter)
        bytesMode == Has(prefix, "b")
        kind == IF bytesMode THEN "bytes" ELSE "string"
    IN Then(ClosingAt(text, from, delimiter), LAMBDA close :
         Then(decode_content(Piece(text, from, close.v - 1), Has(prefix, "r"), bytesMode),
              LAMBDA r : Ok(Token(kind, Piece(text, start, close.end - 1),
                                  <<IF bytesMode THEN "bytes" ELSE "str", r.v>>), close.end)))

-----------------------------------------------------------------------------
(* F-strings: texts and fields.  A field keeps the text of its expression, *)
(* which the parser scans again.                                           *)

FStringText(text) == [text |-> text, field |-> FALSE]
FStringField(expression, conversion, spec, hasSpec, debug) ==
    [text |-> expression, field |-> TRUE, conversion |-> conversion,
     spec |-> spec, hasSpec |-> hasSpec, debug |-> debug]

RECURSIVE SkipQuoted(_, _, _)
SkipQuoted(text, i, delimiter) ==
    CASE i > Len(text) -> Bad("unterminated quote in f-string expression")
      [] StartsWith(text, delimiter, i) -> Ok("", i + Len(delimiter))
      [] OTHER -> SkipQuoted(text, i + (IF At(text, i) = "\\" THEN 2 ELSE 1), delimiter)

Closer == "(" :> ")" @@ "[" :> "]" @@ "{" :> "}"

internal_is_debug_equal(text, start, i) ==
    /\ (IF i > start THEN At(text, i - 1) ELSE "") \notin {"<", ">", "=", "!"}
    /\ At(text, i + 1) # "="

(* The end of a field's expression: the first "!", ":", "}" or debug "="
   outside brackets and quotes, or the end of the text. *)
RECURSIVE ExpressionEnd(_, _, _, _)
ExpressionEnd(text, start, i, stack) ==
    LET c == At(text, i)
        outside == stack = <<>>
    IN CASE i > Len(text) -> Ok(FALSE, i)
         [] c \in Quotes -> Then(SkipQuoted(text, i + Len(DelimiterAt(text, i)), DelimiterAt(text, i)),
                                 LAMBDA r : ExpressionEnd(text, start, r.end, stack))
         [] c \in DOMAIN Closer -> ExpressionEnd(text, start, i + 1, Append(stack, Closer[c]))
         [] ~outside /\ c = Last(stack) -> ExpressionEnd(text, start, i + 1, Front(stack))
         [] c \in {")", "]"} -> Bad("mismatched delimiter in f-string field")
         [] outside /\ c \in {"!", ":", "}"} /\ ~StartsWith(text, "!=", i) -> Ok(FALSE, i)
         [] outside /\ c = "=" /\ internal_is_debug_equal(text, start, i) -> Ok(TRUE, i)
         [] c = "\\" -> Bad("backslash in f-string expression")
         [] c = "#" -> Bad("comment in f-string expression")
         [] OTHER -> ExpressionEnd(text, start, i + 1, stack)

Blank == {" ", "\t", "\f"}
Strip(s) ==
    LET kept == {i \in 1..Len(s) : At(s, i) \notin Blank \cup LineEnds}
        low == CHOOSE i \in kept : \A k \in kept : i <= k
        high == CHOOSE i \in kept : \A k \in kept : i >= k
    IN IF kept = {} THEN "" ELSE Piece(s, low, high)

internal_conversion(text, i) ==
    CASE At(text, i) # "!" -> Ok("", i)
      [] At(text, i + 1) \in {"s", "r", "a"} -> Ok(At(text, i + 1), i + 2)
      [] OTHER -> Bad("invalid f-string conversion")

Flush(buffer, parts, raw) ==
    IF buffer = "" THEN Ok(parts, 0)
    ELSE Then(decode_content(buffer, raw, FALSE), LAMBDA r : Ok(Append(parts, FStringText(r.v)), 0))

(* mode: [raw, delimiter, top] *)
RECURSIVE Parts(_, _, _, _, _)
RECURSIVE internal_field(_, _, _)
Parts(text, i, buffer, parts, mode) ==
    LET c == At(text, i)
        Add(piece, width) == Parts(text, i + width, buffer \o piece, parts, mode)
    IN CASE i > Len(text) -> Bad(IF mode.top THEN "unterminated f-string"
                                 ELSE "unterminated format specification")
         [] mode.top /\ StartsWith(text, mode.delimiter, i) ->
               Then(Flush(buffer, parts, mode.raw), LAMBDA r : Ok(r.v, i + Len(mode.delimiter)))
         [] ~mode.top /\ c = "}" -> Then(Flush(buffer, parts, mode.raw), LAMBDA r : Ok(r.v, i + 1))
         [] c \in LineEnds /\ mode.top /\ Len(mode.delimiter) = 1 ->
               Bad("newline in single-quoted f-string")
         [] c = "\\" -> Add(c \o At(text, i + 1), 2)
         [] StartsWith(text, "{{", i) -> Add("{", 2)
         [] StartsWith(text, "}}", i) -> Add("}", 2)
         [] c = "{" -> Then(Flush(buffer, parts, mode.raw), LAMBDA flushed :
                         Then(internal_field(text, i + 1, mode), LAMBDA r :
                              Parts(text, r.end, "", Append(flushed.v, r.v), mode)))
         [] c = "}" -> Bad("unmatched closing brace in f-string")
         [] OTHER -> Add(c, 1)

internal_field(text, start, mode) ==
    Then(ExpressionEnd(text, start, start, <<>>), LAMBDA e :
      LET expression == Strip(Piece(text, start, e.end - 1))
          after == IF e.v THEN StopAt(text, e.end + 1, LAMBDA j : At(text, j) \in Blank) ELSE e.end
      IN IF expression = "" THEN Bad("empty f-string expression")
         ELSE Then(internal_conversion(text, after), LAMBDA conversion :
           CASE At(text, conversion.end) = ":" ->
                  Then(Parts(text, conversion.end + 1, "", <<>>, [mode EXCEPT !.top = FALSE]),
                       LAMBDA spec : Ok(FStringField(expression, conversion.v, spec.v, TRUE, e.v), spec.end))
             [] At(text, conversion.end) = "}" ->
                  Ok(FStringField(expression, conversion.v, <<>>, FALSE, e.v), conversion.end + 1)
             [] OTHER -> Bad("unterminated f-string field")))

scan_fstring(text, quoteAt, raw) ==
    LET delimiter == DelimiterAt(text, quoteAt) IN
    Parts(text, quoteAt + Len(delimiter), "", <<>>, [raw |-> raw, delimiter |-> delimiter, top |-> TRUE])

-----------------------------------------------------------------------------
(* The scan: a literal wins over every other reading of a character.       *)

IsNumberStart(text, i) ==
    At(text, i) \in ASCII_DIGITS \/ (At(text, i) = "." /\ At(text, i + 1) \in ASCII_DIGITS)

scan_literal(text, i) ==
    LET string == internal_string_prefix(text, i) IN
    CASE IsNumberStart(text, i) -> internal_scan_number(text, i)
      [] Has(string.prefix, "f") ->
            Then(scan_fstring(text, string.quoteAt, Has(string.prefix, "r")),
                 LAMBDA r : Ok(Token("f-string", Piece(text, i, r.end - 1), r.v), r.end))
      [] OTHER -> internal_scan_string(text, i, string.prefix, string.quoteAt)

IsLiteral(text, i) == IsNumberStart(text, i) \/ internal_string_prefix(text, i).quoteAt # 0

internal_scan_identifier(text, i) ==
    LET end == StopAt(text, i, LAMBDA j : At(text, j) \in Letters \cup ASCII_DIGITS)
        lexeme == Piece(text, i, end - 1)
    IN Ok(Token(IF lexeme \in Keywords THEN KeywordKind[lexeme] ELSE "identifier", lexeme, <<>>), end)

internal_scan_symbol(text, i) ==
    LET pair == Piece(text, i, i + 1) IN
    CASE pair \in DoubleTokens -> Ok(Token(pair, pair, <<>>), i + 2)
      [] At(text, i) \in SingleTokens -> Ok(Token(At(text, i), At(text, i), <<>>), i + 1)
      [] OTHER -> Bad("unsupported character")

RECURSIVE scan(_, _, _)
scan(text, i, tokens) ==
    LET c == At(text, i)
        Emit(result) == Then(result, LAMBDA r : scan(text, r.end, Append(tokens, r.v)))
    IN CASE i > Len(text) -> Ok(Append(tokens, Token("end of input", "", <<>>)), i)
         [] IsLiteral(text, i) -> Emit(scan_literal(text, i))
         [] c \in Blank -> scan(text, i + 1, tokens)
         [] c \in LineEnds ->
               LET end == IF StartsWith(text, "\r\n", i) THEN i + 2 ELSE i + 1
               IN scan(text, end, Append(tokens, Token("newline", Piece(text, i, end - 1), <<>>)))
         [] c = "#" -> scan(text, StopAt(text, i, LAMBDA j : At(text, j) \notin LineEnds), tokens)
         [] c \in Letters -> Emit(internal_scan_identifier(text, i))
         [] OTHER -> Emit(internal_scan_symbol(text, i))

scan_tokens(text) == scan(text, 1, <<>>)
=============================================================================
