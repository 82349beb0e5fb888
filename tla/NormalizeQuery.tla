--------------------------- MODULE NormalizeQuery ---------------------------
(***************************************************************************)
(* The text that the parse hook exports for a statement                    *)
(* (src/src/hooks/query_normalize.c, string_utils.h, and                   *)
(* PschPostParseAnalyze in hooks.c): every constant of the statement is    *)
(* replaced by a placeholder.                                              *)
(*                                                                         *)
(* A text is a sequence of units: blanks, words, literals, minus signs,    *)
(* parameters, squashable lists and semicolons.  Offsets count units from  *)
(* 0 as the code's count bytes.  The raw parser, the lexer and the query   *)
(* jumbling are PostgreSQL's.                                              *)
(***************************************************************************)
EXTENDS Integers, Sequences, FiniteSets, SequencesExt

Literals == {"1", "2"}
Params == {"$1"}
Lists == {"l"}          \* a list of literals that jumbling squashes
Placeholders == <<"$1", "$2", "$3", "$4", "$5">>
SquashMark == "/*, ... */"

MinOf(S) == CHOOSE x \in S : \A y \in S : x =< y
Least(a, b) == IF a < b THEN a ELSE b
Greatest(a, b) == IF a < b THEN b ELSE a

-----------------------------------------------------------------------------
(* PostgreSQL's part.                                                      *)

(* Statements: the slices between semicolons that are not blank, with the  *)
(* location and length that the raw parser gives them; the length of one   *)
(* that no semicolon ends is 0.                                            *)
Ends(source) == {i \in 1..Len(source) : source[i] = ";"} \cup {Len(source) + 1}
Begins(source) == {0} \cup {i \in 1..Len(source) : source[i] = ";"}

StatementAt(source, b) ==
  LET e == MinOf({x \in Ends(source) : x > b})
  IN  [stmt_location |-> b,
       stmt_len |-> IF e > Len(source) THEN 0 ELSE e - b - 1]

IsBlank(text) == \A i \in 1..Len(text) : text[i] = " "

Slice(source, s) ==
  SubSeq(source, s.stmt_location + 1,
         IF s.stmt_len = 0 THEN Len(source) ELSE s.stmt_location + s.stmt_len)

Statements(source) ==
  {s \in {StatementAt(source, b) : b \in Begins(source)} : ~IsBlank(Slice(source, s))}

(* CleanQuerytext: where the slice starts and how long it is, trimmed.     *)
CleanQuerytext(source, s) ==
  LET text == Slice(source, s)
      solid == {i \in 1..Len(text) : text[i] # " "}
      first == MinOf(solid)
      last == CHOOSE i \in solid : \A j \in solid : j =< i
  IN  [query_loc |-> s.stmt_location + first - 1, query_len |-> last - first + 1]

(* Offsets at which the parser may see the literal at offset c begin: its  *)
(* own, or that of a minus sign before it, if that is taken as unary.      *)
Locations(source, lo, c) ==
  {c} \cup {m \in lo..c-1 : /\ source[m + 1] = "-"
                            /\ \A i \in m+1..c-1 : source[i + 1] \in {"-", " "}}

(* What jumbling records: for each literal its location, for each          *)
(* parameter and squashed list its own; a constant may be met twice, and   *)
(* not in the order of the text.                                           *)
Inside(source, q, kind) ==
  {c \in q.query_loc..q.query_loc+q.query_len-1 : source[c + 1] \in kind}

Constants(source, q) ==
  {f \in [Inside(source, q, Literals) -> q.query_loc..q.query_loc+q.query_len-1] :
     \A c \in DOMAIN f : f[c] \in Locations(source, q.query_loc, c)}

Location(source, c) ==
  [location |-> c,
   length |-> IF source[c + 1] \in Lists THEN 1 ELSE -1,
   extern_param |-> source[c + 1] \in Params,
   squashed |-> source[c + 1] \in Lists]

Recorded(source, q, f) ==
  {Location(source, f[c]) : c \in DOMAIN f}
    \cup {Location(source, c) : c \in Inside(source, q, Params \cup Lists)}

JumbleStates(source, q, f) ==
  LET squashed == Inside(source, q, Lists) # {}
      orders == SetToSeqs(Recorded(source, q, f))
  IN  [clocations : orders \cup {Append(o, o[1]) : o \in orders \ {<<>>}},
       has_squashed_lists : {squashed},
       highest_extern_param_id :
         {IF ~squashed /\ Inside(source, q, Params) # {} THEN 1 ELSE 0}]

(* core_yylex: the first token after the i-th unit, or 0 at the end.       *)
core_yylex(query, i) ==
  LET later == {j \in i+1..Len(query) : query[j] # " "}
  IN  IF later = {} THEN 0 ELSE MinOf(later)

-----------------------------------------------------------------------------
(* FillInConstantLengths.  The scanner is read forwards only; at is the    *)
(* last token read.                                                        *)

(* Variant: the sign is taken for the whole constant.                      *)
TokenEndKeepsNumber(query, loc, tok) == tok

TokenEnd(query, loc, tok) ==
  IF tok # 0 /\ query[loc + 1] = "-" THEN core_yylex(query, tok) ELSE tok

FillInConstantLengths(query, query_loc, clocations) ==
  LET locs == SortSeq(clocations, LAMBDA a, b : a.location < b.location)
      Fill(scan, i) ==
        LET loc == locs[i].location - query_loc
            end == TokenEnd(query, loc, core_yylex(query, Greatest(scan.at, loc)))
        IN  IF scan.eof THEN scan
            ELSE IF i > 1 /\ locs[i].location = locs[i - 1].location
              THEN [scan EXCEPT !.locs[i].length = -1]
            ELSE IF locs[i].squashed THEN scan
            ELSE IF end = 0 THEN [scan EXCEPT !.eof = TRUE]
            ELSE [scan EXCEPT !.at = end, !.locs[i].length = end - loc]
  IN  FoldLeft(Fill, [at |-> 0, eof |-> FALSE, locs |-> locs],
               [i \in 1..Len(locs) |-> i]).locs

(* PschNormalizeQuery                                                      *)
PschNormalizeQuery(query, query_loc, query_len, jstate) ==
  LET locs == FillInConstantLengths(query, query_loc, jstate.clocations)
      Copy(query_at, n) == SubSeq(query, query_at + 1, query_at + n)
      Replace(norm, c) ==
        LET off == c.location - query_loc
        IN  IF (c.extern_param /\ ~jstate.has_squashed_lists) \/ c.length < 0
              THEN norm
              ELSE [text |-> norm.text
                               \o Copy(norm.quer_loc, off - norm.quer_loc)
                               \o <<Placeholders[norm.n + 1 + jstate.highest_extern_param_id]>>
                               \o (IF c.squashed THEN <<SquashMark>> ELSE <<>>),
                    quer_loc |-> off + c.length,
                    n |-> norm.n + 1]
      done == FoldLeft(Replace, [text |-> <<>>, quer_loc |-> 0, n |-> 0], locs)
  IN  done.text \o Copy(done.quer_loc, query_len - done.quer_loc)

(* PschCopyTrimmedStatement, on a slice that CleanQuerytext has trimmed.   *)
PschCopyTrimmedStatement(query, query_len) == SubSeq(query, 1, query_len)

ExportedQuery(source, q, jstate) ==
  LET query == SubSeq(source, q.query_loc + 1, Len(source))
  IN  IF jstate.clocations # <<>>
        THEN PschNormalizeQuery(query, q.query_loc, q.query_len, jstate)
        ELSE PschCopyTrimmedStatement(query, q.query_len)

-----------------------------------------------------------------------------
(* The reference: each constant, from where it begins to the end of its    *)
(* literal, becomes a placeholder, numbered in the order of the text after *)
(* the parameters; the rest of the statement stays as it is.  Parameters   *)
(* are constants only beside a squashed list.                              *)
Spans(source, q, f) ==
  {<<f[c], c>> : c \in DOMAIN f}
    \cup {<<c, c>> : c \in Inside(source, q, Lists)}
    \cup {<<c, c>> : c \in IF Inside(source, q, Lists) = {} THEN {}
                           ELSE Inside(source, q, Params)}

Reference(source, q, f) ==
  LET spans == Spans(source, q, f)
      kept == IF Inside(source, q, Lists) = {} /\ Inside(source, q, Params) # {}
                THEN 1 ELSE 0
      Number(c) == kept + Cardinality({s \in spans : s[1] =< c})
      At(c) ==
        IF \E s \in spans : s[1] = c
          THEN <<Placeholders[Number(c)]>>
                 \o (IF source[c + 1] \in Lists THEN <<SquashMark>> ELSE <<>>)
        ELSE IF \E s \in spans : c \in s[1]..s[2] THEN <<>>
        ELSE <<source[c + 1]>>
  IN  FlattenSeq([i \in 1..q.query_len |-> At(q.query_loc + i - 1)])

(* A constant with more than one sign before its number, as in "- - 1".    *)
DoublySigned(source, f) ==
  \E c \in DOMAIN f :
    Cardinality({m \in f[c]..c : source[m + 1] = "-"}) > 1
=============================================================================
