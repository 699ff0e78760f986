-------------------------------- MODULE SqlText --------------------------------
(***************************************************************************)
(* The two conversions at the edges of the SQL path.  On the way in, the   *)
(* scanner that cuts a script into statements (sql_script/mod.rs): the     *)
(* SQL screen runs what it returns one by one, so a cut in the wrong place *)
(* runs half a statement.  On the way out, the rendering of a database     *)
(* value as a JSON cell (executor/read.rs), which the grid reads back with *)
(* JavaScript numbers.                                                     *)
(*                                                                         *)
(* A script is a sequence of tokens, whose characters the scanner sees     *)
(* without knowing where one token ends.                                   *)
(***************************************************************************)
EXTENDS Integers, Sequences, SequencesExt

CONSTANTS
    MaxTokens,       \* bound on the length of a script
    JS_MAX_SAFE_INT, \* 2^53 in the code: the integers a JS Number holds
    MaxInt           \* bound on the integers rendered

ASSUME TextAssumption ==
    /\ MaxTokens \in Nat
    /\ JS_MAX_SAFE_INT \in Nat /\ MaxInt \in Nat
    /\ JS_MAX_SAFE_INT % 2 = 0

VARIABLE job   \* the conversion under way

--------------------------------------------------------------------------------
(* Scripts.                                                                *)

(* The characters of each token; "t" stands for letters and digits, "_"    *)
(* for white space.                                                        *)
Spelling ==
    [word |-> <<"t">>, minus |-> <<"-">>, slash |-> <<"/">>,
     string |-> <<"'", ";", "'">>,
     doubled |-> <<"'", "'", "'", ";", "'">>,
     escaped |-> <<"'", "\\", "'", ";", "'">>,
     ident |-> <<"\"", "'", ";", "\"">>,
     line |-> <<"-", "-", "'", ";", "\n">>,
     block |-> <<"/", "*", "'", ";", "*", "/">>,
     dollar |-> <<"$", "t", "$", "'", ";", "$", "$", "t", "$">>,
     param |-> <<"$", "t">>]

Comments == {"line", "block"}
Tokens(engine) == (DOMAIN Spelling \ {"escaped", "dollar", "param"}) \cup {"sep"}
                    \cup (IF engine = "mysql" THEN {"escaped"} ELSE {})
                    \cup (IF engine = "postgres" THEN {"dollar", "param"} ELSE {})

(* Every token is followed by white space, so that two never run together. *)
Chars(tokens) ==
    FlattenSeq([k \in DOMAIN tokens |->
        IF tokens[k] = "sep" THEN <<";">> ELSE Append(Spelling[tokens[k]], "_")])

At(bytes, i, c) == i <= Len(bytes) /\ bytes[i] = c

(* The least position from i on where P holds, or one past the end.        *)
First(bytes, i, P(_)) ==
    LET hits == {j \in i..Len(bytes) : P(j)} IN
    IF hits = {} THEN Len(bytes) + 1 ELSE CHOOSE j \in hits : \A k \in hits : j <= k

(* Mutant: a backslash before the quote does not keep the literal open.    *)
AfterQuote_mutant(bytes, i, escapes) ==
    LET end[j \in (i + 1)..(Len(bytes) + 2)] ==
            IF j > Len(bytes) THEN Len(bytes) + 1
            ELSE IF bytes[j] = bytes[i] THEN IF At(bytes, j + 1, bytes[i]) THEN end[j + 2] ELSE j + 1
            ELSE end[j + 1]
    IN  end[i + 1]

(* A literal ends at its quote, unless the quote is doubled, or escaped    *)
(* where the engine knows escapes.                                         *)
AfterQuote(bytes, i, escapes) ==
    LET end[j \in (i + 1)..(Len(bytes) + 2)] ==
            IF j > Len(bytes) THEN Len(bytes) + 1
            ELSE IF escapes /\ bytes[j] = "\\" /\ j < Len(bytes) THEN end[j + 2]
            ELSE IF bytes[j] = bytes[i] THEN IF At(bytes, j + 1, bytes[i]) THEN end[j + 2] ELSE j + 1
            ELSE end[j + 1]
    IN  end[i + 1]

AfterLine(bytes, i) == First(bytes, i, LAMBDA j : bytes[j] = "\n")

AfterBlock(bytes, i) ==
    LET close == First(bytes, i + 2, LAMBDA j : bytes[j] = "*" /\ At(bytes, j + 1, "/"))
    IN  IF close + 2 > Len(bytes) + 1 THEN Len(bytes) + 1 ELSE close + 2

(* The length of a dollar tag, or 0.                                       *)
dollar_tag_len(bytes, i) ==
    LET j == First(bytes, i + 1, LAMBDA k : bytes[k] # "t")
    IN  IF At(bytes, j, "$") THEN j - i + 1 ELSE 0

AfterDollar(bytes, i, len) ==
    LET tag == SubSeq(bytes, i, i + len - 1)
        close == First(bytes, i + len,
                       LAMBDA j : j + len - 1 <= Len(bytes) /\ SubSeq(bytes, j, j + len - 1) = tag)
    IN  IF close > Len(bytes) THEN close ELSE close + len

StartsComment(bytes, i) ==
    \/ At(bytes, i, "-") /\ At(bytes, i + 1, "-")
    \/ At(bytes, i, "/") /\ At(bytes, i + 1, "*")

AfterComment(bytes, i) == IF bytes[i] = "-" THEN AfterLine(bytes, i) ELSE AfterBlock(bytes, i)

IsSpace(c) == c \in {"_", "\n"}

trim(s) ==
    LET solid == {k \in DOMAIN s : ~IsSpace(s[k])}
    IN  IF solid = {} THEN <<>>
        ELSE SubSeq(s, CHOOSE k \in solid : \A m \in solid : k <= m,
                       CHOOSE k \in solid : \A m \in solid : k >= m)

(* Executable SQL is left once the comments are stripped.                  *)
is_effective(s) ==
    LET solid[i \in 1..(Len(s) + 1)] ==
            IF i > Len(s) THEN FALSE
            ELSE IF StartsComment(s, i) THEN solid[AfterComment(s, i)]
            ELSE ~IsSpace(s[i]) \/ solid[i + 1]
    IN  solid[1]

push_statement(out, raw) ==
    LET statement == trim(raw)
    IN  IF statement # <<>> /\ is_effective(statement) THEN Append(out, statement) ELSE out

(* One turn of the scanning loop: a quoted or commented stretch is stepped *)
(* over, a semicolon ends a statement, and so does the end of the script.  *)
ScanStep ==
    LET b == job.bytes
        i == job.i
        rest == SubSeq(b, job.start, i - 1)
    IN  /\ job.task = "split" /\ ~job.done
        /\ \/ /\ i <= Len(b) /\ b[i] \in {"'", "\""}
              /\ job' = [job EXCEPT !.i = AfterQuote(b, i, job.engine = "mysql")]
           \/ /\ StartsComment(b, i)
              /\ job' = [job EXCEPT !.i = AfterComment(b, i)]
           \/ /\ At(b, i, "$")
              /\ LET len == dollar_tag_len(b, i)
                 IN  job' = [job EXCEPT !.i = IF len > 0 THEN AfterDollar(b, i, len) ELSE @ + 1]
           \/ /\ At(b, i, ";")
              /\ job' = [job EXCEPT !.out = push_statement(@, rest), !.i = @ + 1, !.start = i + 1]
           \/ /\ i <= Len(b) /\ b[i] \notin {"'", "\"", "$", ";"} /\ ~StartsComment(b, i)
              /\ job' = [job EXCEPT !.i = @ + 1]
           \/ /\ i > Len(b)
              /\ job' = [job EXCEPT !.out = push_statement(@, rest), !.done = TRUE]

(* Reference: the tokens between separators, comment-only ones left out.   *)
Expected(tokens) ==
    LET cuts == {0, Len(tokens) + 1} \cup {k \in DOMAIN tokens : tokens[k] = "sep"}
        starts == SetToSortSeq({k \in cuts : k <= Len(tokens)}, LAMBDA x, y : x < y)
        piece(k) == SubSeq(tokens, k + 1, (CHOOSE c \in cuts : c > k /\ \A d \in cuts : d > k => c <= d) - 1)
        real(p) == \E k \in DOMAIN p : p[k] \notin Comments
        pieces == SelectSeq([k \in DOMAIN starts |-> piece(starts[k])], real)
    IN  [k \in DOMAIN pieces |-> trim(Chars(pieces[k]))]

--------------------------------------------------------------------------------
(* Cells.                                                                  *)

(* What the database holds: NULL, a value, or one the driver cannot read.  *)
SqlNull == [is |-> "null"]
Sql(v) == [is |-> "value", v |-> v]
Undecodable == [is |-> "undecodable"]

Null == [json |-> "null"]
Text(v) == [json |-> "string", v |-> v]
Number(v) == [json |-> "number", v |-> v]
Marker == [json |-> "marker"]

Abs(n) == IF n < 0 THEN -n ELSE n

(* Mutant: the boundary is one too high.                                   *)
int_json_mutant(v) == IF Abs(v) > JS_MAX_SAFE_INT + 1 THEN Text(v) ELSE Number(v)

(* Integers outside the safe range become strings.                         *)
int_json(v) == IF Abs(v) > JS_MAX_SAFE_INT THEN Text(v) ELSE Number(v)

(* Of these types whatever does not decode becomes NULL, be it NULL or not: *)
(* an infinite timestamp, a zero date, text that is not UTF-8.             *)
int_or_null(stored) == IF stored.is = "value" THEN int_json(stored.v) ELSE Null
jv(stored) == IF stored.is = "value" THEN Text(stored.v) ELSE Null

(* Of the others it is marked, unless it really is NULL.                   *)
null_or_marker(stored) == IF stored = SqlNull THEN Null ELSE Marker

(* An interval shows years and months; Rust's division rounds to zero.     *)
fmt_interval(months) ==
    LET sign == IF months < 0 THEN -1 ELSE 1
    IN  [years |-> sign * (Abs(months) \div 12), mons |-> sign * (Abs(months) % 12)]

(* An array is rendered element by element, NULLs included.                *)
pg_array(elements) == [json |-> "array", v |-> [k \in DOMAIN elements |-> int_or_null(elements[k])]]

(* Types no arm names are tried as text and numbers before they are marked. *)
pg_fallback(stored) == IF stored.is = "value" THEN int_json(stored.v) ELSE null_or_marker(stored)

(* PostgreSQL: integers, types of an exact Rust counterpart (text, JSON,   *)
(* dates and times), types that are marked when they do not decode, and    *)
(* the types no arm names.                                                 *)
pg_value(type, stored) ==
    CASE type = "integer" -> int_or_null(stored)
      [] type = "exact" -> jv(stored)
      [] type = "custom" -> pg_fallback(stored)
      [] type = "interval" -> IF stored.is = "value" THEN Text(fmt_interval(stored.v)) ELSE null_or_marker(stored)
      [] type = "array" -> IF stored.is = "value" THEN pg_array(stored.v) ELSE null_or_marker(stored)

mysql_fallback(stored) == IF stored.is = "value" THEN int_json(stored.v) ELSE null_or_marker(stored)

(* MySQL: the decode route of a type is an integer, an exact type, or a    *)
(* fallback; there are neither arrays nor intervals.                       *)
mysql_value(type, stored) ==
    CASE type = "integer" -> int_or_null(stored)
      [] type = "exact" -> jv(stored)
      [] type = "custom" -> mysql_fallback(stored)

(* SQLite: the storage classes in order; what matches none is NULL.        *)
sqlite_value(type, stored) ==
    IF stored = SqlNull THEN Null
    ELSE CASE type = "integer" -> int_json(stored.v)
           [] type = "exact" -> Text(stored.v)

CellTypes(engine) == {"integer", "exact"}
                       \cup (IF engine = "sqlite" THEN {} ELSE {"custom"})
                       \cup (IF engine = "postgres" THEN {"interval", "array"} ELSE {})

Cell == CASE job.engine = "postgres" -> pg_value(job.type, job.stored)
          [] job.engine = "mysql" -> mysql_value(job.type, job.stored)
          [] OTHER -> sqlite_value(job.type, job.stored)

Render ==
    /\ job.task = "render" /\ ~job.done
    /\ job' = [task |-> "render", done |-> TRUE, type |-> job.type, stored |-> job.stored,
               cell |-> Cell]

(* How the grid reads a cell: a JS Number holds every integer up to the    *)
(* safe one and, just above it, only the even ones.                        *)
JsNumber(v) == IF Abs(v) <= JS_MAX_SAFE_INT \/ v % 2 = 0 THEN v ELSE v - 1

ReadScalar(cell) == CASE cell.json = "null" -> SqlNull
                      [] cell.json = "marker" -> Undecodable
                      [] cell.json = "number" -> Sql(JsNumber(cell.v))
                      [] OTHER -> Sql(cell.v)

ReadBack(type, cell) ==
    CASE cell.json = "array" -> Sql([k \in DOMAIN cell.v |-> ReadScalar(cell.v[k])])
      [] type = "interval" /\ cell.json = "string" -> Sql(12 * cell.v.years + cell.v.mons)
      [] OTHER -> ReadScalar(cell)

--------------------------------------------------------------------------------
Ints == (-MaxInt)..MaxInt

Split(engine, tokens) ==
    [task |-> "split", engine |-> engine, tokens |-> tokens, bytes |-> Chars(tokens),
     i |-> 1, start |-> 1, out |-> <<>>, done |-> FALSE]

TextInit ==
    \/ \E engine \in {"postgres", "mysql"}, n \in 0..MaxTokens :
          \E tokens \in [1..n -> Tokens(engine)] : job = Split(engine, tokens)
    \/ \E engine \in {"postgres", "mysql", "sqlite"}, v \in Ints : \E type \in CellTypes(engine) :
          \E stored \in {SqlNull, IF type = "array" THEN Sql(<<Sql(v), SqlNull>>) ELSE Sql(v)}
                          \cup (IF engine = "sqlite" THEN {} ELSE {Undecodable}) :
             job = [task |-> "render", engine |-> engine, type |-> type, stored |-> stored,
                    done |-> FALSE]

TextNext == ScanStep \/ Render

TextSpec == TextInit /\ [][TextNext]_job

--------------------------------------------------------------------------------
(* A script is cut exactly at the semicolons outside literals, quoted      *)
(* names, dollar quotes and comments, and no piece with executable SQL is  *)
(* dropped or altered (sql_script/mod.rs).                                 *)
SplitsAtSeparators ==
    job.task = "split" /\ job.done => job.out = Expected(job.tokens)

(* The grid reads back the value the database holds: integers to the last  *)
(* digit, intervals to the month, and NULL for NULL.  A value that cannot  *)
(* be decoded is marked as such where the arm of its type marks it; an     *)
(* integer or an exact type shows NULL instead, the one thing the grid     *)
(* says that is not so (executor/read.rs:157-163).                         *)
CellsReadBack ==
    job.task = "render" /\ job.done =>
        \/ ReadBack(job.type, job.cell) = job.stored
        \/ /\ job.stored = Undecodable /\ job.type \in {"integer", "exact"}
           /\ ReadBack(job.type, job.cell) = SqlNull

(* Neither conversion changes what is meant: the statements sent are those *)
(* of the script, the cells shown are those of the row, or NULL where one  *)
(* of an exact type cannot be decoded.                                     *)
TextIsFaithful == SplitsAtSeparators /\ CellsReadBack

================================================================================
