--------------------------- MODULE MigrationGate ---------------------------
(***************************************************************************)
(* The checks of scripts/validate_production_migrations.py as operators.   *)
(* A check that raises refuses, whichever of its errors comes first.       *)
(*                                                                         *)
(* A migration file is [version, label, script]: the digits its name       *)
(* starts with (none if the name is not of the accepted form), the rest of *)
(* the name, and its text as segments of SQL (see Text below).  Letters    *)
(* that matter to no check are "x"; "drop" stands for the statements that  *)
(* are forbidden by their first words, "alter" ... "rename" for those with *)
(* a second part further on.  A directory among the files is a file        *)
(* without a version.                                                      *)
(***************************************************************************)
EXTENDS Integers, Sequences, SequencesExt

CONSTANT Legacy  \* the immutable first migration, its contents included

NoVersion == <<>>
Underscore == 10  \* "_" sorts after the digits

Versions(files) == {f.version : f \in files}

-----------------------------------------------------------------------------
(* The local repository                                                    *)

\* Text order, as strings are sorted by Python and by the CLI.
TextBefore(s, t) ==
    \E n \in 0..Len(s) :
        /\ n < Len(t)
        /\ SubSeq(s, 1, n) = SubSeq(t, 1, n)
        /\ n = Len(s) \/ s[n + 1] < t[n + 1]

Name(f) == f.version \o <<Underscore, f.label>>

NameBefore(f, g) == TextBefore(Name(f), Name(g))

AsInt(version) == FoldLeft(LAMBDA n, digit : 10 * n + digit, 0, version)

\* Mutant: the chronological order of the file names is not checked.
RepositoryAcceptedUnordered(files) ==
    /\ NoVersion \notin Versions(files)
    /\ \A f, g \in files : f # g => ~ IsPrefix(f.version, g.version)
    /\ Legacy \in files

\* No version twice or a prefix of another, file names in chronological
\* order, and the legacy migration there unchanged.
RepositoryAccepted(files) ==
    /\ NoVersion \notin Versions(files)
    /\ \A f, g \in files : f # g => ~ IsPrefix(f.version, g.version)
    /\ \A f, g \in files : NameBefore(f, g) => AsInt(f.version) <= AsInt(g.version)
    /\ Legacy \in files

-----------------------------------------------------------------------------
(* The remote history                                                      *)

Null == <<>>

\* `supabase migration list`: a row for every version of either side, in the
\* order of the versions.
MigrationList(files, remote) ==
    {[local  |-> IF v \in Versions(files) THEN v ELSE Null,
      remote |-> IF v \in remote THEN v ELSE Null] :
        v \in Versions(files) \cup remote}

\* Mutant: versions missing below the newest applied one are not noticed.
HistoryAcceptedWithGaps(rows, files, aligned) ==
    /\ {row.local : row \in rows} = Versions(files)
    /\ \E row \in rows : row.remote # Null
    /\ \A row \in rows : row.remote \in {row.local, Null}
    /\ aligned => \A row \in rows : row.remote # Null

\* Mutant: --require-aligned is ignored.
HistoryAcceptedUnaligned(rows, files, aligned) ==
    /\ {row.local : row \in rows} = Versions(files)
    /\ \E row \in rows : row.remote # Null
    /\ \A row \in rows : row.remote \in {row.local, Null}
    /\ \A row, applied \in rows :
          row.remote = Null /\ applied.remote # Null =>
              TextBefore(applied.local, row.local)

\* Every row is local, rows diverge nowhere, something is applied already,
\* and nothing applied follows something missing.
HistoryAccepted(rows, files, aligned) ==
    /\ {row.local : row \in rows} = Versions(files)
    /\ \E row \in rows : row.remote # Null
    /\ \A row \in rows : row.remote \in {row.local, Null}
    /\ \A row, applied \in rows :
          row.remote = Null /\ applied.remote # Null =>
              TextBefore(applied.local, row.local)
    /\ aligned => \A row \in rows : row.remote # Null

Pending(rows, files) ==
    {f \in files : [local |-> f.version, remote |-> Null] \in rows}

\* The gated suffix is exactly what the CLI would push, and nothing else.
PlanAccepted(plan, pending) ==
    /\ ~ plan.seedsOrRoles
    /\ plan.migrations = pending
    /\ plan.upToDate = (pending = {})

-----------------------------------------------------------------------------
(* strip_sql_literals_and_comments: one state per character read.  A token *)
(* of several characters is consumed at its first one; skip counts the     *)
(* rest, which share its fate.                                             *)

LexStart == [mode |-> "normal", depth |-> 0, tag |-> <<>>, skip |-> 0, hidden |-> FALSE]

At(sql, i, token) ==
    i + Len(token) - 1 <= Len(sql) /\ SubSeq(sql, i, i + Len(token) - 1) = token

Letters == {"x", "drop", "alter", "rename"}

\* The dollar quotes $$ and $tag$ that open at i, at most one.
DollarQuotes(sql, i) ==
    {SubSeq(sql, i, j) : j \in
        {j \in (i + 1)..Len(sql) :
            sql[i] = "$" /\ sql[j] = "$" /\ \A k \in (i + 1)..(j - 1) : sql[k] \in Letters}}

Hide(s, mode, length) == [s EXCEPT !.mode = mode, !.skip = length - 1, !.hidden = TRUE]

LexNormal(sql, i, s) ==
    CASE At(sql, i, <<"-", "-">>)  -> Hide(s, "line-comment", 2)
      [] At(sql, i, <<"/", "*">>)  -> [Hide(s, "block-comment", 2) EXCEPT !.depth = 1]
      [] sql[i] = "'"              -> Hide(s, "single-quote", 1)
      [] sql[i] = "\""             -> Hide(s, "double-quote", 1)
      [] DollarQuotes(sql, i) # {} ->
            LET tag == CHOOSE t \in DollarQuotes(sql, i) : TRUE
            IN [Hide(s, "dollar-quote", Len(tag)) EXCEPT !.tag = tag]
      [] OTHER                     -> [s EXCEPT !.hidden = FALSE]

\* Mutant: the first end of comment closes them all.
LexBlockCommentFlat(sql, i, s) ==
    CASE At(sql, i, <<"/", "*">>) -> [Hide(s, s.mode, 2) EXCEPT !.depth = @ + 1]
      [] At(sql, i, <<"*", "/">>) -> [Hide(s, "normal", 2) EXCEPT !.depth = 0]
      [] OTHER                    -> Hide(s, s.mode, 1)

LexBlockComment(sql, i, s) ==
    CASE At(sql, i, <<"/", "*">>) -> [Hide(s, s.mode, 2) EXCEPT !.depth = @ + 1]
      [] At(sql, i, <<"*", "/">>) ->
            [Hide(s, IF s.depth = 1 THEN "normal" ELSE s.mode, 2) EXCEPT !.depth = @ - 1]
      [] OTHER                    -> Hide(s, s.mode, 1)

\* The quote doubled, or after a backslash in a single-quoted literal, does
\* not end it.
LexQuote(sql, i, s, quote) ==
    CASE At(sql, i, <<quote, quote>>)                     -> Hide(s, s.mode, 2)
      [] quote = "'" /\ sql[i] = "\\" /\ i < Len(sql)     -> Hide(s, s.mode, 2)
      [] sql[i] = quote /\ ~ At(sql, i, <<quote, quote>>) -> Hide(s, "normal", 1)
      [] OTHER                                            -> Hide(s, s.mode, 1)

LexStep(sql, i, s) ==
    IF s.skip > 0 THEN [s EXCEPT !.skip = @ - 1]
    ELSE CASE s.mode = "normal"        -> LexNormal(sql, i, s)
           [] s.mode = "line-comment"  ->
                IF sql[i] = "\n" THEN [s EXCEPT !.mode = "normal", !.hidden = FALSE]
                                 ELSE Hide(s, s.mode, 1)
           [] s.mode = "block-comment" -> LexBlockComment(sql, i, s)
           [] s.mode = "single-quote"  -> LexQuote(sql, i, s, "'")
           [] s.mode = "double-quote"  -> LexQuote(sql, i, s, "\"")
           [] s.mode = "dollar-quote"  ->
                IF At(sql, i, s.tag) THEN Hide(s, "normal", Len(s.tag))
                                     ELSE Hide(s, s.mode, 1)

Scan(sql) ==
    LET scan[i \in 0..Len(sql)] ==
            IF i = 0 THEN LexStart ELSE LexStep(sql, i, scan[i - 1])
    IN scan

\* Line ends stay where they are.
Stripped(sql) ==
    LET scan == Scan(sql)
    IN [i \in DOMAIN sql |-> IF scan[i].hidden /\ sql[i] # "\n" THEN " " ELSE sql[i]]

Terminated(sql) == Scan(sql)[Len(sql)].mode \in {"normal", "line-comment"}

\* Mutant: only the first statement of a file is searched.
ForbiddenInFirst(text) ==
    \E i, j \in DOMAIN text :
        /\ i <= j /\ \A k \in 1..j : text[k] # ";"
        /\ text[i] = "drop" \/ (text[i] = "alter" /\ text[j] = "rename")

\* Some statement, a part between semicolons, matches a forbidden pattern.
Forbidden(text) ==
    \E i, j \in DOMAIN text :
        /\ i <= j /\ \A k \in i..j : text[k] # ";"
        /\ text[i] = "drop" \/ (text[i] = "alter" /\ text[j] = "rename")

SqlAccepted(sql) == Terminated(sql) /\ ~ Forbidden(Stripped(sql))

-----------------------------------------------------------------------------
(* What PostgreSQL reads.  A script is a sequence of segments, each code   *)
(* or something that is not executed, and its text is their concatenation. *)

Doubled(text, quote) ==
    FlattenSeq([i \in DOMAIN text |->
                  IF text[i] = quote THEN <<quote, quote>> ELSE <<text[i]>>])

\* The ends of comments within a comment are written as one element each.
Nested(text) ==
    FlattenSeq([i \in DOMAIN text |->
                  CASE text[i] = "/*" -> <<"/", "*">>
                    [] text[i] = "*/" -> <<"*", "/">>
                    [] OTHER          -> <<text[i]>>])

SegmentText(segment) ==
    CASE segment.kind = "code"       -> segment.text
      [] segment.kind = "line"       -> <<"-", "-">> \o segment.text \o <<"\n">>
      [] segment.kind = "block"      -> <<"/", "*">> \o Nested(segment.text) \o <<"*", "/">>
      [] segment.kind = "literal"    -> <<"'">> \o Doubled(segment.text, "'") \o <<"'">>
      [] segment.kind = "identifier" -> <<"\"">> \o Doubled(segment.text, "\"") \o <<"\"">>
      [] segment.kind = "dollar"     -> <<"$", "$">> \o segment.text \o <<"$", "$">>
      [] segment.kind = "tagged"     -> <<"$", "x", "$">> \o segment.text \o <<"$", "x", "$">>

Text(script) == FlattenSeq([i \in DOMAIN script |-> SegmentText(script[i])])

\* The text with everything that is not code blanked, line ends aside.
CodeOnly(script) ==
    FlattenSeq([i \in DOMAIN script |->
        IF script[i].kind = "code" THEN script[i].text
        ELSE [k \in DOMAIN SegmentText(script[i]) |->
                IF SegmentText(script[i])[k] = "\n" THEN "\n" ELSE " "]])

-----------------------------------------------------------------------------
(* Which segments there are.  Left out is what the scanner reads otherwise *)
(* than PostgreSQL: a backslash in a literal, and a dollar sign in code.   *)

Kinds == {"code", "line", "block", "literal", "identifier", "dollar", "tagged"}

\* No token begins within the text, whatever part of it comes after.
Avoids(text, after, tokens) ==
    \A i \in DOMAIN text, token \in tokens : ~ At(text \o after, i, token)

\* How many comments are open within a comment after n elements of its text.
OpenIn(text, n) ==
    Cardinality({i \in 1..n : text[i] = "/*"}) - Cardinality({i \in 1..n : text[i] = "*/"})

\* Every comment within is closed, and only the ends of comments look like it.
ClosesWithin(text) ==
    /\ \A n \in DOMAIN text : OpenIn(text, n) >= 0
    /\ OpenIn(text, Len(text)) = 0
    /\ \A i \in DOMAIN text :
          LET next == IF i = Len(text) THEN "*/" ELSE text[i + 1]
          IN /\ text[i] = "/" => next \notin {"*", "*/"}
             /\ text[i] = "*" => next \notin {"/", "/*"}

SegmentFits(segment) ==
    LET text == segment.text
    IN CASE segment.kind = "code"       ->
              /\ text # <<>> /\ Last(text) \notin {"-", "/"}
              /\ Avoids(text, <<>>, {<<"-", "-">>, <<"/", "*">>, <<"'">>, <<"\"">>, <<"$">>})
         [] segment.kind = "line"       -> Avoids(text, <<>>, {<<"\n">>})
         [] segment.kind = "block"      -> ClosesWithin(text)
         [] segment.kind = "literal"    -> Avoids(text, <<>>, {<<"\\">>})
         [] segment.kind = "identifier" -> TRUE
         [] segment.kind = "dollar"     -> Avoids(text, <<"$", "$">>, {<<"$", "$">>})
         [] segment.kind = "tagged"     -> Avoids(text, <<"$", "x", "$">>, {<<"$", "x", "$">>})

\* Two literals, or two quoted identifiers, in a row would be one.
ScriptFits(script) ==
    /\ script \in Seq([kind : Kinds, text : Seq(STRING)])
    /\ \A i \in DOMAIN script : SegmentFits(script[i])
    /\ \A i \in 1..(Len(script) - 1) :
          script[i].kind \in {"literal", "identifier"} => script[i + 1].kind # script[i].kind
=============================================================================
